------------------------ MODULE Nat64PrefixUtilProofs ------------------------
(* Proofs about Nat64PrefixUtil, for every set of networks and hosts, every  *)
(* length of the answers and any number of calls and moves: a call that      *)
(* fails leaves what it was given alone, and one that succeeds in a network  *)
(* the machine did not leave writes that network's prefix, and the address   *)
(* the network's translator makes.                                           *)
EXTENDS Nat64PrefixUtil, Nat64Proofs

\* Nothing is written before the call returns true.
WritesLast == pc # "idle" \/ ret = "false" => <<v6, text>> = old

\* What is left of the list is of the network the machine is in, and there is
\* something left for GetNetworkNat64Prefix.
ListInv ==
  pc = "loop" =>
    /\ op = "GetPrefix" => res # <<>>
    /\ steady => \A i \in 1..Len(res) : res[i] \in Answers

\* The inductive invariant.
IInv ==
  /\ TypeOK
  /\ WritesLast
  /\ ListInv
  /\ PrefixIsOfNetwork
  /\ ConvertedIsTranslated

\* An answer consists of IPv6 addresses.
LEMMA AnswersAreIpv6 ==
  ASSUME TypeOK PROVE Answers \subseteq Ipv6
  <1>1. CASE op = "Convert" /\ native
    BY <1>1, NativeAssumption DEF Answers
  <1>2. CASE ~ (op = "Convert" /\ native) /\ nat64 = Plain
    BY <1>2 DEF Answers
  <1>3. CASE ~ (op = "Convert" /\ native) /\ nat64 # Plain
    <2>1. nat64.prefix \in Ipv6
      BY <1>3, NetsAssumption DEF TypeOK
    <2>2. (IF op = "Convert" THEN {Tv6} ELSE WellKnown) \subseteq Ipv4
      BY WellKnownIsIpv4, Tv6Assumption
    <2> QED BY <1>3, <2>1, <2>2, AddressTypes DEF Answers
  <1> QED BY <1>1, <1>2, <1>3

\* The rest of a list is of the kind the list is.
LEMMA TailElements ==
  ASSUME NEW s \in Seq(Ipv6), s # <<>>, NEW S, \A i \in 1..Len(s) : s[i] \in S
  PROVE  /\ Tail(s) \in Seq(Ipv6)
         /\ \A i \in 1..Len(Tail(s)) : Tail(s)[i] \in S
  <1>1. Tail(s) \in Seq(Ipv6) /\ Len(s) \in Nat /\ Len(Tail(s)) = Len(s) - 1
    OBVIOUS
  <1>2. ASSUME NEW i \in 1..Len(Tail(s)) PROVE Tail(s)[i] \in S
    <2>1. i + 1 \in 1..Len(s) /\ Tail(s)[i] = s[i + 1]
      BY <1>1
    <2> QED BY <2>1
  <1> QED BY <1>1, <1>2

\* The first of a list is one of the list.
LEMMA HeadElement ==
  ASSUME NEW s \in Seq(Ipv6), s # <<>>
  PROVE  Head(s) \in Ipv6 /\ 1 \in 1..Len(s) /\ Head(s) = s[1]
  <1>1. Len(s) \in Nat /\ Len(s) # 0
    OBVIOUS
  <1> QED BY <1>1

\* The family check keeps its types and the moves that it may see.
LEMMA FamilyStep ==
  ASSUME FamilyTypeOK, checknetfamily
  PROVE  FamilyTypeOK' /\ steady' = steady
  <1>1. CASE _have_ipv4 \/ _have_ipv6
    <2>1. TestSocket \/ SocketFails
      BY <1>1 DEF _have_ipv4, _have_ipv6
    <2>2. fds' \in 0..MaxFds
      BY <2>1, MaxFdsAssumption DEF FamilyTypeOK, TestSocket, SocketFails
    <2>3. have_ipv4' \in BOOLEAN /\ have_ipv6' \in BOOLEAN
      <3>1. have_ipv4 \in BOOLEAN /\ have_ipv6 \in BOOLEAN
        BY DEF FamilyTypeOK
      <3>2. CASE _have_ipv4
        <4>1. have_ipv4' = ("IPv4" \in net) \/ have_ipv4' = FALSE
          BY ONLY <3>2 DEF _have_ipv4
        <4>2. have_ipv6' = have_ipv6
          BY ONLY <3>2 DEF _have_ipv4
        <4>3. ("IPv4" \in net) \in BOOLEAN
          OBVIOUS
        <4> QED BY ONLY <3>1, <4>1, <4>2, <4>3
      <3>3. CASE _have_ipv6
        <4>1. have_ipv6' = ("IPv6" \in net) \/ have_ipv6' = FALSE
          BY ONLY <3>3 DEF _have_ipv6
        <4>2. have_ipv4' = have_ipv4
          BY ONLY <3>3 DEF _have_ipv6
        <4>3. ("IPv6" \in net) \in BOOLEAN
          OBVIOUS
        <4> QED BY ONLY <3>1, <4>1, <4>2, <4>3
      <3> QED BY <1>1, <3>2, <3>3
    <2>4. /\ test' \in {"IPv6", "set"}
          /\ UNCHANGED <<net, steady, net_family>>
      BY <1>1 DEF _have_ipv4, _have_ipv6
    <2> QED BY ONLY <2>2, <2>3, <2>4, FamilyTypeOK DEF FamilyTypeOK
  <1>2. CASE SetFamily
    BY <1>2 DEF FamilyTypeOK, SetFamily
  <1> QED BY <1>1, <1>2 DEF checknetfamily
-----------------------------------------------------------------------------
\* The invariant holds at the start.
LEMMA InvInit == Init => IInv
  <1> SUFFICES ASSUME Init PROVE IInv
    OBVIOUS
  <1> USE DEF Init
  <1>1. FamilyTypeOK
    <2>1. 0 \in 0..MaxFds
      BY MaxFdsAssumption
    <2> QED BY <2>1 DEF FamilyInit, FamilyTypeOK
  <1>2. Zero \in Ipv6
    BY DEF Zero, Ipv6, Byte
  <1>3. TypeOK
    BY <1>1, <1>2, MaxCallsAssumption DEF TypeOK
  <1>4. WritesLast /\ ListInv /\ PrefixIsOfNetwork /\ ConvertedIsTranslated
    BY DEF WritesLast, ListInv, PrefixIsOfNetwork, ConvertedIsTranslated
  <1> QED BY <1>3, <1>4 DEF IInv

\* A call begins: nothing of the last call's result counts any more.
LEMMA EnterKeeps ==
  ASSUME IInv, NEW o \in {"Convert", "GetPrefix"}, NEW f \in {"string", "in6"},
         NEW a \in Hosts, EnterCall(o, f, a)
  PROVE  IInv'
  <1> USE DEF EnterCall
  <1>1. v6' \in Ipv6
    <2>1. Zero \in Ipv6
      BY DEF Zero, Ipv6, Byte
    <2> QED BY <2>1 DEF IInv, TypeOK
  <1>2. FamilyTypeOK'
    BY DEF IInv, TypeOK, FamilyTypeOK, BeginCheck
  <1>3. TypeOK'
    BY <1>1, <1>2, MaxCallsAssumption DEF IInv, TypeOK
  <1>4. (WritesLast /\ ListInv /\ PrefixIsOfNetwork /\ ConvertedIsTranslated)'
    BY DEF WritesLast, ListInv, PrefixIsOfNetwork, ConvertedIsTranslated
  <1> QED BY <1>3, <1>4 DEF IInv

\* A call that returns true returns an address of the network.
LEMMA SucceedKeeps ==
  ASSUME IInv, NEW address \in Ipv6, Succeed(address),
         UNCHANGED <<familyVars, nat64, native, call, op, form, v4, old, res>>,
         op = "GetPrefix" /\ steady =>
           nat64 # Plain /\ \A o \in 0..nat64.length \div 8 - 1 : address[o] = nat64.prefix[o],
         op = "Convert" /\ steady /\ ~ native =>
           nat64 # Plain /\ address = ipv4toipv6(nat64.prefix, nat64.length, v4)
  PROVE  IInv'
  <1> USE DEF Succeed, Return
  <1>1. TypeOK'
    BY DEF IInv, TypeOK, FamilyTypeOK, familyVars
  <1>2. (WritesLast /\ ListInv)'
    BY DEF WritesLast, ListInv
  <1>3. Result' = address
    BY DEF Result, IInv, TypeOK
  <1>4. PrefixIsOfNetwork'
    BY <1>3 DEF PrefixIsOfNetwork, familyVars
  <1>5. ConvertedIsTranslated'
    BY <1>3 DEF ConvertedIsTranslated, familyVars
  <1> QED BY <1>1, <1>2, <1>4, <1>5 DEF IInv

\* ConvertV4toNat64V6 replaces the address its network's translator made of tv6's.
LEMMA ConvertKeeps == ASSUME IInv, Convert PROVE IInv'
  <1> DEFINE h == Head(res)
             address == ReplaceNat64WithV4IP(h, v4)
  <1>1. h \in Ipv6 /\ 1 \in 1..Len(res) /\ h = res[1]
    BY HeadElement DEF Convert, IInv, TypeOK
  <1>2. v4 \in Ipv4
    BY HostsAssumption DEF IInv, TypeOK
  <1>3. address \in Ipv6
    BY <1>1, <1>2, AddressTypes
  <1>4. ASSUME steady, ~ native
        PROVE  nat64 # Plain /\ address = ipv4toipv6(nat64.prefix, nat64.length, v4)
    <2>1. h \in Answers /\ op = "Convert"
      BY <1>1, <1>4 DEF Convert, IInv, ListInv
    <2>2. nat64 # Plain /\ h = ipv4toipv6(nat64.prefix, nat64.length, Tv6)
      BY <1>4, <2>1 DEF Answers
    <2>3. nat64.length \in PrefixLengths
      BY <2>2, NetsAssumption DEF IInv, TypeOK
    <2> QED BY <2>2, <2>3, Tv6Assumption, ReplaceOfTranslated
  <1>5. /\ Succeed(address) /\ op = "Convert"
        /\ UNCHANGED <<familyVars, nat64, native, call, op, form, v4, old, res>>
    BY DEF Convert, Replace
  <1> HIDE DEF address
  <1> QED BY <1>3, <1>4, <1>5, SucceedKeeps

\* GetNetworkNat64Prefix copies the octets before the well-known address.
LEMMA CopyKeeps == ASSUME IInv, CopyPrefix PROVE IInv'
  <1> DEFINE h == Head(res)
             address == [o \in 0..15 |-> IF o < 12 THEN h[o] ELSE v6[o]]
  <1>1. h \in Ipv6 /\ 1 \in 1..Len(res) /\ h = res[1]
    BY HeadElement DEF CopyPrefix, IInv, ListInv, TypeOK
  <1>2. address \in Ipv6
    BY <1>1 DEF IInv, TypeOK, Ipv6
  <1>3. ASSUME steady
        PROVE  /\ nat64 # Plain
               /\ \A o \in 0..nat64.length \div 8 - 1 : address[o] = nat64.prefix[o]
    <2>1. h \in Answers /\ op = "GetPrefix"
      BY <1>1, <1>3 DEF CopyPrefix, IInv, ListInv
    <2>2. PICK w \in WellKnown : nat64 # Plain /\ h = ipv4toipv6(nat64.prefix, nat64.length, w)
      BY <2>1 DEF Answers
    <2>3. nat64.length \in PrefixLengths
      BY <2>2, NetsAssumption DEF IInv, TypeOK
    <2>4. ASSUME NEW o \in 0..nat64.length \div 8 - 1
          PROVE  address[o] = nat64.prefix[o]
      <3>1. o \in 0..15 /\ o < nat64.length \div 8 /\ o < 12
        BY <2>3 DEF PrefixLengths
      <3>2. h[o] = nat64.prefix[o]
        BY <2>2, <2>3, <3>1, PrefixKept
      <3> QED BY <3>1, <3>2
    <2> QED BY <2>2, <2>4
  <1>4. /\ Succeed(address) /\ op = "GetPrefix"
        /\ UNCHANGED <<familyVars, nat64, native, call, op, form, v4, old, res>>
    BY DEF CopyPrefix
  <1> HIDE DEF address
  <1> QED BY <1>2, <1>3, <1>4, SucceedKeeps

\* A call that fails changes nothing but ret and pc.
LEMMA FailKeeps ==
  ASSUME IInv, pc # "idle", Return("false"), res' = res \/ res' = <<>>,
         UNCHANGED <<familyVars, nat64, native, call, op, form, v4, v6, text, old>>
  PROVE  IInv'
  <1> USE DEF Return
  <1>1. res' \in Seq(Ipv6)
    <2>1. res \in Seq(Ipv6) /\ <<>> \in Seq(Ipv6)
      BY DEF IInv, TypeOK
    <2> QED BY <2>1
  <1>2. TypeOK'
    BY <1>1 DEF IInv, TypeOK, FamilyTypeOK, familyVars
  <1>3. (WritesLast /\ ListInv /\ PrefixIsOfNetwork /\ ConvertedIsTranslated)'
    BY DEF IInv, WritesLast, ListInv, PrefixIsOfNetwork, ConvertedIsTranslated
  <1> QED BY <1>2, <1>3 DEF IInv

\* Every step preserves the invariant.
LEMMA InvStep == IInv /\ [Next]_vars => IInv'
  <1> SUFFICES ASSUME IInv, [Next]_vars PROVE IInv'
    OBVIOUS
  <1>1. CASE \E o \in {"Convert", "GetPrefix"}, f \in {"string", "in6"}, a \in Hosts : EnterCall(o, f, a)
    BY <1>1, EnterKeeps
  <1>2. CASE EnterIllegal
    <2> USE <1>2 DEF EnterIllegal
    <2>1. TypeOK'
      BY MaxCallsAssumption DEF IInv, TypeOK, FamilyTypeOK, familyVars
    <2>2. (WritesLast /\ ListInv /\ PrefixIsOfNetwork /\ ConvertedIsTranslated)'
      BY DEF WritesLast, ListInv, PrefixIsOfNetwork, ConvertedIsTranslated
    <2> QED BY <2>1, <2>2 DEF IInv
  <1>3. CASE Check
    <2>1. FamilyTypeOK' /\ steady' = steady
      BY <1>3, FamilyStep DEF Check, IInv, TypeOK
    <2>2. TypeOK'
      BY <1>3, <2>1 DEF Check, utilVars, IInv, TypeOK
    <2>3. (WritesLast /\ ListInv /\ PrefixIsOfNetwork /\ ConvertedIsTranslated)'
      BY <1>3 DEF Check, utilVars, IInv, WritesLast, ListInv, PrefixIsOfNetwork, ConvertedIsTranslated
    <2> QED BY <2>2, <2>3 DEF IInv
  <1>4. CASE Decide
    <2>1. CASE net_family \in Wanted
      <3> USE <1>4, <2>1 DEF Decide
      <3>1. TypeOK'
        BY DEF IInv, TypeOK, FamilyTypeOK, familyVars
      <3>2. (WritesLast /\ ListInv /\ PrefixIsOfNetwork /\ ConvertedIsTranslated)'
        BY DEF IInv, WritesLast, ListInv, PrefixIsOfNetwork, ConvertedIsTranslated
      <3> QED BY <3>1, <3>2 DEF IInv
    <2>2. CASE net_family \notin Wanted
      BY <1>4, <2>2, FailKeeps DEF Decide
    <2> QED BY <2>1, <2>2
  <1>5. CASE getaddrinfo
    <2>1. CASE res' = <<>> /\ Return("false")
      BY <1>5, <2>1, FailKeeps DEF getaddrinfo
    <2>2. CASE /\ \E k \in 1..MaxAnswers : res' \in [1..k -> Answers]
               /\ pc' = "loop" /\ UNCHANGED ret
      <3>1. PICK k \in 1..MaxAnswers : res' \in [1..k -> Answers]
        BY <2>2
      <3>2. k \in Nat \ {0}
        BY MaxAnswersAssumption
      <3>3. res' \in Seq(Ipv6) /\ Len(res') = k
        BY <3>1, <3>2, AnswersAreIpv6 DEF IInv
      <3>4. res' # <<>> /\ \A i \in 1..Len(res') : res'[i] \in Answers
        BY <3>1, <3>2, <3>3
      <3>5. /\ pc' = "loop"
            /\ UNCHANGED <<familyVars, nat64, native, call, op, form, v4, v6, text, old, ret>>
            /\ pc = "ask"
        BY <1>5, <2>2 DEF getaddrinfo
      <3>6. TypeOK'
        BY <3>3, <3>5 DEF IInv, TypeOK, FamilyTypeOK, familyVars
      <3>7. ListInv'
        BY <3>4, <3>5 DEF ListInv, Answers
      <3>8. (WritesLast /\ PrefixIsOfNetwork /\ ConvertedIsTranslated)'
        BY <3>5 DEF IInv, WritesLast, PrefixIsOfNetwork, ConvertedIsTranslated
      <3> QED BY <3>6, <3>7, <3>8 DEF IInv
    <2> QED BY <1>5, <2>1, <2>2 DEF getaddrinfo
  <1>6. CASE Skip
    <2>1. /\ pc = "loop" /\ op = "Convert" /\ res # <<>> /\ res' = Tail(res)
          /\ UNCHANGED <<familyVars, nat64, native, pc, call, op, form, v4, v6, text, old, ret>>
      BY <1>6 DEF Skip
    <2>2. res \in Seq(Ipv6) /\ \A i \in 1..Len(res) : res[i] \in Ipv6
      BY DEF IInv, TypeOK
    <2>3. res' \in Seq(Ipv6)
      BY <2>1, <2>2, TailElements
    <2>4. steady => \A i \in 1..Len(res') : res'[i] \in Answers
      BY <2>1, <2>2, TailElements DEF IInv, ListInv
    <2>5. TypeOK'
      BY <2>1, <2>3 DEF IInv, TypeOK, FamilyTypeOK, familyVars
    <2>6. ListInv'
      BY <2>1, <2>4 DEF ListInv, Answers, familyVars
    <2>7. (WritesLast /\ PrefixIsOfNetwork /\ ConvertedIsTranslated)'
      BY <2>1 DEF IInv, WritesLast, PrefixIsOfNetwork, ConvertedIsTranslated
    <2> QED BY <2>5, <2>6, <2>7 DEF IInv
  <1>7. CASE Convert
    BY <1>7, ConvertKeeps
  <1>8. CASE CopyPrefix
    BY <1>8, CopyKeeps
  <1>9. CASE EndOfList
    BY <1>9, FailKeeps DEF EndOfList
  <1>10. CASE Move
    <2> USE <1>10 DEF Move
    <2>1. TypeOK'
      <3>1. PICK n \in SUBSET Families : net' = n
        BY DEF Roam
      <3>2. FamilyTypeOK'
        BY <3>1 DEF IInv, TypeOK, FamilyTypeOK, Roam
      <3> QED BY <3>2 DEF IInv, TypeOK
    <2>2. (WritesLast /\ ListInv /\ PrefixIsOfNetwork /\ ConvertedIsTranslated)'
      BY DEF IInv, WritesLast, ListInv, PrefixIsOfNetwork, ConvertedIsTranslated, Roam
    <2> QED BY <2>1, <2>2 DEF IInv
  <1>11. CASE UNCHANGED vars
    <2> USE <1>11 DEF vars, utilVars, familyVars
    <2>1. TypeOK'
      <3>1. FamilyTypeOK'
        BY DEF IInv, TypeOK, FamilyTypeOK
      <3>2. v6' \in Ipv6 /\ text' \in Ipv6 \cup {Never} /\ old' \in Ipv6 \X (Ipv6 \cup {Never})
        BY DEF IInv, TypeOK
      <3> QED BY <3>1, <3>2 DEF IInv, TypeOK
    <2>2. (WritesLast /\ ListInv)'
      BY DEF IInv, WritesLast, ListInv, Answers
    <2>3. (PrefixIsOfNetwork /\ ConvertedIsTranslated)'
      BY DEF IInv, PrefixIsOfNetwork, ConvertedIsTranslated, Result
    <2> QED BY <2>1, <2>2, <2>3 DEF IInv
  <1> QED BY <1>1, <1>2, <1>3, <1>4, <1>5, <1>6, <1>7, <1>8, <1>9, <1>10, <1>11 DEF Next
-----------------------------------------------------------------------------
\* The state of the utility keeps its types, among them the addresses it writes.
THEOREM TypeCorrect == Spec => []TypeOK
  <1>1. IInv => TypeOK
    BY DEF IInv
  <1> QED BY InvInit, InvStep, <1>1, PTL DEF Spec

\* A call of the utility that returns false has left the caller's in6_addr alone, and
\* the string for a converted address (nat64_prefix_util.h:47, 54, 60).
THEOREM FailureChangesNothing == Spec => []FalseChangesNothing
  <1>1. IInv => FalseChangesNothing
    BY DEF IInv, WritesLast, FalseChangesNothing
  <1> QED BY InvInit, InvStep, <1>1, PTL DEF Spec

\* The prefix GetNetworkNat64Prefix writes is the one of the network (.h:46).
THEOREM PrefixIsRight == Spec => []PrefixIsOfNetwork
  <1>1. IInv => PrefixIsOfNetwork
    BY DEF IInv
  <1> QED BY InvInit, InvStep, <1>1, PTL DEF Spec

\* What ConvertV4toNat64V6 writes is what the network's translator makes of the IPv4
\* address (.h:59), for a prefix of any of the lengths of RFC 6052.
THEOREM ConvertsAsTranslator == Spec => []ConvertedIsTranslated
  <1>1. IInv => ConvertedIsTranslated
    BY DEF IInv
  <1> QED BY InvInit, InvStep, <1>1, PTL DEF Spec
=============================================================================
