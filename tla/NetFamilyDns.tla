----------------------------- MODULE NetFamilyDns -----------------------------
(* dnsquery/dnsquery.cc: socket_gethostbyname looks which families the       *)
(* network has and asks for the IPv6 addresses of a host when there is IPv6  *)
(* only, for the IPv4 addresses otherwise. The two lookups can be called     *)
(* directly, too, as test_dns.cpp does, all with one socket_ipinfo_t.        *)
EXTENDS NetFamily, Sequences

CONSTANTS
  MaxCalls,  \* how many calls are made (a bound)
  Tries,     \* how often a query is sent: 3
  MaxIp,     \* SOCKET_MAX_IP_COUNT
  Hosts,
  A, AAAA,   \* the addresses of each host in its records
  NoAddress  \* what is in a slot that was never written

ASSUME MaxCallsAssumption == MaxCalls \in Nat
ASSUME TriesAssumption == Tries \in Nat \ {0}
ASSUME MaxIpAssumption == MaxIp \in Nat \ {0}
Ipv4 == [1..4 -> 0..255]
ASSUME AddressesAssumption == A \in [Hosts -> SUBSET Ipv4]

VARIABLES
  pc, call,
  how, host,         \* the function called, _host
  ipv4,              \* the global that tells the families apart
  try, answer,       \* failed tries; recv_buf: its addresses, after a CNAME or not
  v4_addr, v6_addr, size,  \* the socket_ipinfo_t
  refused,           \* a socket() of the call has failed with descriptors left (history)
  ret                \* what the call has returned, "none" for socket_gethostbyname

list == <<v4_addr, v6_addr, size>>
vars == <<familyVars, pc, call, how, host, ipv4, try, answer, list, refused, ret>>

Family == IF ipv4 THEN "IPv4" ELSE "IPv6"
Addresses(h) == IF ipv4 THEN A[h] ELSE AAAA[h]
Nothing == [aliases |-> 0, addresses |-> <<>>]
AnyAddress == UNION {A[h] \cup AAAA[h] : h \in Hosts}
Slots == 0..MaxIp-1

TypeOK ==
  /\ FamilyTypeOK
  /\ pc \in {"idle", "check", "open", "send", "wait", "store", "exited"}
  /\ call \in 0..MaxCalls
  /\ how \in {"any", "IPv4", "IPv6"} /\ host \in Hosts
  /\ ipv4 \in BOOLEAN
  /\ try \in 0..Tries-1
  /\ answer \in [aliases : 0..1, addresses : Seq(AnyAddress)]
  /\ v4_addr \in [Slots -> Ipv4 \cup {NoAddress}]
  /\ v6_addr \in [Slots -> AnyAddress \cup {NoAddress}]
  /\ size \in 0..MaxIp
  /\ refused \in BOOLEAN
  /\ ret \in {"none", "0", "-1"}

\* The caller's socket_ipinfo_t is not initialized.
Init ==
  /\ FamilyInit
  /\ pc = "idle" /\ call = 0
  /\ how = "any" /\ host \in Hosts
  /\ ipv4 = TRUE
  /\ try = 0 /\ answer = Nothing
  /\ v4_addr = [i \in Slots |-> NoAddress]
  /\ v6_addr = [i \in Slots |-> NoAddress]
  /\ size \in 0..MaxIp
  /\ refused = FALSE /\ ret = "none"
-----------------------------------------------------------------------------
\* Variant: the network is looked at once, in the first call.
EnterCallOnce(h) ==
  /\ pc = "idle" /\ call < MaxCalls
  /\ how' = "any" /\ host' = h
  /\ call' = call + 1
  /\ pc' = "check"
  /\ ret' = "none" /\ steady' = TRUE /\ refused' = FALSE
  /\ IF call = 0 THEN BeginCheck ELSE UNCHANGED <<test, net_family>>
  /\ UNCHANGED <<net, fds, have_ipv4, have_ipv6, ipv4, try, answer, list>>

\* socket_gethostbyname
EnterCall(h) ==
  /\ pc = "idle" /\ call < MaxCalls
  /\ how' = "any" /\ host' = h
  /\ call' = call + 1
  /\ pc' = "check"
  /\ ret' = "none" /\ steady' = TRUE /\ refused' = FALSE
  /\ BeginCheck
  /\ UNCHANGED <<net, fds, have_ipv4, have_ipv6, ipv4, try, answer, list>>

\* socketv4_gethostbyname or socketv6_gethostbyname is called
EnterLookup(f, h) ==
  /\ pc = "idle" /\ call < MaxCalls
  /\ how' = f /\ host' = h
  /\ call' = call + 1
  /\ ipv4' = (f = "IPv4")
  /\ pc' = "open"
  /\ ret' = "none" /\ steady' = TRUE /\ refused' = FALSE
  /\ UNCHANGED <<net, fds, test, have_ipv4, have_ipv6, net_family, try, answer, list>>

\* A call of socket() that fails though there is a descriptor left.
NoteRefusal ==
  refused' = (refused \/ (test # "set" /\ fds < MaxFds /\ fds' = fds))

Check ==
  /\ pc = "check" /\ checknetfamily /\ NoteRefusal
  /\ UNCHANGED <<pc, call, how, host, ipv4, try, answer, list, ret>>

\* if(net_family==2), else
Choose ==
  /\ pc = "check" /\ test = "off"
  /\ ipv4' = (net_family # "IPv6")
  /\ pc' = "open"
  /\ UNCHANGED <<familyVars, call, how, host, try, answer, list, refused, ret>>

\* Any failure of socket() ends the process.
OpenSocket ==
  /\ pc = "open"
  /\ try' = 0 /\ answer' = Nothing
  /\ \/ TestSocket /\ pc' = "send"
     \/ SocketFails /\ pc' = "exited"   \* exit(-1)
  /\ NoteRefusal
  /\ UNCHANGED <<net, steady, test, have_ipv4, have_ipv6, net_family, call, how, host, ipv4, list, ret>>

Send ==
  /\ pc = "send" /\ Family \in net
  /\ pc' = "wait"
  /\ UNCHANGED <<familyVars, call, how, host, ipv4, try, answer, list, refused, ret>>

\* sendto fails, at least where there is no route: the loop ends with an empty recv_buf.
SendFails ==
  /\ pc = "send"
  /\ pc' = "store"
  /\ UNCHANGED <<familyVars, call, how, host, ipv4, try, answer, list, refused, ret>>

\* The A or the AAAA records of the host, in any number and order.
Receive ==
  /\ pc = "wait"
  /\ \E k \in 0..MaxIp : \E addresses \in [1..k -> Addresses(host)], aliases \in 0..1 :
       answer' = [aliases |-> aliases, addresses |-> addresses]
  /\ pc' = "store"
  /\ UNCHANGED <<familyVars, call, how, host, ipv4, try, list, refused, ret>>

\* Variant: i<=3, one try more.
TimeoutOneMore ==
  /\ pc = "wait"
  /\ IF try < Tries
     THEN try' = try + 1 /\ pc' = "send"
     ELSE pc' = "store" /\ UNCHANGED try
  /\ UNCHANGED <<familyVars, call, how, host, ipv4, answer, list, refused, ret>>

\* Variant: a query without an answer is sent again until there is one.
TimeoutUncounted ==
  /\ pc = "wait"
  /\ pc' = "send"
  /\ UNCHANGED <<familyVars, call, how, host, ipv4, try, answer, list, refused, ret>>

Timeout ==
  /\ pc = "wait"
  /\ IF try + 1 < Tries
     THEN try' = try + 1 /\ pc' = "send"
     ELSE pc' = "store" /\ UNCHANGED try
  /\ UNCHANGED <<familyVars, call, how, host, ipv4, answer, list, refused, ret>>

\* How many addresses are among the first MaxIp records.
Stored ==
  LET n == answer.aliases + Len(answer.addresses) IN
  (IF n < MaxIp THEN n ELSE MaxIp) - answer.aliases

\* s_addr = *rdata: the first octet, in a variable of four.
FirstOctet(a) == [o \in 1..4 |-> IF o = 1 THEN a[1] ELSE 0]

\* Variant: both lookups write to the first array.
StoreInV4 ==
  /\ v4_addr' = [i \in Slots |-> IF i < Stored THEN FirstOctet(answer.addresses[i + 1])
                                 ELSE v4_addr[i]]
  /\ UNCHANGED v6_addr

Store ==
  IF ipv4
  THEN /\ v4_addr' = [i \in Slots |-> IF i < Stored THEN FirstOctet(answer.addresses[i + 1])
                                      ELSE v4_addr[i]]
       /\ UNCHANGED v6_addr
  ELSE /\ v6_addr' = [i \in Slots |-> IF i < Stored THEN answer.addresses[i + 1]
                                      ELSE v6_addr[i]]
       /\ UNCHANGED v4_addr

\* Variant: a lookup without an address returns before its socket is closed.
ReturnUnclosed ==
  /\ pc = "store"
  /\ Store
  /\ size' = Stored
  /\ ret' = CASE how = "any" -> "none" [] Stored = 0 -> "-1" [] OTHER -> "0"
  /\ fds' = IF Stored = 0 THEN fds ELSE fds - 1
  /\ pc' = "idle"
  /\ UNCHANGED <<net, steady, test, have_ipv4, have_ipv6, net_family, call, how, host, ipv4, try, answer, refused>>

\* The list is made, the socket closed; socket_gethostbyname returns nothing.
Return ==
  /\ pc = "store"
  /\ Store
  /\ size' = Stored
  /\ ret' = CASE how = "any" -> "none" [] how # "any" /\ Stored = 0 -> "-1" [] OTHER -> "0"
  /\ fds' = fds - 1
  /\ pc' = "idle"
  /\ UNCHANGED <<net, steady, test, have_ipv4, have_ipv6, net_family, call, how, host, ipv4, try, answer, refused>>

Lookup ==
  \/ Check \/ Choose \/ OpenSocket
  \/ Send \/ SendFails \/ Receive \/ Timeout \/ Return

Next ==
  \/ \E h \in Hosts : EnterCall(h) \/ \E f \in Families : EnterLookup(f, h)
  \/ Lookup
  \/ Roam /\ UNCHANGED <<pc, call, how, host, ipv4, try, answer, list, refused, ret>>

Spec == Init /\ [][Next]_vars

\* The program runs on: select has a timeout, so every wait ends.
FairSpec == Spec /\ WF_vars(Lookup)
-----------------------------------------------------------------------------
\* After a call that has come back the list holds addresses of its own host only, in
\* the array of the family that the global ipv4 names: the header's "IP addresses of the
\* host name" (dnsquery.h:42). An IPv4 address is not: of its four octets the loop at
\* :368-372 stores the first, four times.
ListIsOfThisHost ==
  pc = "idle" /\ call > 0 =>
    \A i \in Slots : i < size =>
      IF ipv4 THEN v4_addr[i] \in A[host] ELSE v6_addr[i] \in AAAA[host]

\* What of it holds: a list of IPv6 addresses is of its own host, whatever family and
\* host the lists before it were of, in the same structure and with the same globals,
\* and nothing of them is counted when there was no answer (:251-266).
Ipv6ListIsOfThisHost ==
  pc = "idle" /\ call > 0 /\ ~ ipv4 =>
    \A i \in Slots : i < size => v6_addr[i] \in AAAA[host]

\* The tests of checknetfamily lose two descriptors per call (:126-138), a lookup loses
\* none, however it ends: where the system refuses no socket, a process is ended by
\* exit(-1) (:202, 307) only after it has made half as many calls as it may open
\* descriptors.
ExitMeansLeak ==
  /\ pc = "exited" /\ ~ refused => 2 * call >= MaxFds
  /\ pc = "idle" => fds <= 2 * call

\* A test without a descriptor says that there is no such family. The lookup is not
\* sent on that: unless the system refuses a test its socket for another reason, it is
\* sent in a family the network has, if it has one and the machine has not moved since
\* the call began (:129, 394-401).
ReachableIsAsked ==
  pc \in {"send", "wait"} /\ how = "any" /\ steady /\ ~ refused /\ net # {} => Family \in net

\* However many queries are lost and networks changed, a call ends.
CallEnds == pc # "idle" ~> pc \in {"idle", "exited"}
=============================================================================
