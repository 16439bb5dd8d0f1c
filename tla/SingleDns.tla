------------------------------ MODULE SingleDns ------------------------------
(* getaddrinfo_v6 of dns64_query_c/dnsquery.c: a lookup by one thread at one *)
(* DNS64 server. A name is resolved; an IPv4 literal is put into the NAT64   *)
(* prefix found in the addresses of ipv4only.arpa. The program makes its     *)
(* calls one after the other with one socket_ipinfo_t, while the machine may *)
(* move to another network, whose DNS64 server has another prefix.           *)
EXTENDS Nat64Address, Sequences

CONSTANTS
  MaxCalls,  \* how many calls are made (a bound)
  Tries,     \* how often a query is sent: 3
  MaxIp,     \* SOCKET_MAX_IP_COUNT, the slots of v6_addr and the records read
  Nets,      \* the networks: a prefix and its length
  Hosts,     \* the IPv4 addresses looked for
  Foreign,   \* addresses a resolver without NAT64 gives for every name
  Opened     \* what socket() may do: {TRUE, FALSE}, or {TRUE}

ASSUME MaxCallsAssumption == MaxCalls \in Nat
ASSUME TriesAssumption == Tries \in Nat \ {0}
ASSUME MaxIpAssumption == MaxIp \in Nat \ {0}
ASSUME NetsAssumption == Nets \subseteq [prefix : Ipv6, length : PrefixLengths]
ASSUME HostsAssumption == Hosts \subseteq Ipv4
ASSUME ForeignAssumption == Foreign \subseteq Ipv6
ASSUME OpenedAssumption == Opened \subseteq BOOLEAN

VARIABLES
  net,            \* where the machine is
  pc, call,       \* where the program is, in which call
  kind, v4,       \* the host: an IPv4 literal, or a name whose A record v4 is
  try, asked,     \* failed tries of the send loop, the networks it sent to
  answer,         \* recv_buf: records before the AAAA records, their addresses
  v6_addr, size,  \* the socket_ipinfo_t
  ret             \* what the last call returned

list == <<v6_addr, size>>
host == <<kind, v4>>
vars == <<net, pc, call, host, try, asked, answer, list, ret>>

Nothing == [aliases |-> 0, addresses |-> <<>>]

TypeOK ==
  /\ net \in Nets
  /\ pc \in {"idle", "open", "send", "wait", "read", "embed"}
  /\ call \in 0..MaxCalls
  /\ kind \in {"name", "ipv4"} /\ v4 \in Hosts
  /\ try \in 0..Tries-1 /\ asked \subseteq Nets
  /\ answer \in [aliases : 0..1, addresses : Seq(Ipv6)]
  /\ v6_addr \in [0..MaxIp-1 -> Ipv6] /\ size \in 0..MaxIp
  /\ ret \in {"none", "0", "-1"}

\* The socket_ipinfo_t comes from malloc: what is in it is left over.
Init ==
  /\ net \in Nets
  /\ pc = "idle" /\ call = 0
  /\ kind = "name" /\ v4 \in Hosts
  /\ try = 0 /\ asked = {} /\ answer = Nothing
  /\ v6_addr = [i \in 0..MaxIp-1 |-> [o \in 0..15 |-> 0]]
  /\ size \in 0..MaxIp
  /\ ret = "none"

Synthetic(n, a) == ipv4toipv6(n.prefix, n.length, a)

\* The answers of n's resolver. A DNS64 server puts the A records into its
\* prefix, those of ipv4only.arpa are the two well-known addresses.
Answers(n) ==
  LET hosts == IF kind = "ipv4" THEN WellKnown ELSE {v4}
      addresses == UNION {[1..k -> {Synthetic(n, a) : a \in hosts}] : k \in 1..MaxIp}
  IN {Nothing}
     \cup [aliases : 0..1, addresses : addresses]
     \cup [aliases : {0}, addresses : [1..1 -> Foreign]]

Return(r) ==
  /\ pc' = "idle"
  /\ ret' = r
-----------------------------------------------------------------------------
EnterCall(k, a) ==
  /\ pc = "idle" /\ call < MaxCalls
  /\ call' = call + 1
  /\ kind' = k /\ v4' = a
  /\ ret' = "none"
  /\ pc' = "open"
  /\ UNCHANGED <<net, try, asked, answer, list>>

\* socket(): if(sockfd < 0) return -1, before _ipinfo is touched.
OpenSocket(ok) ==
  /\ pc = "open"
  /\ try' = 0 /\ asked' = {} /\ answer' = Nothing
  /\ IF ok
     THEN pc' = "send" /\ UNCHANGED ret
     ELSE Return("-1")
  /\ UNCHANGED <<net, call, host, list>>

Send ==
  /\ pc = "send"
  /\ asked' = asked \cup {net}
  /\ pc' = "wait"
  /\ UNCHANGED <<net, call, host, try, answer, list, ret>>

\* sendto fails: the loop ends with an empty recv_buf.
SendFails ==
  /\ pc = "send"
  /\ pc' = "read"
  /\ UNCHANGED <<net, call, host, try, asked, answer, list, ret>>

\* RecvWithinTime has a packet, maybe the late answer to an earlier try.
Receive ==
  /\ pc = "wait"
  /\ \E n \in asked : answer' \in Answers(n)
  /\ pc' = "read"
  /\ UNCHANGED <<net, call, host, try, asked, list, ret>>

\* Variant: the loop makes one try too many.
TimeoutOneMore ==
  /\ pc = "wait"
  /\ IF try < Tries
     THEN try' = try + 1 /\ pc' = "send"
     ELSE pc' = "read" /\ UNCHANGED try
  /\ UNCHANGED <<net, call, host, asked, answer, list, ret>>

\* Variant: a query without an answer is sent again until there is one.
TimeoutUncounted ==
  /\ pc = "wait"
  /\ pc' = "send"
  /\ UNCHANGED <<net, call, host, try, asked, answer, list, ret>>

\* RecvWithinTime fails or times out.
Timeout ==
  /\ pc = "wait"
  /\ IF try + 1 < Tries
     THEN try' = try + 1 /\ pc' = "send"
     ELSE pc' = "read" /\ UNCHANGED try
  /\ UNCHANGED <<net, call, host, asked, answer, list, ret>>

\* How many AAAA records there are among the first MaxIp of the answer.
Stored ==
  LET n == answer.aliases + Len(answer.addresses) IN
  (IF n < MaxIp THEN n ELSE MaxIp) - answer.aliases

\* Variant: an answer without addresses leaves the list as it is.
ReadAnswerKeepsSize ==
  /\ pc = "read"
  /\ v6_addr' = [i \in 0..MaxIp-1 |->
                   IF i < Stored THEN answer.addresses[i + 1] ELSE v6_addr[i]]
  /\ size' = IF Stored = 0 THEN size ELSE Stored
  /\ IF size' = 0
     THEN Return("-1")
     ELSE IF kind = "ipv4"
          THEN pc' = "embed" /\ UNCHANGED ret
          ELSE Return("0")
  /\ UNCHANGED <<net, call, host, try, asked, answer>>

\* ReadRecvAnswer, the addresses of its AAAA records to the list, and the
\* result: 0 when there are any. A literal's lookup goes on with the first.
ReadAnswer ==
  /\ pc = "read"
  /\ v6_addr' = [i \in 0..MaxIp-1 |->
                   IF i < Stored THEN answer.addresses[i + 1] ELSE v6_addr[i]]
  /\ size' = Stored
  /\ IF Stored = 0
     THEN Return("-1")
     ELSE IF kind = "ipv4"
          THEN pc' = "embed" /\ UNCHANGED ret
          ELSE Return("0")
  /\ UNCHANGED <<net, call, host, try, asked, answer>>

\* _ipinfo->size=1, and the literal in place of the well-known address.
EmbedIpv4 ==
  /\ pc = "embed"
  /\ size' = 1
  /\ IF IsNat64AddrValid(v6_addr[0])
     THEN /\ v6_addr' = [v6_addr EXCEPT ![0] = ReplaceNat64WithV4IP(@, v4)]
          /\ Return("0")
     ELSE /\ Return("-1")
          /\ UNCHANGED v6_addr
  /\ UNCHANGED <<net, call, host, try, asked, answer>>

Lookup ==
  \/ \E ok \in Opened : OpenSocket(ok)
  \/ Send \/ SendFails \/ Receive \/ Timeout \/ ReadAnswer \/ EmbedIpv4

\* The machine moves to another network.
Roam ==
  /\ \E n \in Nets : n # net /\ net' = n
  /\ UNCHANGED <<pc, call, host, try, asked, answer, list, ret>>

Next ==
  \/ \E k \in {"name", "ipv4"}, a \in Hosts : EnterCall(k, a)
  \/ Lookup
  \/ Roam

Spec == Init /\ [][Next]_vars

\* The program runs on: select has a timeout, so every wait ends.
FairSpec == Spec /\ WF_vars(Lookup)
-----------------------------------------------------------------------------
(* What a lookup must do. *)

Listed == {i \in 0..MaxIp-1 : i < size}

\* The addresses in the list are the host's, all in the prefix of one network
\* the query went to.
OfThisHost ==
  \E n \in asked : \A i \in Listed : v6_addr[i] = Synthetic(n, v4)

\* A lookup that says 0 (266-273, 281) lists addresses of its own host only: a
\* name's as they were answered, a literal's as the translator of ipv6测试
\* would make it. Neither the last call's list, nor the well-known addresses,
\* nor two networks' prefixes are in it.
SuccessIsOfThisHost == pc = "idle" /\ ret = "0" => size > 0 /\ OfThisHost

\* test_dns.c prints the list whatever the call returned (18-22). After a call that
\* has sent a query nothing is in it but this host's addresses; one that could not
\* open a socket leaves the list of the call before it (292).
ListIsOfThisHost == pc = "idle" /\ asked # {} => size = 0 \/ OfThisHost

\* However many tries are lost, a call returns.
CallReturns == \A c \in 1..MaxCalls : (call = c) ~> (call = c /\ ret # "none")
=============================================================================
