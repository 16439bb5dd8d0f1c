# Formal models of personal-journal

The repository is a collection of small network programs in C and C++ with notes about
them. This directory models the programs in TLA+, checks the models with TLC, and
proves theorems about them with TLAPS. Every definition is translated from the source;
`PROJECT.json` ("map") gives the lines of each.

## 1. The system

| component | source | state | operations | what is hard |
|---|---|---|---|---|
| multi-threaded resolver | `dns64_query_c/dns_v6/dnsquery.c` | `_ipinfo` of the caller, `struct multi_dns`, the `host` buffer on the caller's stack; file scope: `dnsquery_mutex`, `dnsquery_mutex1`, `dnsquery_failcount`, `DNS64SERVERNUM` | `getaddrinfo_v6`, `th_gethostbyname`, three threads `socket_gethostbyname`, `getaddrinfo_api` | data races, freed memory, a mutex that is not unlocked, counters that outlive a call |
| single-threaded resolver | `dns64_query_c/dnsquery.c` | `_ipinfo`, the packet | `getaddrinfo_v6`, `socket_gethostbyname`, `IsNat64AddrValid`, `ReplaceNat64WithV4IP` | retries and late answers, leftovers of the last call, guessing the prefix length from zero octets |
| RFC 6052 translator | `ipv6测试/rfc6052/` | `ipv6_prefix`, the line buffer | `load_config`, `ipv4toipv6` | lines longer than the buffer, six address layouts |
| P2P transfer server | `tcp打洞测试/p2p_transfer_tcp/p2p_transfer_server/` | the device list, a bufferevent per connection | `listener_cb`, `conn_read_cb` (PING, QUERY), `conn_event_cb` | devices that register twice or leave, reuse of freed memory, two messages in one read |
| P2P transfer peer | `.../p2p_transfer_peer/` | its connection, timers, threads that punch | `connect_server`, `ping_cb`, `user_cb`, `conn_read_cb`, `connect_peer` | a blocking `recv` on the socket the event loop reads, retries on both sides |
| DNS message codec | `dnsquery/dnsquery.cc`; the two `dnsquery.c` hold copies | the packet, the records read | `ChangetoDnsNameFormat`, `PrepareDnsQueryPacket`, `ReadName`, `ReadRecvAnswer` | offsets, compression pointers, buffers that grow |
| IPv4/IPv6 resolver | `dnsquery/dnsquery.cc` | `net_family`, open descriptors, `socket_ipinfo_t` | `checknetfamily`, `socket_gethostbyname`, `socketv4_gethostbyname`, `socketv6_gethostbyname` | a choice by tests made earlier, sockets that are not closed |
| mars NAT64 utility | `微信mars阅读日志/testnat64/` | the caller's address or string | `ConvertV4toNat64V6`, `GetNetworkNat64Prefix`, in two forms each | what a failed call leaves behind, an inverted check |
| logging, notes, images | `log.c`, `*.md`, `seetaface`, ... | – | – | – |

How they interact: a program calls `getaddrinfo_v6`, whose threads share the caller's
structures by pointers and meet at the mutexes; they talk to DNS64 servers by UDP, where
a query or its answer may be lost or late. The resolvers and the translator use one
address format, RFC 6052: what the translator (or a DNS64 server) makes is what the
resolver has to recognize and rewrite. `dnsquery.cc` and the mars utility look with the same
`checknetfamily` which families the network has before they ask. P2P peers talk to the server over TCP; the
server's callbacks share the device list and pointers to bufferevents. Two peers that have
been told each other's endpoint connect to each other from their listeners' ports.

What makes each correct:

- multi-threaded resolver: a call ends; it fails only if every thread has failed; its list
  holds this host's addresses, as one thread received them; threads end as well.
- single-threaded resolver: a success lists this host's addresses in the prefix of the
  network that answered; nothing of an earlier call remains.
- translator: the address is the one RFC 6052 defines for the last legal setting.
- P2P server: a query for a registered device is answered with its newest endpoint and
  that device is told the querier's; a message goes to no one else; the server survives.
- P2P peer: who says it has succeeded is connected to the other; once both have tried, both
  fail only if a SYN is lost; what is sent arrives; `connect_peer` ends.
- DNS message codec: the question is for the host; the records are read as they were sent,
  within what was allocated; reading ends.
- IPv4/IPv6 resolver: the list is of this host and of the family asked; a family the network
  has is asked; its own leftovers do not end the process too early.
- mars utility: a call that returns false changes nothing, and one that returns true writes this network's prefix, or the address in it.

`PROJECT.json` ("hazards") lists what can go wrong, with the line where it does and
the properties that look for it.

## 2. Modules

| module | models |
|---|---|
| `ResolverPromise` | abstract, `Safety` and, with fairness, `Spec`: what `th_gethostbyname` promises its caller, without locks and counters |
| `MultiDns` | the multi-threaded resolver; refines `ResolverPromise` |
| `Nat64Address` | pure operators: `ipv4toipv6`, `GetSuffixZeroCount`, `IsNat64AddrValid`, `ReplaceNat64WithV4IP`, octet by octet |
| `SingleDns` | the single-threaded resolver and the networks it is in; uses `Nat64Address` |
| `Translator` | the translator program; uses `Nat64Address` |
| `DnsMessage` | the DNS message codec, octet by octet |
| `NetFamily` | `checknetfamily` with the descriptors it loses, and the machine that moves |
| `NetFamilyDns` | the IPv4/IPv6 resolver; extends `NetFamily` |
| `Nat64PrefixUtil` | the mars utility; extends `NetFamily`, uses `Nat64Address` |
| `P2pServer` | the server: device list, bufferevents, connections |
| `Rendezvous` | abstract, `Safety` and `Spec`: devices register, ask, and both sides of an introduction get to know of it |
| `P2pTransfer` | the peers composed with `P2pServer`; implements `Rendezvous` |
| `HolePunch` | `connect_peer` of both devices, their NATs and listeners, and what is sent then |
| `MC*` | constants for TLC |
| `MultiDnsProofs`, `Nat64Proofs`, `SingleDnsProofs`, `TranslatorProofs`, `DnsMessageProofs`, `NetFamilyDnsProofs`, `Nat64PrefixUtilProofs`, `P2pProofs` | theorems; `P2pProofs` is about `P2pServer`, `P2pTransfer` and `HolePunch`, whose variables are different ones |

An operator whose comment begins with "Variant:" is a bug that could have been made;
`PROJECT.json` ("mutants") says which property finds it.

### MultiDns

A step is what a thread does between two accesses to shared state. The caller:
`EnterCall` (363-385), `InitRequest` (malloc, the mutexes are initialized *again*),
`CreateThread` (312-329: `_dnsserver` is set in the one shared request, then
`pthread_create` succeeds or fails), `PollSize` and `PollCount` (the two tests of the
polling loop, 331-351, which read shared variables without a lock), `TrimList` and
`EmbedIpv4` (391-400), `SystemLookup` (251-287). A thread: `ReadRequest`, `FindEnd` and
`WriteDot` (the two halves of `strncat` on the shared host), `Send`, `SendFails`,
`Receive`, `Timeout` (the send loop), `Lock`, `CopyAddress` and `BumpSize` (489, 491),
`CheckSize` (497-503), `CountFailure` (296).

Data races are choices: `size++` writes one more than the old or the concurrently
written value, and an address copied byte by byte while `size` changes may be torn
between two slots. Use of freed memory (`UseAfterFree`) ends the process (`dead`) or goes on
with what the memory holds: the old bytes, or those of a later call to which `malloc` or the
stack has given it again, so that the thread reads that call's server (`Requests`) or the host
in its buffer (`Hosts`). From then on it works for that call: `data` says whose request a
thread has. An address is abstracted to who wrote it in which call.

### SingleDns, Nat64Address, Translator

`SingleDns` keeps real addresses of 16 octets. The machine may `Roam` to another network
between any two steps. `Receive` takes the answer of any network this query was sent in:
the socket is the same in all tries, and the response id is not looked at. The list
comes from `malloc`, so `size` starts anywhere. `Foreign` are addresses a resolver without NAT64
gives. In `Translator` a configuration file is a sequence of the pieces `fgets` returns;
each is a comment, a legal or illegal setting or something else, full (254 characters) or
not, and the end of its line or not.

### P2pServer, P2pTransfer

A session `<<peer, n>>` is a connection and stands for the endpoint the server sees
of it. `bevs` says which session the bufferevent in a memory slot serves; a freed slot
may be used by the next connection while entries still point to it. `conn_read_cb(b, k)`
is a read event that brings k messages, of which one is taken. The scan of
`process_query_device_info_cmd` is stated without its loop: entry i is looked at if `num`
(`Num`) is still below 2 there, and the last match wins. Writing to a freed bufferevent
has every outcome: the process ends, the write succeeds, or it fails and no answer is
sent. Peers ping once (the timer is not persistent), and ask once, blocking in `recv`.
`None` is both free memory and the endpoint of a zeroed `psrc_device_info`.

The mapping to `Rendezvous` (`Meeting`): a device is registered when it has an entry; it is
introduced in the one step in which the server queues the answer, the PUNCH_HOLE having
been queued in the same callback; it has learned when `recv` has returned, and the other
side has heard when the thread that punches is started.

### HolePunch

Begins where `P2pTransfer` ends: each device knows the other's endpoint, and calls
`connect_peer` in its own time (`Start`). `Try` is an iteration of the loop up to `bind`,
any of whose calls may fail; `Connect` sends a SYN, or fails because the listener's socket has
the connection already. What becomes of the SYN depends on the other side: it meets a SYN
(`SynMeetsSyn`, simultaneous open), it is answered by the listener (`SynMeetsListener`),
it is dropped by a NAT to which nothing has gone out yet (`SynDropped`), or it is lost
although nothing had to drop it (`SynLost`): in the network, at a NAT that has forgotten its
hole, or at one that does not lead from one device behind it to another, as in case e of the
test record (`tcp打洞测试V2.0.md:17`). `lost` remembers a loss after both have sent a SYN. A device
sleeps (`Wake`) or tries at once, by the kind of error. NATs, listeners and TCP
are external: they are modelled by what the code relies on.

### DnsMessage

A message is a function from offsets to octets, together with what it says: the offsets at
which a name or a tail of one is written, its text, how many octets it takes, and the
records. `WellFormed` relates the two, so that any answer of a server fits it: every mixture
of full and compressed names, pointers to names that hold pointers, records that are no
addresses, names that are longer than what is allocated first. `Query` is 215-246 and 552-570 (a dot is added, also to a name that ends in one; the
question's length is taken from the string). `ReadOctet`, `FollowPointer` and `EndName` are
`ReadName`'s first loop with its counter and its allocation, which a name of more octets than
the counter counts may outgrow (`Spill`), `ConvertLabel` its second (538-549), `KeepOwner`, `ReadAddress`, `ReadOther` and `KeepName` the loop over the records (426-483).

### NetFamily, NetFamilyDns, Nat64PrefixUtil

A test opens a socket (`TestSocket`), which is not closed, and says 0 when there is no route or no
socket. `socket()` fails for any reason (`SocketFails`): no descriptor left, not this
family, no buffers; `SetFamily` combines the two tests. `Roam` moves the machine to a network
with any families between any two steps; `steady` says it has not since the call began.
`NetFamilyDns` makes a sequence of calls of all three functions with one
`socket_ipinfo_t`: `Choose`, `OpenSocket` (or `exit(-1)` on any failure, at any call; `refused` remembers one that was
not for want of a descriptor), the loop `Send`, `SendFails`, `Receive`,
`Timeout`, and `Return`, which makes the list and closes the socket. Of an IPv4 address the
code keeps the first octet (`FirstOctet`).

`Nat64PrefixUtil` has both functions in both forms: the form with a string works on an
`in6_addr` of its own and writes the string only when it succeeds. `getaddrinfo` is external: a
network's answer for a name without IPv6 addresses consists of translations of its IPv4
addresses, as `ipv4toipv6` makes them. `Skip` passes over an address that holds a
well-known IPv4 address, `Convert` writes to the first that does not. The source uses
`dananet_family`, which it does not declare; it is taken for `net_family`.

## 3. What is checked

Runs that pass:

| run | bounds | shows |
|---|---|---|
| `multi` | 1 call, 3 threads, 2 tries, 2 slots, threads may fail to start, fair | `FailureMeansAllFailed`, `DeathOnlyAfterAnswer`, `SizeCountsWrittenSlots`, `ListFromOneThread`, `AsksOwnOrLater`, `StableAnswer`, `CallReturns`, `AnswerWins`, and `RefinesPromise` (refinement of `ResolverPromise` with its liveness) |
| `single` | 2 calls, 2 tries, 2 slots, 2 hosts, networks with a dense prefix of 64 bits and sparse ones of 56 and 96, sockets that may not open, fair | `SuccessIsOfThisHost`, `ListIsOfThisHost`, `CallReturns` |
| `translator` | all files of up to 3 pieces, 2 addresses | `EmbedsAsConfigured` |
| `p2p_once` | 3 peers started once, fair, one message per read | `RegisteredIsFound`, `QueryEnds`, and `RefinesRendezvous` (refinement of `Rendezvous` with its liveness) |
| `p2p_restart` | 2 peers started twice and killed at any time, 2 slots, one or two messages per read | `LiveEntryLeadsHome`, `NewestIsTold` |
| `dns_message` | answers of up to 3 records, names of 1 to 3 labels, host names with and without a final dot, both types; 2 records read, 7 octets allocated first and 1 more each time, so that names outgrow both; fair | `QueryAsksForHost`, `ReadsWhereRecordBegins`, `NameFits`, `AnswersAsSent`, `ReadEnds` |
| `hole_punch` | 10 as in the code, each device with or without a NAT, any SYN may be lost, fair | `ConnectionHasTwoEnds`, `BothFailOnlyByLoss`, `PunchEnds`, `AbcArrives` |
| `net_family` | 3 calls, 5 descriptors, 2 tries, 2 slots, 2 hosts of which one has IPv6, `socket()` may fail anywhere, fair | `Ipv6ListIsOfThisHost`, `ExitMeansLeak`, `ReachableIsAsked`, `CallEnds` |
| `nat64_prefix` | 2 calls, 2 descriptors, answers of up to 2 addresses, a prefix of each of the six lengths and a network without one, 2 hosts | `FalseChangesNothing`, `PrefixIsOfNetwork`, `ConvertedIsTranslated` |

One run of every larger module checks its `TypeOK`, too (`Nat64PrefixUtil`'s is proved;
`Translator` has none of its own).

Runs that must find a violation show where the code does not do what the repository
says of it (`PROJECT.json`, "findings"):

| run | property | what happens |
|---|---|---|
| `multi_again_hang` | `CallReturns` | in the second call of a process: `dnsquery_failcount` passes `DNS64SERVERNUM`, and the test is for equality |
| `p2p_found` | `RegisteredIsFound` | two entries of a restarted querier end the scan before the target's; the assertion of line 141 ends the server |
| `net_family_whole` | `ListIsOfThisHost` | a list of IPv4 addresses holds 119.0.0.0 for 119.29.103.34: of the four octets the loop at 368-372 stores the first; `dnsquery.h:42` promises the IP addresses of the host |

The models show more behaviour of this kind, which can be seen by changing the constants
of a run or the condition of a property:

- `MultiDns`, one call: two threads may ask the same server, and one server is asked by none,
  because the one `_dnsserver` of the request is overwritten (318) before a thread has read it
  (`AsksOwnOrLater` is what is left); the caller returns while the winner still appends to the list (so
  a name's list may be a part, and an IPv4 literal's keep addresses of `ipv4only.arpa`);
  the threads' dots stay in the host name that `SystemLookup` asks for (`UsableName`);
  the threads that wait for `dnsquery_mutex` never return, because `CheckSize` keeps it.
- `MultiDns`, two calls: `FailureMeansAllFailed` fails, because the second call counts the failures
  of the first; with one buffer for both, a late thread writes into the next call's
  list; a late thread that finds the next call's request in the freed memory asks any of that call's
  servers and answers for it; the second `pthread_mutex_init` lets two threads past the lock.
- `SingleDns`: a call whose `socket()` fails returns `-1` before `_ipinfo` is touched, so
  `ListIsOfThisHost` needs its condition `asked # {}`. With `Foreign` not empty
  `SuccessIsOfThisHost` fails: `IsNat64AddrValid` says true whatever it finds, and the address
  of a resolver without NAT64 is overwritten.
- `Translator`: `AsConfigured` fails for a file with a line of exactly 254 characters, which
  takes the next line with it.
- `P2pTransfer`: a query for a device that is not registered ends the server too; two entries of
  a restarted target hide the querier, so that the PUNCH_HOLE names `None` (0.0.0.0); with
  `Coalesced = {1, 2}` `QueryEnds` fails, because the query that came with the ping
  stays in the input buffer. When the target has left and its bufferevent's memory serves another
  peer, that peer gets the PUNCH_HOLE.
- `HolePunch`: without the condition of `AbcArrives` the target need not receive `"abc"`: when its
  listener has taken the asker's SYN, nobody reads the accepted socket
  (`tcp打洞.md:6` says that the message is received).
- `HolePunch`: both devices fail though both have tried, where SYNs are lost (`SynLost`); the test record
  has it for two devices behind one NAT (`tcp打洞测试V2.0.md:17`).
- `DnsMessage`: a compressed name of at least `INIT_SIZE` octets is written past its allocation,
  because a jump stops the count by which it grows (`Spill`; 513-528), and the copying of it ends
  the model. DNS limits a name to 255 octets (RFC 1035), so that it takes a server that breaks
  the limit; the repository says nothing of the length, hence no run that must fail.
- `NetFamilyDns`: `socket()` refused for want of the family, of buffers or of a system-wide
  descriptor ends the process at any call, the first too (200-203, 305-308), and
  a test whose socket is refused makes a call ask in the wrong family: the two properties ask for
  `~ refused`.
- `Nat64PrefixUtil`: a network with both families is converted in, though
  `nat64_prefix_util.h:25` says that all functions return false there (`Wanted`); if
  `tv6.ustc.edu.cn` has an IPv6 address of its own, that address is overwritten and
  returned as converted (`native` in `ConvertedIsTranslated`); `nat64_prefix_util.h:40` says that the string
  for the prefix is empty when the result is false, and it is what the caller had in it: `FalseChangesNothing`
  leaves that form out, and is about the three of which the header says that nothing changes (47, 54, 60).

So the guarantees of the passing runs hold under their bounds and conditions on purpose: one
call per process for the multi-threaded resolver, calls that have sent a query for
`ListIsOfThisHost` of `SingleDns`, DNS64 servers only for `SuccessIsOfThisHost`, no line of
exactly 254 characters for `EmbedsAsConfigured`, every device started once for
`RegisteredIsFound` and `RefinesRendezvous`, one message per read for these and `QueryEnds`, no
more than one newer entry of the target for `NewestIsTold`, no SYN lost once both have tried for a
device not to fail (`BothFailOnlyByLoss`), the list of IPv6 addresses only for the combined
resolver's, no socket refused but for want of a descriptor for `ExitMeansLeak` and
`ReachableIsAsked`, a machine that has not moved since the call began for `ReachableIsAsked` and the two
properties of what the mars utility writes, the forms with a promise for `FalseChangesNothing`, and a name without IPv6 addresses of its own for
`ConvertedIsTranslated`.

Why the bounds are enough: two threads give every pairwise race and the third gives two
losers and one winner; two tries show that a retry keeps the other state; two slots let
a list be partly stored and an address be torn between two. Two of the networks
in `single` have prefixes of their own, so a late answer has the wrong one, and the third differs from
them in the place of the address only. Three pieces give a long line between two settings. Two
starts give two entries of one device and one reuse of memory. Three records are one more
than are read, and the second of them may point into the first; 7 octets are fewer
than the longer names have, and one more each time is the least growth, so that names with and
without a pointer outgrow the first allocation, and one octet more or less would show. Nine tries on
each side are those of the code. Five descriptors end in the third call, between its
two tests. The proofs cover the other values where there are any.

Deadlock is not checked (`CHECK_DEADLOCK FALSE`): the caller may make no further call,
the process may have crashed, the translator and the reading of a message end, and peers end
when they are answered or connected.

Fairness: the scheduler runs every thread, and the waits of a thread end because `select`
has a timeout (weak fairness of each `Thread(t)` and of `Main`); the single-threaded program
runs on (`Lookup`); libevent serves every connection and TCP delivers (weak fairness of
each bufferevent's callbacks and of each peer's own steps). In `HolePunch` each device's
`connect_peer` runs on (`Punch(d)`: its calls return, its sleeps end, TCP answers a SYN or times
out), and what was sent is delivered; that a device starts to punch is not assumed. `DnsMessage`
is a loop in one thread (`Next`). No fairness is assumed of the environment: of calling,
roaming, starting or killing. `Rendezvous` has fairness of `Learn` and `Hear`, which is what
`RefinesRendezvous` shows the peers and the server to give.

## 4. What is proved

All theorems hold for every value of the constants that the named assumptions allow.

- `MultiDnsProofs!TypeCorrect`: `Spec => []TypeOK`; `AsksItsOwnOrLater`, for any number of calls, of a
  thread that finds the request it was made for (of one that finds a later call's it says nothing),
  through `OrderInv`: threads are made in the order of their servers, and none of a call before
  its turn, so that what `_dnsserver` holds is never older than the thread that reads it.
- `MultiDnsProofs` (under `MaxCalls = 1`): `OneCallInvariant`, and from it
  `FailureIsRight`, `DeathIsLate`, `SizeIsRight`, `OneThreadsList`. None of the four is
  inductive; `OneCallInv` is. The argument is that the mutex is never unlocked after a success: the first
  thread to store an address stays the only holder (`AnswerInv`), so that `size` cannot
  pass the array (`ListInv`: what the holder may still add fits) and all addresses
  are its own (`WriterInv`); `CountInv` says what the two counters count, so that they
  are equal only when every started thread has failed; `CallerInv` relates the caller's
  place to what it has returned. The missing unlock that blocks the other threads is what
  keeps the list intact: the mutant `CheckSizeUnlocks` breaks three of the listed properties.
- `MultiDnsProofs!AnswerStays` (`StableAnswer`, an action property): no step takes an address out
  of the list of a call that has returned 0 for a name, or writes over it. After `OneCallInv` the
  only writer is the holder of the mutex, which writes behind `size`; the steps that reset a
  list belong to a call that has not returned. `KeepsPromise`: `Spec => Promise!Safety`. Each
  step of a thread is `Win`, `Lose` or a stutter of `ResolverPromise`, each step of the
  caller `Begin`, `Launch`, `Succeed`, `GiveUp` or a stutter, and what makes the outcomes right is `OneCallInv` again:
  size is not 0 only if one thread has won, and the counters are equal only if all have lost.
- `Nat64Proofs!ReplaceIsTranslation`: `ReplaceNat64WithV4IP` on a translated address of
  either well-known address (so with 170 or 171 as last octet) gives the translation of the
  new address, for every prefix and each of the six lengths. `ZeroCount` and `ZerosAfter`
  are why: the last octet of a well-known address is not 0, so that the zeros at the end tell the length.
- `SingleDnsProofs!TypeCorrect`, and `SuccessIsRight` (under `Foreign = {}`) through the
  invariant `HostInv`: the packet in hand was made by a network this query was sent to. `ListIsRight`
  says the same of whatever is in the list after a call that has sent a query.
- `DnsMessageProofs` (for every set of well-formed messages): `TypeCorrect`, `QueryIsRight`,
  `RecordsFound`, `NamesFit`, `ReadsAsSent`. The invariant `IInv` says that what was read so far are the
  records as sent (`AnswersInv`), where `reader` is (`PlaceInv`), that the octets copied and
  the text at the cursor together spell the name, the count being what is behind the start
  until the first jump and one less than the extent after it (`NameInv`), and how far the
  conversion has come (`ConvertInv`). `NamesFit` says that only a name with a pointer, and of at least
  `InitSize` octets, can be written past its allocation: before a jump the count is the number of octets
  copied and one, and the allocation stays above it (`AllocInv`). The names may have any length. The dots are put right because the places of the labels in
  a spelled name are determined by its octets.
- `NetFamilyDnsProofs`: `TypeCorrect`, `ListIsRight` (of lists of IPv6 addresses: of IPv4 addresses it is
  false, `net_family_whole`), `LeakIsBounded`, `AsksWhatIsReachable` (both of a system that refuses no socket but
  for want of a descriptor; the bound on what is open after a call holds in any). `LeakInv`
  counts the descriptors at each place of a call; `FamilyInv` says that what the tests found
  is true as long as the machine stays and no socket is refused, and a call without a descriptor
  does not get as far as to ask.
- `Nat64PrefixUtilProofs`: `TypeCorrect`, `FailureChangesNothing` (of the forms the header promises it of; through `WritesLast`: nothing is
  written before the call returns true), `PrefixIsRight` and `ConvertsAsTranslator`, which rests
  on `Nat64Proofs`: the address that is replaced is at the place where the translator put it.
- `TranslatorProofs!EmbedsRight`: `EmbedsAsConfigured` for a file of any number of pieces, any
  prefix and address. `IInv` is why: what `fgets` returns next begins a line (`AtLineStart`), and
  `ipv6_prefix` is the value of the last legal setting before it (`LastSetBefore`); a line that does
  not just fill a piece ends where the loop stops (`LineEnds`), so that no first piece of a line is passed
  over and no other piece is taken for one (`LineRead`). `EmbedsByRfc` says that `ipv4toipv6` is what
  RFC 6052 defines, for each of the six lengths.
- `P2pProofs` about `HolePunch`: `HoleTypeCorrect`, `SuccessHasTwoEnds` (through `EndsInv`: who waits for its SYN
  has no end yet), and `BothFailOnlyIfLost`: the device whose SYN is the second to be sent finds the
  other's NAT open, whatever the number of tries, so that both fail only if a SYN has been lost from then on.
- `P2pProofs!TypeCorrect`, and `LiveEntriesLeadHome` through `HomeInv`: a session is served
  by one bufferevent (`OneBev`), is pending only before it is seen (`PendingUnseen`), and
  its number is new (`LaterUnseen`). `LastExists` (a finite non-empty set of indices has a
  last one) is what makes the scan's result well defined.
- `P2pProofs!NewestEndpointIsTold` (`NewestIsTold`, an action property, for any constants): a querier with one
  entry is told the newest endpoint of a target of which at most one entry is newer than its own; where
  the condition fails an older one may be told or none (`p2p_found`). Through
  `OnceInv`, by which a session's bytes still to be read are at most its ping and then its query
  (`StreamInv`), so that it has at most one entry, with its own number (`EntryInv`). `ScanFindsNewest` is
  about the scan alone: with one entry of the querier and at most one newer entry of the
  target, `num` is 2 before a second entry of the target can take the place of the newest.
- `P2pProofs!RegisteredDevicesAreFound` (`RegisteredIsFound`) under `AskOnce`: devices are started once and a
  number is shared only by devices that are asked for and never ask. Then the querier has
  one entry (`OneEntry`) and a scan of any length finds a target (`QueryFinds`). The
  hypothesis is needed: `p2p_found` shows what a second start does.
- `P2pProofs!IntroducesDevices`: `Spec => Meeting!Safety`, the safety part of `RefinesRendezvous`, under
  `MeetOnce`: devices are started once, are not killed, and have different numbers; any number of them, any
  memory, any number of messages in one read. A ping that is read is `Register` (`MeetPing`), a query that is
  read is `Introduce` or, before the target has registered, `End` (`QueryIntroduces`), a `recv` that returns
  is `Learn` (`MeetRecv`), a thread that is started for a PUNCH_HOLE is `Hear` (`MeetHole`), every other
  step a stutter (`MeetStill`). `MeetingInv` is needed for the middle of an introduction: what is on
  its way to a device that asks is one answer (`AskerInv`), what is on its way to the device asked for
  are PUNCH_HOLEs of introductions made (`AskedInv`), and every entry's bufferevent still serves it.

Where a theorem has a hypothesis about constants (`MaxCalls = 1`, `AskOnce`, `MeetOnce`, `TargetStays`, `Foreign = {}`), it
is what the runs that check the property set, and section 3 says what the code does without it.

### What the liveness properties rest on

The provers have no rule for fairness, so `~>` itself stays with TLC. What a fair run needs beside
fairness is proved: that there is a bounded amount of work, of which every step takes some away, and
that nobody comes to rest waiting for what no one will do.

- `MultiDnsProofs!WorkEnds` (any number of calls): `WorkLeft` counts the steps a thread has before it, at most
  `2 * Tries + 2 * MaxIp + 7`; each of its steps leaves it fewer or crashes the process, and no
  step gives any thread more; the caller's steps leave it fewer (`CallerLeft`) but for the two it polls with. The
  thread that is created had not begun, which is `OrderInv`.
- `MultiDnsProofs!PollingIsNotInVain` (under `MaxCalls = 1`): once every thread has ended or waits for a mutex that
  is held, either the list has an address or the two counters are equal. It needs `AnswerInv` when the mutex is
  held (its holder has won, so the list is not empty) and `CountInv` when it is not. For a second call it is false, which
  the run `multi_again_hang` shows. `WaitersStarve` is the price: after a success no
  thread gets the mutex any more.
- `SingleDnsProofs!CallIsShort`, `NetFamilyDnsProofs!CallIsShort`: `StepsLeft` is bounded, is lessened by each step of a
  call, and is 0 only between calls (or after `exit`); a call that is over has said how it ended. The move of the
  machine to another network, the one step that is not the program's, leaves it as it is.
- `DnsMessageProofs!ReadIsShort`: the records left, what is left to do for one, the octets left of its name and the
  place of the cursor, in this order, become less with every step, until the answer is read or a name does
  not fit. The last is what a pointer lessens: it leads backwards.
- `P2pProofs!PunchIsShort`: every step of either device lessens the steps one of them has left and
  gives neither more. `AbcIsNotLost`: once two SYNs have met, `abc` has been read, is on its way, or its sender is connected.
- `P2pProofs!NobodyAsksInVain` under `TargetStays` (no read brings two messages and the device asked for is
  not killed; those that ask may be, and come back): while the server is up, who is in `recv` has
  something to receive, or is connected with its query unread and nothing in its buffer. `WaitInv` is
  inductive: nothing stays in a buffer, only dead sessions are closed, whoever lives is in the backlog
  or in a slot, and every entry of the target leads to its own connection. Both halves of `TargetStays` are needed: two
  messages in one read leave the query in `input`, and a target that has left may cost the querier its answer.

Only model-checked, then: the eventualities themselves (`CallReturns` of both resolvers, `AnswerWins`, `CallEnds`,
`ReadEnds`, `QueryEnds`, `PunchEnds`, `AbcArrives`, and the fairness that `RefinesPromise` and
`RefinesRendezvous` ask for beyond the `Safety` that is proved), since they need `ENABLED` and fairness.

## 5. Not modelled, and why

- Octets beyond what is kept: `ReadRecvAnswer` writes a 0 one octet past every address it
  reads, and `ReadName` one before an empty name; the model has the strings and not the memory
  around them.
- Messages no DNS server sends to these programs: a name without labels (the root), a pointer that
  does not lead backwards (`ReadName` need not end), a truncated record. `WellFormed` excludes them; long names it admits. What
  happens after a name has been written past its allocation is undefined, and not followed.
- Messages of the P2P protocol that arrive in two reads: `conn_read_cb` reads a short header and drops it
  (261-277). `P2pServer` takes whole messages, one or several in an event.
- A peer's life after its answer: the one that asked punches and ends in the model, and does not take a
  PUNCH_HOLE any more.
- The returns of `getaddrinfo_v6` for null arguments (366-375), and a `select` interrupted by a
  signal, which is repeated.
- The end of the host name that `strncat` looks for in a freed buffer and finds in another name.
- In `MultiDns` the octets of packets and the length of the host name: answers are the number of
  their addresses. The codec's copy there is the one `DnsMessage` models.
- `setting.conf`'s characters beyond what tells a comment, a setting and a full line apart; the text
  forms of addresses (`inet_pton`, `inet_ntop`), which `Nat64PrefixUtil` takes for the address spelled.
- The composition of `P2pTransfer` with `HolePunch` in one run: what the first ends with (both
  sides know an endpoint, in any order and at any time) is what the second starts from.
- `log.c`, `start.sh`, the notes: output, scripts and prose.
- `dnsquery/dns_v6` is a copy of the modelled `dns64_query_c/dns_v6`.

## 6. Plan

All steps of the plan are done: `ResolverPromise`, `MultiDns`; `Nat64Address`, `SingleDns`,
`Translator`; `P2pServer`, `P2pTransfer`; `DnsMessage`; `HolePunch`; `NetFamily`, `NetFamilyDns`,
`Nat64PrefixUtil`; `Rendezvous` with its refinement; and the proofs of each, up to the safety part of both
refinements and to what the liveness properties rest on. What could follow: a model of the octets around the codec's buffers, and a theorem
that joins `P2pTransfer` and `HolePunch`: a pair of devices starts to punch only after an
introduction of the one to the other.
