------------------------------ MODULE P2pProofs ------------------------------
(* What TLAPS proves of the server and its peers (P2pTransfer): types, where *)
(* the entries of the device list lead, what a query finds, that nobody asks *)
(* in vain, and that server and peers implement the safety part of           *)
(* Rendezvous; and of the two devices that punch a hole then (HolePunch),    *)
(* which has variables of its own.                                           *)
EXTENDS P2pTransfer, HolePunch, FiniteSetTheorems, SequenceTheorems, WellFoundedInduction, TLAPS

USE MaxStartsAssumption, CoalescedAssumption, NoneAssumption

\* What the scan has found last is an entry it has found.
LEMMA LastExists ==
  ASSUME NEW n \in Nat, NEW S, S \subseteq 1..n, S # {}
  PROVE  LastOf(S) \in S
<1> DEFINE T == {n - i : i \in S}
<1>1. T \subseteq Nat /\ T # {}
  <2>1. \A i \in S : n - i \in Nat
    OBVIOUS
  <2> QED
    BY <2>1
<1>2. PICK m \in T : \A y \in T : ~ (<<y, m>> \in OpToRel(<, Nat))
  BY <1>1, NatLessThanWellFounded, WFMin, Zenon
<1>3. \A y \in T : ~ (y < m)
  BY <1>1, <1>2 DEF OpToRel
<1>4. PICK i \in S : m = n - i
  BY <1>2
<1>5. \A j \in S : j <= i
  <2> SUFFICES ASSUME NEW j \in S PROVE j <= i
    OBVIOUS
  <2>1. n - j \in T
    OBVIOUS
  <2>2. ~ (n - j < n - i)
    BY <2>1, <1>3, <1>4
  <2> QED
    BY <2>2
<1> QED
  BY <1>5 DEF LastOf

\* list_add puts an entry in front and moves every other one by one.
LEMMA Pushed ==
  ASSUME NEW S, NEW q \in Seq(S), NEW e \in S
  PROVE  /\ <<e>> \o q \in Seq(S)
         /\ DOMAIN (<<e>> \o q) = 1..Len(q) + 1
         /\ \A i \in 1..Len(q) + 1 :
              (<<e>> \o q)[i] = IF i = 1 THEN e ELSE q[i-1]
<1>1. <<e>> \in Seq(S) /\ Len(<<e>>) = 1 /\ <<e>>[1] = e
  OBVIOUS
<1> QED
  BY <1>1, ConcatProperties

LEMMA WriteToType ==
  ASSUME ServerTypeOK, NEW q \in [Session -> Seq(Reply)], NEW b \in Slots, NEW m \in Reply
  PROVE  WriteTo(q, b, m) \in [Session -> Seq(Reply)]
<1>1. CASE bevs[b] = None
  BY <1>1 DEF WriteTo
<1>2. CASE bevs[b] # None
  <2>1. bevs[b] \in Session
    BY <1>2 DEF ServerTypeOK
  <2> QED
    BY <1>2, <2>1 DEF WriteTo
<1> QED
  BY <1>1, <1>2

LEMMA PingType ==
  ASSUME ServerTypeOK, NEW b \in Slots, bevs[b] \in Session, NEW ping \in Request,
         process_ping_cmd(b, ping)
  PROVE  server' = server /\ down' = down /\ devices' \in Seq(Device)
<1>1. [sn |-> ping.sn, pbev |-> b, addr |-> bevs[b]] \in Device
  BY DEF Request, Device
<1> QED
  BY <1>1, Pushed DEF process_ping_cmd, ServerTypeOK

LEMMA QueryType ==
  ASSUME ServerTypeOK, NEW b \in Slots, NEW query \in Request,
         process_query_device_info_cmd(b, query)
  PROVE  /\ server' \in {"up", "aborted", "crashed"}
         /\ devices' = devices
         /\ down' \in [Session -> Seq(Reply)]
<1> DEFINE dst == Scanned(query.src, query.sn) \cap Entries(query.sn)
           src == Scanned(query.src, query.sn) \cap Entries(query.src)
           found == devices[LastOf(dst)]
           punch == [cmd |-> "PUNCH_HOLE",
                     addr |-> IF src = {} THEN None ELSE devices[LastOf(src)].addr]
           response == [cmd |-> "QUERY_DEVICE_INFO_RESPONSE", addr |-> found.addr]
<1>1. devices \in Seq(Device) /\ Len(devices) \in Nat /\ DOMAIN devices = 1..Len(devices)
  BY DEF ServerTypeOK
<1>2. dst \subseteq 1..Len(devices) /\ src \subseteq 1..Len(devices)
  BY <1>1 DEF Entries
<1>3. devices' = devices
  BY DEF process_query_device_info_cmd
<1>4. CASE dst = {}
  BY <1>3, <1>4 DEF process_query_device_info_cmd, NotFound, ServerTypeOK
<1>5. CASE dst # {}
  <2>0. \A i \in 1..Len(devices) : devices[i] \in Device
    BY <1>1
  <2>1. found \in Device
    <3>1. LastOf(dst) \in dst
      BY <1>1, <1>2, <1>5, LastExists
    <3> QED
      BY <2>0, <1>2, <3>1
  <2>2. punch.addr \in Session \cup {None}
    <3>1. CASE src = {}
      BY <3>1
    <3>2. CASE src # {}
      <4>1. LastOf(src) \in src
        BY <1>1, <1>2, <3>2, LastExists
      <4>2. devices[LastOf(src)] \in Device
        BY <2>0, <1>2, <4>1
      <4> QED
        BY <3>2, <4>2 DEF Device
    <3> QED
      BY <3>1, <3>2
  <2>3. punch \in Reply
    BY <2>2 DEF Reply
  <2>4. response \in Reply
    BY <2>1 DEF Reply, Device
  <2>5. WriteTo(WriteTo(down, found.pbev, punch), b, response) \in [Session -> Seq(Reply)]
    <3>1. found.pbev \in Slots
      BY <2>1 DEF Device
    <3> HIDE DEF found, punch, response
    <3>2. WriteTo(down, found.pbev, punch) \in [Session -> Seq(Reply)]
      BY <3>1, <2>3, WriteToType DEF ServerTypeOK
    <3> QED
      BY <3>2, <2>4, WriteToType
  <2> QED
    BY <1>3, <1>5, <2>5 DEF process_query_device_info_cmd, ServerTypeOK
<1> QED
  BY <1>4, <1>5

\* A step of the server keeps the types of what it owns and of the network.
LEMMA ServerTypeStep == ASSUME ServerTypeOK, ServerNext PROVE ServerTypeOK'
<1> PICK b \in Slots :
      \/ \E s \in Session : listener_cb(s, b)
      \/ \E k \in Coalesced : conn_read_cb(b, k)
      \/ conn_event_cb(b)
  BY DEF ServerNext
<1>1. CASE \E s \in Session : listener_cb(s, b)
  BY <1>1 DEF ServerTypeOK, listener_cb
<1>2. ASSUME NEW k \in Coalesced, conn_read_cb(b, k) PROVE ServerTypeOK'
  <2> DEFINE s == bevs[b]
             unread == input[s] \o SubSeq(wire[s], 1, k)
  <2>1. s \in Session /\ k \in 1..Len(wire[s])
    <3>1. s # None /\ k <= Len(wire[s])
      BY <1>2 DEF conn_read_cb
    <3>2. s \in Session /\ wire[s] \in Seq(Request)
      BY <3>1 DEF ServerTypeOK
    <3>3. k \in Nat \ {0} /\ Len(wire[s]) \in Nat
      BY <3>2, CoalescedAssumption
    <3> QED
      BY <3>1, <3>2, <3>3
  <2>2. /\ input[s] \in Seq(Request) /\ wire[s] \in Seq(Request)
    BY <2>1 DEF ServerTypeOK
  <2>3. /\ SubSeq(wire[s], 1, k) \in Seq(Request) /\ Len(SubSeq(wire[s], 1, k)) = k
        /\ SubSeq(wire[s], k + 1, Len(wire[s])) \in Seq(Request)
    BY <2>1, <2>2, SubSeqProperties
  <2>4. unread \in Seq(Request) /\ Len(unread) # 0
    <3> DEFINE new == SubSeq(wire[s], 1, k)
    <3>1. input[s] \in Seq(Request) /\ new \in Seq(Request) /\ Len(new) > 0
      BY <2>1, <2>2, <2>3
    <3> HIDE DEF new, s
    <3>2. /\ input[s] \o new \in Seq(Request)
          /\ Len(input[s] \o new) = Len(input[s]) + Len(new)
      BY <3>1, ConcatProperties
    <3>3. Len(input[s] \o new) # 0
      BY <3>1, <3>2
    <3>4. unread = input[s] \o new
      BY DEF new
    <3> HIDE DEF unread
    <3> QED
      BY <3>2, <3>3, <3>4
  <2>5. Head(unread) \in Request /\ Tail(unread) \in Seq(Request)
    <3> HIDE DEF unread
    <3> QED
      BY <2>4
  <2>6. /\ wire' = [wire EXCEPT ![s] = SubSeq(wire[s], k + 1, Len(wire[s]))]
        /\ input' = [input EXCEPT ![s] = Tail(unread)]
        /\ UNCHANGED <<bevs, backlog, eof>>
        /\ \/ process_ping_cmd(b, Head(unread))
           \/ process_query_device_info_cmd(b, Head(unread))
    BY <1>2 DEF conn_read_cb
  <2>7. wire' \in [Session -> Seq(Request)] /\ input' \in [Session -> Seq(Request)]
    BY <2>3, <2>5, <2>6 DEF ServerTypeOK
  <2>8. /\ server' \in {"up", "aborted", "crashed"}
        /\ devices' \in Seq(Device)
        /\ down' \in [Session -> Seq(Reply)]
    <3> HIDE DEF unread, s
    <3>1. CASE process_ping_cmd(b, Head(unread))
      BY <3>1, <2>1, <2>5, PingType DEF ServerTypeOK, s
    <3>2. CASE process_query_device_info_cmd(b, Head(unread))
      BY <3>2, <2>5, QueryType DEF ServerTypeOK
    <3> QED
      BY <3>1, <3>2, <2>6
  <2> QED
    BY <2>6, <2>7, <2>8 DEF ServerTypeOK
<1>3. CASE conn_event_cb(b)
  <2>1. bevs[b] \in Session
    BY <1>3 DEF conn_event_cb, ServerTypeOK
  <2> QED
    BY <1>3, <2>1 DEF conn_event_cb, ServerTypeOK
<1> QED
  BY <1>1, <1>2, <1>3

USE SnAssumption, MayDieAssumption

LEMMA NowIsSession ==
  ASSUME TypeOK, NEW p \in Peers, pc[p] # "off"
  PROVE  Now(p) \in Session
<1>1. start[p] \in 1..MaxStarts
  BY DEF TypeOK
<1> QED
  BY <1>1 DEF Now, Session

LEMMA TypeInit == Init => TypeOK
  BY DEF Init, ServerInit, TypeOK, ServerTypeOK, Running

LEMMA TypeStep == TypeOK /\ [Next]_vars => TypeOK'
<1> SUFFICES ASSUME TypeOK, [Next]_vars PROVE TypeOK'
  OBVIOUS
<1>1. CASE ServerNext /\ UNCHANGED peerVars
  BY <1>1, ServerTypeStep DEF TypeOK, peerVars
<1>2. ASSUME NEW p \in Peers, connect_server(p) PROVE TypeOK'
  <2>1. start[p] + 1 \in 1..MaxStarts
    BY <1>2 DEF TypeOK, connect_server
  <2>2. <<p, start[p] + 1>> \in Session
    BY <2>1 DEF Session
  <2>3. ServerTypeOK'
    BY <1>2, <2>2 DEF connect_server, TypeOK, ServerTypeOK
  <2> QED
    BY <1>2, <2>1, <2>3 DEF connect_server, TypeOK, Running
<1>3. ASSUME NEW p \in Peers, ping_cb(p) PROVE TypeOK'
  <2>1. Now(p) \in Session /\ [cmd |-> "PING", src |-> Sn[p], sn |-> Sn[p]] \in Request
    BY <1>3, NowIsSession DEF ping_cb, Request
  <2>2. ServerTypeOK'
    BY <1>3, <2>1 DEF ping_cb, Send, TypeOK, ServerTypeOK
  <2> QED
    BY <1>3, <2>2 DEF ping_cb, TypeOK, Running
<1>4. ASSUME NEW p \in Peers, user_cb(p) PROVE TypeOK'
  <2>1. /\ Now(p) \in Session
        /\ [cmd |-> "QUERY_DEVICE_INFO_REQUEST", src |-> Sn[p], sn |-> Target] \in Request
    BY <1>4, NowIsSession DEF user_cb, Request
  <2>2. ServerTypeOK'
    BY <1>4, <2>1 DEF user_cb, Send, TypeOK, ServerTypeOK
  <2> QED
    BY <1>4, <2>2 DEF user_cb, TypeOK, Running
<1>5. ASSUME NEW p \in Peers, RecvAnswer(p) PROVE TypeOK'
  <2>1. Now(p) \in Session /\ down[Now(p)] \in Seq(Reply) /\ down[Now(p)] # <<>>
    BY <1>5, NowIsSession DEF RecvAnswer, TypeOK, ServerTypeOK
  <2>2. /\ Head(down[Now(p)]).addr \in Session \cup {None}
        /\ Tail(down[Now(p)]) \in Seq(Reply)
    <3>1. Head(down[Now(p)]) \in Reply /\ Tail(down[Now(p)]) \in Seq(Reply)
      BY <2>1, HeadTailProperties
    <3> QED
      BY <3>1 DEF Reply
  <2>3. ServerTypeOK'
    BY <1>5, <2>1, <2>2 DEF RecvAnswer, TypeOK, ServerTypeOK
  <2> QED
    BY <1>5, <2>1, <2>2, <2>3 DEF RecvAnswer, TypeOK, Running
<1>6. ASSUME NEW p \in Peers, LoseServer(p) PROVE TypeOK'
  BY <1>6 DEF LoseServer, serverVars, net, TypeOK, ServerTypeOK, Running
<1>7. ASSUME NEW p \in Peers, PunchHole(p) PROVE TypeOK'
  <2>1. Now(p) \in Session /\ down[Now(p)] \in Seq(Reply) /\ down[Now(p)] # <<>>
    BY <1>7, NowIsSession DEF PunchHole, TypeOK, ServerTypeOK, Running
  <2>2. /\ Head(down[Now(p)]).addr \in Session \cup {None}
        /\ Tail(down[Now(p)]) \in Seq(Reply)
    <3>1. Head(down[Now(p)]) \in Reply /\ Tail(down[Now(p)]) \in Seq(Reply)
      BY <2>1, HeadTailProperties
    <3> QED
      BY <3>1 DEF Reply
  <2>3. ServerTypeOK'
    BY <1>7, <2>1, <2>2 DEF PunchHole, TypeOK, ServerTypeOK
  <2>4. heard' \in [Session -> SUBSET (Session \cup {None})]
    BY <1>7, <2>1, <2>2 DEF PunchHole, TypeOK
  <2> QED
    BY <1>7, <2>3, <2>4 DEF PunchHole, TypeOK, Running
<1>8. ASSUME NEW p \in Peers, Kill(p) PROVE TypeOK'
  <2>1. Now(p) \in Session
    BY <1>8, NowIsSession DEF Kill
  <2>2. ServerTypeOK'
    BY <1>8, <2>1 DEF Kill, TypeOK, ServerTypeOK
  <2> QED
    BY <1>8, <2>2 DEF Kill, TypeOK
<1>9. CASE UNCHANGED vars
  BY <1>9 DEF vars, serverVars, net, peerVars, TypeOK, ServerTypeOK
<1> QED
  BY <1>1, <1>2, <1>3, <1>4, <1>5, <1>6, <1>7, <1>8, <1>9 DEF Next, PeerNext

\* The types of all variables, whatever the peers and the memory are.
THEOREM TypeCorrect == Spec => []TypeOK
  BY TypeInit, TypeStep, PTL DEF Spec

LEMMA HomeInit == Init => HomeInv
<1> SUFFICES ASSUME Init PROVE HomeInv
  OBVIOUS
<1>1. TypeOK
  BY TypeInit
<1>2. /\ DOMAIN devices = {} /\ backlog = {} /\ bevs = [b \in Slots |-> None]
  BY DEF Init, ServerInit
<1>3. \A s \in Session : ~ Seen(s)
  BY <1>2 DEF Seen
<1>4. \A p \in Peers : \A n \in 1..MaxStarts : <<p, n>> \in Session
  BY DEF Session
<1>5. OneBev /\ PendingUnseen /\ LiveEntryLeadsHome
  BY <1>2 DEF OneBev, PendingUnseen, LiveEntryLeadsHome
<1>6. LaterUnseen
  BY <1>2, <1>3, <1>4 DEF LaterUnseen
<1> QED
  BY <1>1, <1>5, <1>6 DEF HomeInv

\* A step that moves no session keeps the invariant.
LEMMA HomeFrame ==
  ASSUME HomeInv, TypeOK', UNCHANGED <<bevs, devices, backlog, start>>
  PROVE  HomeInv'
  BY DEF HomeInv, OneBev, PendingUnseen, LaterUnseen, Seen, LiveEntryLeadsHome

\* A new connection is put into free memory; no entry knows it yet.
LEMMA HomeListener ==
  ASSUME HomeInv, TypeOK', NEW s \in Session, NEW b \in Slots, listener_cb(s, b),
         UNCHANGED peerVars
  PROVE  HomeInv'
<1>1. /\ bevs' = [bevs EXCEPT ![b] = s] /\ backlog' = backlog \ {s}
      /\ devices' = devices /\ start' = start
      /\ bevs \in [Slots -> Session \cup {None}]
      /\ s \in backlog /\ s # None
  BY DEF listener_cb, peerVars, HomeInv, TypeOK, ServerTypeOK
<1>2. ~ Seen(s)
  BY <1>1 DEF HomeInv, PendingUnseen
<1>3. \A c \in Slots : bevs'[c] = IF c = b THEN s ELSE bevs[c]
  BY <1>1
<1>4. OneBev'
  BY <1>1, <1>2, <1>3 DEF OneBev, Seen, HomeInv
<1>5. PendingUnseen'
  BY <1>1, <1>3 DEF PendingUnseen, Seen, HomeInv
<1>6. LaterUnseen'
  BY <1>1, <1>3 DEF LaterUnseen, Seen, HomeInv
<1>7. LiveEntryLeadsHome'
  BY <1>1, <1>2, <1>3 DEF LiveEntryLeadsHome, Seen, HomeInv
<1> QED
  BY <1>4, <1>5, <1>6, <1>7 DEF HomeInv

\* The entry of a ping leads to the bufferevent the ping was read from.
LEMMA HomePing ==
  ASSUME HomeInv, TypeOK', NEW b \in Slots, NEW ping, bevs[b] # None,
         process_ping_cmd(b, ping), UNCHANGED <<bevs, backlog, start>>
  PROVE  HomeInv'
<1> DEFINE e == [sn |-> ping.sn, pbev |-> b, addr |-> bevs[b]]
           S == {e} \cup Device
<1>1. /\ devices' = <<e>> \o devices /\ devices \in Seq(Device)
  BY DEF process_ping_cmd, HomeInv, TypeOK, ServerTypeOK
<1>2. /\ DOMAIN devices' = 1..Len(devices) + 1 /\ DOMAIN devices = 1..Len(devices)
      /\ \A i \in 1..Len(devices) + 1 : devices'[i] = IF i = 1 THEN e ELSE devices[i-1]
      /\ Len(devices) \in Nat
  <2>1. devices \in Seq(S) /\ e \in S
    BY <1>1
  <2> HIDE DEF S, e
  <2>2. /\ DOMAIN (<<e>> \o devices) = 1..Len(devices) + 1
        /\ \A i \in 1..Len(devices) + 1 :
             (<<e>> \o devices)[i] = IF i = 1 THEN e ELSE devices[i-1]
    BY <2>1, Pushed
  <2> QED
    BY <1>1, <2>2
<1>3. e.pbev = b /\ e.addr = bevs[b]
  OBVIOUS
<1> HIDE DEF e
<1>4. \A s : Seen(s)' => Seen(s)
  <2> SUFFICES ASSUME NEW s, Seen(s)' PROVE Seen(s)
    OBVIOUS
  <2>1. CASE \E c \in Slots : bevs'[c] = s
    BY <2>1 DEF Seen
  <2>2. ASSUME NEW i \in 1..Len(devices) + 1, devices'[i].addr = s PROVE Seen(s)
    <3>1. CASE i = 1
      BY <3>1, <2>2, <1>2, <1>3 DEF Seen
    <3>2. CASE i # 1
      BY <3>2, <2>2, <1>2 DEF Seen
    <3> QED
      BY <3>1, <3>2
  <2> QED
    BY <2>1, <2>2, <1>2 DEF Seen
<1>5. LiveEntryLeadsHome'
  <2> SUFFICES ASSUME NEW i \in 1..Len(devices) + 1, NEW c \in Slots,
                      bevs[c] = devices'[i].addr
               PROVE  devices'[i].pbev = c
    BY <1>2 DEF LiveEntryLeadsHome
  <2>1. CASE i = 1
    BY <2>1, <1>2, <1>3 DEF HomeInv, OneBev
  <2>2. CASE i # 1
    BY <2>2, <1>2 DEF HomeInv, LiveEntryLeadsHome
  <2> QED
    BY <2>1, <2>2
<1>6. OneBev' /\ PendingUnseen' /\ LaterUnseen'
  BY <1>4 DEF HomeInv, OneBev, PendingUnseen, LaterUnseen
<1> QED
  BY <1>5, <1>6 DEF HomeInv

LEMMA HomeStep == HomeInv /\ [Next]_vars => HomeInv'
<1> SUFFICES ASSUME HomeInv, [Next]_vars PROVE HomeInv'
  OBVIOUS
<1>0. TypeOK'
  BY TypeStep DEF HomeInv
<1>1. CASE ServerNext /\ UNCHANGED peerVars
  <2>0. start' = start
    BY <1>1 DEF peerVars
  <2> PICK b \in Slots :
        \/ \E s \in Session : listener_cb(s, b)
        \/ \E k \in Coalesced : conn_read_cb(b, k)
        \/ conn_event_cb(b)
    BY <1>1 DEF ServerNext
  <2>1. CASE \E s \in Session : listener_cb(s, b)
    BY <2>1, <1>0, <1>1, HomeListener
  <2>2. ASSUME NEW k \in Coalesced, conn_read_cb(b, k) PROVE HomeInv'
    <3>1. UNCHANGED <<bevs, backlog>> /\ bevs[b] # None
      BY <2>2 DEF conn_read_cb
    <3>2. ASSUME NEW m, process_ping_cmd(b, m) PROVE HomeInv'
      BY <3>2, <3>1, <2>0, <1>0, HomePing
    <3>3. ASSUME NEW m, process_query_device_info_cmd(b, m) PROVE HomeInv'
      <4>1. devices' = devices
        BY <3>3 DEF process_query_device_info_cmd
      <4> QED
        BY <4>1, <3>1, <2>0, <1>0, HomeFrame
    <3> QED
      BY <2>2, <3>2, <3>3 DEF conn_read_cb
  <2>3. CASE conn_event_cb(b)
    <3>1. /\ bevs' = [bevs EXCEPT ![b] = None]
          /\ devices' = devices /\ backlog' = backlog /\ start' = start
          /\ bevs \in [Slots -> Session \cup {None}]
      BY <2>3, <2>0 DEF conn_event_cb, HomeInv, TypeOK, ServerTypeOK
    <3>2. \A c \in Slots : bevs'[c] = IF c = b THEN None ELSE bevs[c]
      BY <3>1
    <3>3. devices \in Seq(Device)
      BY DEF HomeInv, TypeOK, ServerTypeOK
    <3>4. \A i \in DOMAIN devices : devices[i].addr # None
      <4>1. \A i \in DOMAIN devices : devices[i] \in Device
        BY <3>3
      <4>2. \A d \in Device : d.addr # None
        BY DEF Device
      <4> QED
        BY <4>1, <4>2
    <3>5. None \notin backlog
      BY DEF HomeInv, TypeOK, ServerTypeOK
    <3>6. \A p \in Peers : \A n \in 1..MaxStarts : <<p, n>> # None
      BY DEF Session
    <3>7. OneBev' /\ LiveEntryLeadsHome'
      BY <3>1, <3>2, <3>4 DEF HomeInv, OneBev, LiveEntryLeadsHome
    <3>8. PendingUnseen' /\ LaterUnseen'
      BY <3>1, <3>2, <3>5, <3>6 DEF HomeInv, PendingUnseen, LaterUnseen, Seen
    <3> QED
      BY <3>7, <3>8, <1>0 DEF HomeInv
  <2> QED
    BY <2>1, <2>2, <2>3
<1>2. ASSUME NEW p \in Peers, connect_server(p) PROVE HomeInv'
  <2>1. /\ UNCHANGED <<bevs, devices>>
        /\ start' = [start EXCEPT ![p] = @ + 1]
        /\ backlog' = backlog \cup {<<p, start[p] + 1>>}
        /\ start \in [Peers -> 0..MaxStarts] /\ start[p] + 1 \in 1..MaxStarts
    BY <1>2 DEF connect_server, HomeInv, TypeOK
  <2>2. ~ Seen(<<p, start[p] + 1>>)
    BY <2>1 DEF HomeInv, LaterUnseen
  <2>3. PendingUnseen'
    BY <2>1, <2>2 DEF HomeInv, PendingUnseen, Seen
  <2>4. LaterUnseen'
    <3> SUFFICES ASSUME NEW q \in Peers, NEW n \in 1..MaxStarts, n > start'[q]
                 PROVE  <<q, n>> \notin backlog' /\ ~ Seen(<<q, n>>)'
      BY DEF LaterUnseen
    <3>1. n > start[q] /\ <<q, n>> # <<p, start[p] + 1>>
      BY <2>1
    <3>2. <<q, n>> \notin backlog /\ ~ Seen(<<q, n>>)
      BY <3>1 DEF HomeInv, LaterUnseen
    <3> QED
      BY <3>1, <3>2, <2>1 DEF Seen
  <2>5. OneBev' /\ LiveEntryLeadsHome'
    BY <2>1 DEF HomeInv, OneBev, LiveEntryLeadsHome
  <2> QED
    BY <2>3, <2>4, <2>5, <1>0 DEF HomeInv
<1>3. ASSUME NEW p \in Peers, PeerNext(p) \/ Kill(p) PROVE HomeInv'
  <2>1. UNCHANGED <<bevs, devices, backlog, start>>
    BY <1>3 DEF PeerNext, ping_cb, user_cb, RecvAnswer, LoseServer, PunchHole, Kill,
       serverVars, net
  <2> QED
    BY <2>1, <1>0, HomeFrame
<1>4. CASE UNCHANGED vars
  BY <1>4, <1>0, HomeFrame DEF vars, serverVars, net, peerVars
<1> QED
  BY <1>1, <1>2, <1>3, <1>4 DEF Next

\* However often devices leave and come back and memory is used again, an entry
\* of a connected device leads to its own connection.
THEOREM LiveEntriesLeadHome == Spec => []LiveEntryLeadsHome
<1>1. HomeInv => LiveEntryLeadsHome
  BY DEF HomeInv
<1> QED
  BY <1>1, HomeInit, HomeStep, PTL DEF Spec
-----------------------------------------------------------------------------
(* What a session sends: OnceInv.                                            *)

LEMMA TailOfConcat ==
  ASSUME NEW S, NEW q \in Seq(S), NEW r \in Seq(S), q # <<>>
  PROVE  q \o r # <<>> /\ Head(q \o r) = Head(q) /\ Tail(q \o r) = Tail(q) \o r
<1>1. /\ q \o r \in Seq(S) /\ Len(q \o r) = Len(q) + Len(r)
      /\ \A i \in 1..Len(q) + Len(r) :
           (q \o r)[i] = IF i <= Len(q) THEN q[i] ELSE r[i - Len(q)]
      /\ Len(q) \in Nat \ {0} /\ Len(r) \in Nat
  BY ConcatProperties, EmptySeq
<1>2. q \o r # <<>>
  BY <1>1, EmptySeq
<1>3. /\ Tail(q) \in Seq(S) /\ Len(Tail(q)) = Len(q) - 1
      /\ \A i \in 1..Len(q) - 1 : Tail(q)[i] = q[i+1]
  BY HeadTailProperties
<1>4. /\ Tail(q \o r) \in Seq(S) /\ Len(Tail(q \o r)) = Len(q) + Len(r) - 1
      /\ \A i \in 1..Len(q) + Len(r) - 1 : Tail(q \o r)[i] = (q \o r)[i+1]
  <2> HIDE <1>3
  <2> QED
    BY <1>1, <1>2, HeadTailProperties
<1>5. /\ Tail(q) \o r \in Seq(S) /\ Len(Tail(q) \o r) = Len(q) - 1 + Len(r)
      /\ \A i \in 1..Len(q) - 1 + Len(r) :
           (Tail(q) \o r)[i] = IF i <= Len(q) - 1 THEN Tail(q)[i] ELSE r[i - (Len(q) - 1)]
  BY <1>3, ConcatProperties
<1>6. \A i \in 1..Len(q) + Len(r) - 1 : Tail(q \o r)[i] = (Tail(q) \o r)[i]
  <2> SUFFICES ASSUME NEW i \in 1..Len(q) + Len(r) - 1
               PROVE  Tail(q \o r)[i] = (Tail(q) \o r)[i]
    OBVIOUS
  <2>1. i + 1 \in 1..Len(q) + Len(r) /\ i \in 1..Len(q) - 1 + Len(r)
    BY <1>1
  <2>2. Tail(q \o r)[i] = IF i + 1 <= Len(q) THEN q[i+1] ELSE r[i + 1 - Len(q)]
    BY <1>1, <1>4, <2>1
  <2>3. (Tail(q) \o r)[i] = IF i + 1 <= Len(q) THEN q[i+1] ELSE r[i + 1 - Len(q)]
    BY <1>1, <1>3, <1>5, <2>1
  <2> QED
    BY <2>2, <2>3
<1>7. Tail(q \o r) = Tail(q) \o r
  BY <1>1, <1>4, <1>5, <1>6, SeqEqual
<1>8. Head(q \o r) = Head(q)
  BY <1>1, <1>2
<1> QED
  BY <1>2, <1>7, <1>8

\* Concatenation of messages, in a form to instantiate.
LEMMA Concat ==
  ASSUME NEW S
  PROVE  /\ \A q, r, t \in Seq(S) : q \o (r \o t) = (q \o r) \o t
         /\ \A q, r \in Seq(S) : q \o r \in Seq(S) /\ Len(q \o r) = Len(q) + Len(r)
<1>1. ASSUME NEW q \in Seq(S), NEW r \in Seq(S), NEW t \in Seq(S)
      PROVE  q \o (r \o t) = (q \o r) \o t
  BY ConcatAssociative
<1>2. ASSUME NEW q \in Seq(S), NEW r \in Seq(S)
      PROVE  q \o r \in Seq(S) /\ Len(q \o r) = Len(q) + Len(r)
  BY ConcatProperties
<1> QED
  BY <1>1, <1>2

\* The values a stream takes.
LEMMA Tuples ==
  ASSUME NEW x, NEW y, x # y
  PROVE  /\ Append(<<>>, x) = <<x>> /\ Append(<<x>>, y) = <<x, y>>
         /\ Head(<<x>>) = x /\ Tail(<<x>>) = <<>>
         /\ Head(<<x, y>>) = x /\ Tail(<<x, y>>) = <<y>>
         /\ <<x>> # <<>> /\ <<y>> # <<>> /\ <<x, y>> # <<>>
         /\ <<x>> # <<x, y>> /\ <<y>> # <<x, y>> /\ <<x>> # <<y>>
<1> DEFINE S == {x, y}
<1>0. <<x>> \in Seq(S) /\ <<y>> \in Seq(S) /\ <<x, y>> \in Seq(S) /\ <<>> \in Seq(S)
  OBVIOUS
<1>1. /\ Append(<<>>, x) = <<x>> /\ Append(<<x>>, y) = <<x, y>>
      /\ Head(<<x>>) = x /\ Tail(<<x>>) = <<>>
      /\ Head(<<x, y>>) = x /\ Tail(<<x, y>>) = <<y>>
  <2>1. Append(<<>>, x) = <<x>>
    OBVIOUS
  <2>2. Append(<<x>>, y) = <<x, y>>
    <3>1. /\ Append(<<x>>, y) \in Seq(S) /\ Len(Append(<<x>>, y)) = 2
          /\ Append(<<x>>, y)[1] = x /\ Append(<<x>>, y)[2] = y
      BY <1>0, AppendProperties
    <3>2. /\ <<x, y>> \in Seq(S) /\ Len(<<x, y>>) = 2
          /\ <<x, y>>[1] = x /\ <<x, y>>[2] = y
      OBVIOUS
    <3>3. \A i \in 1..2 : Append(<<x>>, y)[i] = <<x, y>>[i]
      BY <3>1, <3>2
    <3> HIDE DEF S
    <3> QED
      BY <3>1, <3>2, <3>3, SeqEqual
  <2>3. Head(<<x>>) = x /\ Head(<<x, y>>) = x
    OBVIOUS
  <2>4. Tail(<<x>>) = <<>>
    OBVIOUS
  <2>5. Tail(<<x, y>>) = <<y>>
    OBVIOUS
  <2> QED
    BY <2>1, <2>2, <2>3, <2>4, <2>5
<1>2. <<x>> # <<>> /\ <<y>> # <<>> /\ <<x, y>> # <<>>
  OBVIOUS
<1>3. <<x>> # <<x, y>> /\ <<y>> # <<x, y>>
  <2>1. Len(<<x>>) = 1 /\ Len(<<y>>) = 1 /\ Len(<<x, y>>) = 2
    OBVIOUS
  <2> QED
    BY <2>1
<1>4. <<x>> # <<y>>
  <2>1. <<x>>[1] = x /\ <<y>>[1] = y
    OBVIOUS
  <2> QED
    BY <2>1
<1> QED
  BY <1>1, <1>2, <1>3, <1>4

LEMMA PingIsNotQuery == ASSUME NEW s PROVE Ping(s) # Query(s)
  BY DEF Ping, Query

\* A peer sends a message.
LEMMA StreamGrows ==
  ASSUME TypeOK, NEW s \in Session, NEW m \in Request, Send(s, m), UNCHANGED input
  PROVE  /\ Stream(s)' = Append(Stream(s), m)
         /\ \A u \in Session : u # s => Stream(u)' = Stream(u)
<1>1. /\ wire \in [Session -> Seq(Request)] /\ input \in [Session -> Seq(Request)]
      /\ wire' = [wire EXCEPT ![s] = Append(wire[s], m)]
  BY DEF TypeOK, ServerTypeOK, Send
<1>2. wire'[s] = Append(wire[s], m) /\ \A u \in Session : u # s => wire'[u] = wire[u]
  BY <1>1
<1>3. wire[s] \in Seq(Request) /\ input[s] \in Seq(Request)
  BY <1>1
<1>4. wire'[s] = wire[s] \o <<m>>
  BY <1>2, <1>3, AppendIsConcat
<1>5. <<m>> \in Seq(Request) /\ input[s] \o wire[s] \in Seq(Request)
  BY <1>3, ConcatProperties
<1>6. input[s] \o (wire[s] \o <<m>>) = (input[s] \o wire[s]) \o <<m>>
  <2>1. \A q, r, t \in Seq(Request) : q \o (r \o t) = (q \o r) \o t
    BY Concat
  <2> QED
    BY <2>1, <1>3, <1>5
<1>7. (input[s] \o wire[s]) \o <<m>> = Append(input[s] \o wire[s], m)
  BY <1>5, AppendIsConcat
<1> QED
  BY <1>2, <1>4, <1>6, <1>7 DEF Stream

\* conn_read_cb takes the first message of a stream, however TCP has cut it up.
LEMMA StreamShrinks ==
  ASSUME TypeOK, NEW b \in Slots, NEW k \in Coalesced, conn_read_cb(b, k), NEW s, s = bevs[b]
  PROVE  /\ s \in Session /\ Stream(s) # <<>> /\ Stream(s)' = Tail(Stream(s))
         /\ \A u \in Session : u # s => Stream(u)' = Stream(u)
         /\ LET m == Head(Stream(s)) IN
            \/ m.cmd = "PING" /\ process_ping_cmd(b, m)
            \/ m.cmd = "QUERY_DEVICE_INFO_REQUEST" /\ process_query_device_info_cmd(b, m)
<1> DEFINE taken == SubSeq(wire[s], 1, k)
           rest == SubSeq(wire[s], k + 1, Len(wire[s]))
           unread == input[s] \o taken
<1>1. s \in Session
  BY DEF conn_read_cb, TypeOK, ServerTypeOK
<1>2. /\ wire \in [Session -> Seq(Request)] /\ input \in [Session -> Seq(Request)]
      /\ wire[s] \in Seq(Request) /\ input[s] \in Seq(Request)
  BY <1>1 DEF TypeOK, ServerTypeOK
<1>3. k \in 1..Len(wire[s]) /\ Len(wire[s]) \in Nat
  <2>1. k <= Len(wire[s])
    BY DEF conn_read_cb
  <2> QED
    BY <2>1, <1>2, CoalescedAssumption
<1>4. /\ wire' = [wire EXCEPT ![s] = rest]
      /\ input' = [input EXCEPT ![s] = Tail(unread)]
      /\ \/ Head(unread).cmd = "PING" /\ process_ping_cmd(b, Head(unread))
         \/ /\ Head(unread).cmd = "QUERY_DEVICE_INFO_REQUEST"
            /\ process_query_device_info_cmd(b, Head(unread))
  BY DEF conn_read_cb
<1>5. taken \o rest = wire[s]
  <2>1. taken \o rest = SubSeq(wire[s], 1, Len(wire[s]))
    BY <1>2, <1>3, ConcatAdjacentSubSeq
  <2> QED
    BY <2>1, <1>2, SubSeqFull
<1>6. taken \in Seq(Request) /\ Len(taken) = k /\ rest \in Seq(Request)
  <2>1. \A i \in 1..Len(wire[s]) : wire[s][i] \in Request
    BY <1>2
  <2> QED
    BY <1>3, <2>1, SubSeqProperties
<1>7. unread \in Seq(Request) /\ unread # <<>>
  <2>1. Len(unread) # 0 /\ unread \in Seq(Request)
    <3> HIDE DEF taken
    <3>1. Len(input[s] \o taken) = Len(input[s]) + Len(taken) /\ input[s] \o taken \in Seq(Request)
      BY <1>2, <1>6, Concat, Zenon
    <3> QED
      BY <3>1, <1>2, <1>3, <1>6
  <2> HIDE DEF unread
  <2> QED
    BY <2>1, EmptySeq
<1>8. unread \o rest = Stream(s)
  <2> HIDE DEF taken, rest
  <2>0. \A q, r, t \in Seq(Request) : q \o (r \o t) = (q \o r) \o t
    BY Concat
  <2>a. input[s] \in Seq(Request) /\ taken \in Seq(Request) /\ rest \in Seq(Request)
    BY ONLY <1>2, <1>6
  <2>b. input[s] \o (taken \o rest) = (input[s] \o taken) \o rest
    BY ONLY <2>0, <2>a, Zenon
  <2>1. unread \o rest = input[s] \o (taken \o rest)
    BY ONLY <2>b, Zenon DEF unread
  <2> QED
    BY <2>1, <1>5 DEF Stream
<1> HIDE DEF unread, rest
<1>9. Stream(s) # <<>> /\ Head(Stream(s)) = Head(unread) /\ Tail(Stream(s)) = Tail(unread) \o rest
  BY <1>6, <1>7, <1>8, TailOfConcat
<1>10. /\ wire'[s] = rest /\ input'[s] = Tail(unread)
       /\ \A u \in Session : u # s => wire'[u] = wire[u] /\ input'[u] = input[u]
  BY <1>1, <1>2, <1>4
<1>11. Stream(s)' = Tail(Stream(s)) /\ \A u \in Session : u # s => Stream(u)' = Stream(u)
  BY <1>9, <1>10 DEF Stream
<1> QED
  BY <1>1, <1>4, <1>9, <1>11

\* What is left of a stream when its first message is taken.
LEMMA FirstOfStream ==
  ASSUME NEW s, Stream(s) \in Streams(s), Stream(s) # <<>>
  PROVE  /\ Head(Stream(s)).cmd = "PING" =>
              /\ PingIsDue(s) /\ Head(Stream(s)) = Ping(s)
              /\ Tail(Stream(s)) = IF QueryIsDue(s) THEN <<Query(s)>> ELSE <<>>
         /\ Head(Stream(s)).cmd = "QUERY_DEVICE_INFO_REQUEST" =>
              /\ Stream(s) = <<Query(s)>> /\ Head(Stream(s)) = Query(s)
              /\ Tail(Stream(s)) = <<>>
<1> DEFINE P == Ping(s)
           Q == Query(s)
<1>1. P.cmd = "PING" /\ Q.cmd = "QUERY_DEVICE_INFO_REQUEST" /\ P # Q
  BY PingIsNotQuery DEF Ping, Query
<1>2. Stream(s) \in {<<P>>, <<P, Q>>, <<Q>>}
  BY DEF Streams
<1>3. /\ PingIsDue(s) <=> Stream(s) \in {<<P>>, <<P, Q>>}
      /\ QueryIsDue(s) <=> Stream(s) \in {<<Q>>, <<P, Q>>}
  BY DEF PingIsDue, QueryIsDue
<1> HIDE DEF P, Q
<1>4. CASE Stream(s) = <<P>>
  BY <1>1, <1>3, <1>4, Tuples DEF P, Q
<1>5. CASE Stream(s) = <<P, Q>>
  BY <1>1, <1>3, <1>5, Tuples DEF P, Q
<1>6. CASE Stream(s) = <<Q>>
  BY <1>1, <1>3, <1>6, Tuples DEF P, Q
<1> QED
  BY <1>2, <1>4, <1>5, <1>6

\* In a stream that is empty nothing is due.
LEMMA NothingDue ==
  ASSUME NEW s
  PROVE  /\ Stream(s) = <<>> => ~ PingIsDue(s) /\ ~ QueryIsDue(s)
         /\ Stream(s)' = <<>> => ~ PingIsDue(s)' /\ ~ QueryIsDue(s)'
BY PingIsNotQuery, Tuples DEF PingIsDue, QueryIsDue

\* Everything said of a stream is the same when the stream is.
LEMMA SameStream ==
  ASSUME NEW s, Stream(s)' = Stream(s)
  PROVE  /\ Streams(s)' = Streams(s)
         /\ PingIsDue(s)' = PingIsDue(s) /\ QueryIsDue(s)' = QueryIsDue(s)
BY DEF Streams, PingIsDue, QueryIsDue, Ping, Query

LEMMA OnceInit == Init => OnceInv
<1> SUFFICES ASSUME Init PROVE OnceInv
  OBVIOUS
<1>1. TypeOK
  BY TypeInit
<1>2. devices = <<>> /\ Registered = {}
  BY DEF Init, ServerInit, Registered
<1>3. \A s \in Session : Stream(s) = <<>>
  BY DEF Init, ServerInit, Stream
<1>4. \A s \in Session : ~ AtPlace(s, "timer")
  BY DEF Init, AtPlace, Session
<1> QED
  BY <1>1, <1>2, <1>3, <1>4, NothingDue DEF OnceInv, StreamInv, EntryInv, Streams

\* A step that registers nobody, sends nothing and takes no peer to its timer
\* keeps the invariant; it may empty a stream.
LEMMA OnceFrame ==
  ASSUME OnceInv, TypeOK', UNCHANGED <<devices, start>>,
         \A p \in Peers : pc'[p] = pc[p] \/ pc'[p] \in {"done", "off"},
         \A s \in Session : Stream(s)' \in {Stream(s), <<>>}
  PROVE  OnceInv'
<1>1. Registered' = Registered
  BY DEF Registered
<1>2. EntryInv'
  BY DEF OnceInv, EntryInv
<1>3. ASSUME NEW s \in Session
      PROVE  /\ Stream(s)' \in Streams(s)'
             /\ BeforePing(s)' => Stream(s)' = <<>> /\ s \notin Registered'
             /\ AtPlace(s, "timer")' => Sn[s[1]] # Target /\ ~ QueryIsDue(s)'
             /\ PingIsDue(s)' => s \notin Registered'
             /\ QueryIsDue(s)' => Sn[s[1]] # Target
  <2>1. /\ BeforePing(s)' => BeforePing(s)
        /\ AtPlace(s, "timer")' => AtPlace(s, "timer")
    BY DEF BeforePing, AtPlace, Session
  <2>2. /\ Stream(s) \in Streams(s)
        /\ BeforePing(s) => Stream(s) = <<>> /\ s \notin Registered
        /\ AtPlace(s, "timer") => Sn[s[1]] # Target /\ ~ QueryIsDue(s)
        /\ PingIsDue(s) => s \notin Registered
        /\ QueryIsDue(s) => Sn[s[1]] # Target
    BY DEF OnceInv, StreamInv
  <2>3. CASE Stream(s)' = Stream(s)
    BY <1>1, <2>1, <2>2, <2>3, SameStream
  <2>4. CASE Stream(s)' = <<>>
    BY <1>1, <2>1, <2>2, <2>4, NothingDue DEF Streams
  <2> QED
    BY <2>3, <2>4
<1> QED
  BY <1>2, <1>3 DEF OnceInv, StreamInv

\* A ping that is taken gives its session the only entry it has.
LEMMA OncePing ==
  ASSUME OnceInv, TypeOK', NEW b \in Slots, NEW s \in Session, s = bevs[b],
         Stream(s) # <<>>, Stream(s)' = Tail(Stream(s)),
         \A u \in Session : u # s => Stream(u)' = Stream(u),
         Head(Stream(s)).cmd = "PING", process_ping_cmd(b, Head(Stream(s))),
         UNCHANGED peerVars
  PROVE  OnceInv' /\ Registered' = Registered \cup {s} /\ s \notin Registered
<1> DEFINE e == [sn |-> Sn[s[1]], pbev |-> b, addr |-> s]
<1>1. /\ PingIsDue(s) /\ Head(Stream(s)) = Ping(s)
      /\ Stream(s)' = IF QueryIsDue(s) THEN <<Query(s)>> ELSE <<>>
  BY FirstOfStream DEF OnceInv, StreamInv
<1>2. devices \in Seq(Device) /\ e \in Device /\ devices' = <<e>> \o devices
  <2>1. s[1] \in Peers
    BY DEF Session
  <2> QED
    BY <1>1, <2>1 DEF process_ping_cmd, Ping, OnceInv, TypeOK, ServerTypeOK, Device
<1>3. /\ DOMAIN devices' = 1..Len(devices) + 1 /\ DOMAIN devices = 1..Len(devices)
      /\ \A i \in 1..Len(devices) + 1 : devices'[i] = IF i = 1 THEN e ELSE devices[i-1]
      /\ Len(devices) \in Nat
  <2> HIDE DEF e
  <2>1. /\ DOMAIN (<<e>> \o devices) = 1..Len(devices) + 1
        /\ \A i \in 1..Len(devices) + 1 :
             (<<e>> \o devices)[i] = IF i = 1 THEN e ELSE devices[i-1]
    BY <1>2, Pushed
  <2> QED
    BY <1>2, <2>1
<1>4. s \notin Registered
  BY <1>1 DEF OnceInv, StreamInv
<1>5. e.addr = s /\ e.sn = Sn[s[1]]
  OBVIOUS
<1> HIDE DEF e
<1>6. Registered' = Registered \cup {s}
  <2>1. ASSUME NEW i \in 1..Len(devices) + 1 PROVE devices'[i].addr \in Registered \cup {s}
    <3>1. CASE i = 1
      <4>1. devices'[i] = e
        BY <1>3, <3>1
      <4> QED
        BY <4>1, <1>5
    <3>2. CASE i # 1
      <4>1. i - 1 \in 1..Len(devices) /\ devices'[i] = devices[i-1]
        BY <1>3, <3>2
      <4>2. devices[i-1].addr \in Registered
        BY <4>1, <1>3 DEF Registered
      <4> QED
        BY <4>1, <4>2
    <3> QED
      BY <3>1, <3>2
  <2>2. s \in Registered'
    BY <1>3, <1>5 DEF Registered
  <2>3. ASSUME NEW i \in 1..Len(devices) PROVE devices[i].addr \in Registered'
    <3>1. i + 1 \in 1..Len(devices) + 1 /\ devices'[i+1] = devices[i]
      BY <1>3
    <3> QED
      BY <3>1, <1>3 DEF Registered
  <2>4. \A u \in Registered' : u \in Registered \cup {s}
    BY <2>1, <1>3 DEF Registered
  <2>5. \A u \in Registered : u \in Registered'
    BY <2>3, <1>3 DEF Registered
  <2> QED
    BY <2>2, <2>4, <2>5
<1>7. EntryInv'
  <2>0. ASSUME NEW i \in 1..Len(devices) + 1, i # 1
        PROVE  /\ i - 1 \in 1..Len(devices) /\ devices'[i] = devices[i-1]
               /\ devices[i-1].addr # s
    <3>1. i - 1 \in 1..Len(devices) /\ devices'[i] = devices[i-1]
      BY <2>0, <1>3
    <3> QED
      BY <3>1, <1>3, <1>4 DEF Registered
  <2>1. ASSUME NEW i \in 1..Len(devices) + 1
        PROVE  devices'[i].sn = Sn[devices'[i].addr[1]]
    <3>1. CASE i = 1
      BY <3>1, <1>3, <1>5
    <3>2. CASE i # 1
      BY <3>2, <2>0, <1>3 DEF OnceInv, EntryInv
    <3> QED
      BY <3>1, <3>2
  <2>2. ASSUME NEW i \in 1..Len(devices) + 1, NEW j \in 1..Len(devices) + 1,
               devices'[i].addr = devices'[j].addr
        PROVE  i = j
    <3>1. CASE i = 1 /\ j = 1
      BY <3>1
    <3>2. CASE i # 1 /\ j # 1
      <4>1. /\ devices[i-1].addr = devices[j-1].addr
            /\ i - 1 \in DOMAIN devices /\ j - 1 \in DOMAIN devices
        BY <3>2, <2>0, <2>2, <1>3
      <4>2. i - 1 = j - 1
        BY <4>1 DEF OnceInv, EntryInv
      <4> QED
        BY <4>2, <1>3
    <3>3. CASE (i = 1 /\ j # 1) \/ (i # 1 /\ j = 1)
      BY <3>3, <2>0, <2>2, <1>3, <1>5
    <3> QED
      BY <3>1, <3>2, <3>3
  <2> QED
    BY <1>3, <2>1, <2>2 DEF EntryInv
<1>8. StreamInv'
  <2> SUFFICES ASSUME NEW u \in Session
               PROVE  /\ Stream(u)' \in Streams(u)'
                      /\ BeforePing(u)' => Stream(u)' = <<>> /\ u \notin Registered'
                      /\ AtPlace(u, "timer")' => Sn[u[1]] # Target /\ ~ QueryIsDue(u)'
                      /\ PingIsDue(u)' => u \notin Registered'
                      /\ QueryIsDue(u)' => Sn[u[1]] # Target
    BY DEF StreamInv
  <2>1. BeforePing(u)' = BeforePing(u) /\ AtPlace(u, "timer")' = AtPlace(u, "timer")
    BY DEF BeforePing, AtPlace, peerVars
  <2>2. /\ Stream(u) \in Streams(u)
        /\ BeforePing(u) => Stream(u) = <<>> /\ u \notin Registered
        /\ AtPlace(u, "timer") => Sn[u[1]] # Target /\ ~ QueryIsDue(u)
        /\ PingIsDue(u) => u \notin Registered
        /\ QueryIsDue(u) => Sn[u[1]] # Target
    BY DEF OnceInv, StreamInv
  <2>3. CASE u # s
    BY <1>6, <2>1, <2>2, <2>3, SameStream
  <2>4. CASE u = s
    <3>1. ~ BeforePing(s)
      BY <2>2, <2>4
    <3>2. ~ PingIsDue(s)'
      <4>1. PingIsDue(s)' <=> Stream(s)' \in {<<Ping(s)>>, <<Ping(s), Query(s)>>}
        BY DEF PingIsDue, Ping, Query
      <4>2. /\ <<Query(s)>> # <<Ping(s)>> /\ <<Query(s)>> # <<Ping(s), Query(s)>>
            /\ <<>> # <<Ping(s)>> /\ <<>> # <<Ping(s), Query(s)>>
        BY PingIsNotQuery, Tuples
      <4> QED
        BY <4>1, <4>2, <1>1
    <3>3. QueryIsDue(s)' => QueryIsDue(s)
      BY <1>1, NothingDue
    <3>4. Stream(s)' \in Streams(s)'
      BY <1>1 DEF Streams, Query
    <3> QED
      BY <2>1, <2>2, <2>4, <3>1, <3>2, <3>3, <3>4
  <2> QED
    BY <2>3, <2>4
<1> QED
  BY <1>4, <1>6, <1>7, <1>8 DEF OnceInv

\* A step of the server: it takes a message, or nothing that matters here.
LEMMA OnceServer ==
  ASSUME OnceInv, TypeOK', ServerNext, UNCHANGED peerVars
  PROVE  OnceInv'
<1>0. start' = start /\ pc' = pc
  BY DEF peerVars
<1> PICK b \in Slots :
      \/ \E s \in Session : listener_cb(s, b)
      \/ \E k \in Coalesced : conn_read_cb(b, k)
      \/ conn_event_cb(b)
  BY DEF ServerNext
<1>1. CASE \E s \in Session : listener_cb(s, b)
  <2>1. UNCHANGED <<devices, input, wire>>
    BY <1>1 DEF listener_cb
  <2>2. \A s \in Session : Stream(s)' = Stream(s)
    BY <2>1 DEF Stream
  <2> QED
    BY <1>0, <2>1, <2>2, OnceFrame
<1>2. ASSUME NEW k \in Coalesced, conn_read_cb(b, k) PROVE OnceInv'
  <2>0. PICK s \in Session : s = bevs[b]
    BY <1>2 DEF conn_read_cb, OnceInv, TypeOK, ServerTypeOK
  <2>1. /\ Stream(s) # <<>> /\ Stream(s)' = Tail(Stream(s))
        /\ \A u \in Session : u # s => Stream(u)' = Stream(u)
    BY <1>2, <2>0, StreamShrinks DEF OnceInv
  <2>2. LET m == Head(Stream(s)) IN
        \/ m.cmd = "PING" /\ process_ping_cmd(b, m)
        \/ m.cmd = "QUERY_DEVICE_INFO_REQUEST" /\ process_query_device_info_cmd(b, m)
    BY <1>2, <2>0, StreamShrinks DEF OnceInv
  <2>3. CASE Head(Stream(s)).cmd = "PING" /\ process_ping_cmd(b, Head(Stream(s)))
    BY <2>0, <2>1, <2>3, OncePing
  <2>4. CASE /\ Head(Stream(s)).cmd = "QUERY_DEVICE_INFO_REQUEST"
             /\ process_query_device_info_cmd(b, Head(Stream(s)))
    <3>1. devices' = devices
      BY <2>4 DEF process_query_device_info_cmd
    <3>2. Stream(s)' = <<>>
      BY <2>1, <2>4, FirstOfStream DEF OnceInv, StreamInv
    <3> QED
      BY <1>0, <2>1, <3>1, <3>2, OnceFrame
  <2> QED
    BY <2>2, <2>3, <2>4
<1>3. CASE conn_event_cb(b)
  <2>1. /\ bevs[b] \in Session /\ devices' = devices
        /\ wire' = [wire EXCEPT ![bevs[b]] = <<>>] /\ input' = [input EXCEPT ![bevs[b]] = <<>>]
        /\ wire \in [Session -> Seq(Request)] /\ input \in [Session -> Seq(Request)]
    BY <1>3 DEF conn_event_cb, OnceInv, TypeOK, ServerTypeOK
  <2>2. ASSUME NEW u \in Session PROVE Stream(u)' \in {Stream(u), <<>>}
    <3>1. CASE u = bevs[b]
      <4>1. wire'[u] = <<>> /\ input'[u] = <<>>
        BY <2>1, <3>1
      <4> QED
        BY <4>1 DEF Stream
    <3>2. CASE u # bevs[b]
      BY <2>1, <3>2 DEF Stream
    <3> QED
      BY <3>1, <3>2
  <2> QED
    BY <1>0, <2>1, <2>2, OnceFrame
<1> QED
  BY <1>1, <1>2, <1>3

\* A peer is started: its new session is not used yet.
LEMMA OnceConnect ==
  ASSUME OnceInv, TypeOK', NEW p \in Peers, connect_server(p)
  PROVE  OnceInv'
<1>1. /\ UNCHANGED <<devices, input, wire>>
      /\ start' = [start EXCEPT ![p] = start[p] + 1] /\ start \in [Peers -> Nat]
      /\ pc' = [pc EXCEPT ![p] = "connected"] /\ DOMAIN pc = Peers
  BY DEF connect_server, OnceInv, TypeOK
<1>2. Registered' = Registered
  BY <1>1 DEF Registered
<1>3. EntryInv'
  BY <1>1 DEF OnceInv, EntryInv
<1>4. ASSUME NEW s \in Session
      PROVE  /\ BeforePing(s)' => BeforePing(s)
             /\ AtPlace(s, "timer")' => AtPlace(s, "timer")
             /\ Stream(s)' = Stream(s)
  <2>1. s[1] \in Peers /\ s[2] \in Nat
    BY DEF Session
  <2> QED
    BY <1>1, <2>1 DEF BeforePing, AtPlace, Stream
<1>5. ASSUME NEW s \in Session
      PROVE  /\ Stream(s)' \in Streams(s)'
             /\ BeforePing(s)' => Stream(s)' = <<>> /\ s \notin Registered'
             /\ AtPlace(s, "timer")' => Sn[s[1]] # Target /\ ~ QueryIsDue(s)'
             /\ PingIsDue(s)' => s \notin Registered'
             /\ QueryIsDue(s)' => Sn[s[1]] # Target
  BY <1>2, <1>4, SameStream DEF OnceInv, StreamInv
<1> QED
  BY <1>3, <1>5 DEF OnceInv, StreamInv

\* The query of a peer's second timer goes behind what its session has sent before.
LEMMA QueryIsSent ==
  ASSUME OnceInv, NEW p \in Peers, user_cb(p), NEW s \in Session, s = Now(p)
  PROVE  /\ \/ Stream(s) = <<>> /\ Stream(s)' = <<Query(s)>>
            \/ Stream(s) = <<Ping(s)>> /\ Stream(s)' = <<Ping(s), Query(s)>>
         /\ \A u \in Session : u # s => Stream(u)' = Stream(u)
<1>1. s[1] = p /\ s[2] = start[p]
  BY DEF Now
<1>2. Send(s, Query(s)) /\ AtPlace(s, "timer") /\ UNCHANGED input /\ Query(s) \in Request
  BY <1>1 DEF user_cb, Query, AtPlace, Request
<1>3. Stream(s) \in {<<>>, <<Ping(s)>>}
  BY <1>2 DEF OnceInv, StreamInv, Streams, QueryIsDue
<1>4. /\ Stream(s)' = Append(Stream(s), Query(s))
      /\ \A u \in Session : u # s => Stream(u)' = Stream(u)
  BY <1>2, StreamGrows DEF OnceInv
<1>5. Append(<<>>, Query(s)) = <<Query(s)>>
  BY PingIsNotQuery, Tuples
<1>6. Append(<<Ping(s)>>, Query(s)) = <<Ping(s), Query(s)>>
  BY PingIsNotQuery, Tuples
<1>7. CASE Stream(s) = <<>>
  BY <1>4, <1>5, <1>7
<1>8. CASE Stream(s) = <<Ping(s)>>
  BY <1>4, <1>6, <1>8
<1> QED
  BY <1>3, <1>4, <1>7, <1>8

\* What a peer's timers send: the ping of a session that is not used yet, or the
\* query of a session that is at its second timer.
LEMMA OnceSend ==
  ASSUME OnceInv, TypeOK', NEW p \in Peers, ping_cb(p) \/ user_cb(p)
  PROVE  OnceInv'
<1>1. PICK s \in Session : s = Now(p)
  BY NowIsSession DEF ping_cb, user_cb, OnceInv
<1>2. s[1] = p /\ s[2] = start[p]
  BY <1>1 DEF Now
<1>3. UNCHANGED <<devices, start, input>> /\ DOMAIN pc = Peers
  BY DEF ping_cb, user_cb, OnceInv, TypeOK
<1>4. Registered' = Registered
  BY <1>3 DEF Registered
<1>5. EntryInv'
  BY <1>3 DEF OnceInv, EntryInv
<1>6. Ping(s) \in Request /\ Query(s) \in Request
  BY <1>2 DEF Ping, Query, Request
<1>7. /\ Stream(s) \in Streams(s)
      /\ BeforePing(s) => Stream(s) = <<>> /\ s \notin Registered
      /\ AtPlace(s, "timer") => Sn[p] # Target /\ ~ QueryIsDue(s)
      /\ PingIsDue(s) => s \notin Registered
  BY <1>2 DEF OnceInv, StreamInv
<1>8. CASE ping_cb(p)
  <2>1. /\ Send(s, Ping(s)) /\ AtPlace(s, "connected")
        /\ pc' = [pc EXCEPT ![p] = IF Sn[p] = Target THEN "serving" ELSE "timer"]
    BY <1>1, <1>2, <1>8 DEF ping_cb, Ping, AtPlace
  <2>2. Stream(s) = <<>> /\ s \notin Registered
    BY <2>1, <1>7 DEF BeforePing
  <2>3. /\ Stream(s)' = <<Ping(s)>>
        /\ \A u \in Session : u # s => Stream(u)' = Stream(u)
    <3>1. /\ Stream(s)' = Append(Stream(s), Ping(s))
          /\ \A u \in Session : u # s => Stream(u)' = Stream(u)
      BY <2>1, <1>3, <1>6, StreamGrows DEF OnceInv
    <3>2. Append(<<>>, Ping(s)) = <<Ping(s)>>
      BY PingIsNotQuery, Tuples
    <3> QED
      BY <2>2, <3>1, <3>2
  <2>4. Stream(s)' \in Streams(s)' /\ ~ QueryIsDue(s)'
    <3>1. /\ <<Ping(s)>> # <<Query(s)>> /\ <<Ping(s)>> # <<Ping(s), Query(s)>>
      BY PingIsNotQuery, Tuples
    <3>2. QueryIsDue(s)' <=> Stream(s)' \in {<<Query(s)>>, <<Ping(s), Query(s)>>}
      BY DEF QueryIsDue, Ping, Query
    <3>3. Streams(s)' = Streams(s)
      BY DEF Streams, Ping, Query
    <3> QED
      BY <2>3, <3>1, <3>2, <3>3 DEF Streams
  <2>5. ~ BeforePing(s)' /\ (AtPlace(s, "timer")' => Sn[p] # Target)
    BY <1>2, <1>3, <2>1 DEF BeforePing, AtPlace, OnceInv, TypeOK
  <2>6. ASSUME NEW u \in Session, u # s
        PROVE  /\ Stream(u)' = Stream(u) /\ (BeforePing(u)' => BeforePing(u))
               /\ AtPlace(u, "timer")' => AtPlace(u, "timer")
    BY <1>2, <1>3, <2>1, <2>3, <2>6 DEF BeforePing, AtPlace, Session
  <2>7. ASSUME NEW u \in Session
        PROVE  /\ Stream(u)' \in Streams(u)'
               /\ BeforePing(u)' => Stream(u)' = <<>> /\ u \notin Registered'
               /\ AtPlace(u, "timer")' => Sn[u[1]] # Target /\ ~ QueryIsDue(u)'
               /\ PingIsDue(u)' => u \notin Registered'
               /\ QueryIsDue(u)' => Sn[u[1]] # Target
    <3>1. CASE u = s
      BY <3>1, <1>2, <1>4, <2>2, <2>4, <2>5
    <3>2. CASE u # s
      BY <3>2, <1>4, <2>6, SameStream DEF OnceInv, StreamInv
    <3> QED
      BY <3>1, <3>2
  <2> QED
    BY <1>5, <2>7 DEF OnceInv, StreamInv
<1>9. CASE user_cb(p)
  <2>1. /\ Send(s, Query(s)) /\ AtPlace(s, "timer")
        /\ pc' = [pc EXCEPT ![p] = "recv"]
    BY <1>1, <1>2, <1>9 DEF user_cb, Query, AtPlace
  <2>2. Stream(s) \in {<<>>, <<Ping(s)>>} /\ Sn[p] # Target
    BY <2>1, <1>7 DEF Streams, QueryIsDue
  <2>3. \A u \in Session : u # s => Stream(u)' = Stream(u)
    BY <1>1, <1>9, QueryIsSent
  <2>4. \/ Stream(s) = <<>> /\ Stream(s)' = <<Query(s)>>
        \/ Stream(s) = <<Ping(s)>> /\ Stream(s)' = <<Ping(s), Query(s)>>
    BY <1>1, <1>9, QueryIsSent
  <2>5. Stream(s)' \in Streams(s)' /\ (PingIsDue(s)' => PingIsDue(s))
    <3>1. /\ <<Query(s)>> # <<Ping(s)>> /\ <<Query(s)>> # <<Ping(s), Query(s)>>
      BY PingIsNotQuery, Tuples
    <3>2. PingIsDue(s)' <=> Stream(s)' \in {<<Ping(s)>>, <<Ping(s), Query(s)>>}
      BY DEF PingIsDue, Ping, Query
    <3>3. Streams(s)' = Streams(s)
      BY DEF Streams, Ping, Query
    <3> QED
      BY <2>4, <3>1, <3>2, <3>3 DEF Streams, PingIsDue
  <2>6. ~ BeforePing(s)' /\ ~ AtPlace(s, "timer")'
    BY <1>2, <1>3, <2>1 DEF BeforePing, AtPlace, OnceInv, TypeOK
  <2>7. ASSUME NEW u \in Session, u # s
        PROVE  /\ Stream(u)' = Stream(u) /\ (BeforePing(u)' => BeforePing(u))
               /\ AtPlace(u, "timer")' => AtPlace(u, "timer")
    BY <1>2, <1>3, <2>1, <2>3, <2>7 DEF BeforePing, AtPlace, Session
  <2>8. ASSUME NEW u \in Session
        PROVE  /\ Stream(u)' \in Streams(u)'
               /\ BeforePing(u)' => Stream(u)' = <<>> /\ u \notin Registered'
               /\ AtPlace(u, "timer")' => Sn[u[1]] # Target /\ ~ QueryIsDue(u)'
               /\ PingIsDue(u)' => u \notin Registered'
               /\ QueryIsDue(u)' => Sn[u[1]] # Target
    <3>1. CASE u = s
      BY <3>1, <1>2, <1>4, <1>7, <2>2, <2>5, <2>6
    <3>2. CASE u # s
      BY <3>2, <1>4, <2>7, SameStream DEF OnceInv, StreamInv
    <3> QED
      BY <3>1, <3>2
  <2> QED
    BY <1>5, <2>8 DEF OnceInv, StreamInv
<1> QED
  BY <1>8, <1>9

LEMMA OnceStep == OnceInv /\ [Next]_vars => OnceInv'
<1> SUFFICES ASSUME OnceInv, [Next]_vars PROVE OnceInv'
  OBVIOUS
<1>0. TypeOK'
  BY TypeStep DEF OnceInv
<1>1. ASSUME UNCHANGED <<devices, start, input, wire>>,
             \A p \in Peers : pc'[p] = pc[p] \/ pc'[p] \in {"done", "off"}
      PROVE  OnceInv'
  <2>1. \A s \in Session : Stream(s)' = Stream(s)
    BY <1>1 DEF Stream
  <2> QED
    BY <1>0, <1>1, <2>1, OnceFrame
<1>2. ASSUME NEW p \in Peers, RecvAnswer(p) \/ LoseServer(p) \/ PunchHole(p) \/ Kill(p)
      PROVE  OnceInv'
  <2>1. UNCHANGED <<devices, start, input, wire>>
    BY <1>2 DEF RecvAnswer, LoseServer, PunchHole, Kill, serverVars, net
  <2>2. \A q \in Peers : pc'[q] = pc[q] \/ pc'[q] \in {"done", "off"}
    BY <1>2 DEF RecvAnswer, LoseServer, PunchHole, Kill, OnceInv, TypeOK
  <2> QED
    BY <1>1, <2>1, <2>2
<1>3. CASE UNCHANGED vars
  BY <1>1, <1>3 DEF vars, serverVars, net, peerVars
<1> QED
  BY <1>0, <1>2, <1>3, OnceServer, OnceConnect, OnceSend DEF Next, PeerNext

\* A session pings once and asks at most once, after it has pinged.
LEMMA OnceInvariant == Spec => []OnceInv
  BY OnceInit, OnceStep, PTL DEF Spec
-----------------------------------------------------------------------------
(* Which entries a query finds.                                              *)

\* The entries of a device that come before entry i, as num counts them.
Before(sn, i) == {j \in Entries(sn) : j < i}

LEMMA EntriesFinite ==
  ASSUME ServerTypeOK, NEW sn
  PROVE  /\ Entries(sn) \subseteq 1..Len(devices) /\ Len(devices) \in Nat
         /\ \A i : /\ IsFiniteSet(Before(sn, i))
                   /\ Cardinality(Before(sn, i)) \in Nat
<1>1. DOMAIN devices = 1..Len(devices) /\ Len(devices) \in Nat
  BY DEF ServerTypeOK
<1>2. Entries(sn) \subseteq 1..Len(devices) /\ IsFiniteSet(1..Len(devices))
  BY <1>1, FS_Interval DEF Entries
<1>3. ASSUME NEW i PROVE IsFiniteSet(Before(sn, i))
  <2>1. Before(sn, i) \in SUBSET (1..Len(devices))
    BY <1>2 DEF Before
  <2> QED
    BY <2>1, <1>2, FS_Subset
<1> QED
  BY <1>1, <1>2, <1>3, FS_CardinalityType

\* num in terms of Before.
LEMMA NumIs ==
  ASSUME NEW src, NEW sn, NEW i
  PROVE  Num(src, sn, i) = Cardinality(Before(sn, i)) + Cardinality(Before(src, i))
BY DEF Num, Before

LEMMA CountsElements ==
  ASSUME NEW S, IsFiniteSet(S)
  PROVE  /\ \A x \in S : Cardinality(S) >= 1
         /\ \A x, y \in S : x # y => Cardinality(S) >= 2
         /\ \A x : S \subseteq {x} => Cardinality(S) <= 1
<1>1. ASSUME NEW x \in S PROVE Cardinality(S) >= 1
  BY <1>1, FS_EmptySet, FS_CardinalityType
<1>2. ASSUME NEW x \in S, NEW y \in S, x # y PROVE Cardinality(S) >= 2
  <2>1. IsFiniteSet({x}) /\ Cardinality({x}) = 1
    BY FS_Singleton
  <2>2. IsFiniteSet({x} \cup {y}) /\ Cardinality({x} \cup {y}) = 2
    <3>1. y \notin {x}
      BY <1>2
    <3>2. /\ IsFiniteSet({x} \cup {y})
          /\ Cardinality({x} \cup {y}) = IF y \in {x} THEN Cardinality({x})
                                         ELSE Cardinality({x}) + 1
      BY ONLY <2>1, FS_AddElement, Zenon
    <3> QED
      BY ONLY <2>1, <3>1, <3>2
  <2>3. {x} \cup {y} \in SUBSET S
    OBVIOUS
  <2> QED
    BY <2>2, <2>3, FS_Subset, FS_CardinalityType
<1>3. ASSUME NEW x, S \subseteq {x} PROVE Cardinality(S) <= 1
  <2>1. IsFiniteSet({x}) /\ Cardinality({x}) = 1
    BY FS_Singleton
  <2> QED
    BY <2>1, <1>3, FS_Subset
<1> QED
  BY <1>1, <1>2, <1>3

\* list_add puts the newest entry of a device first: it is the smallest index.
LEMMA NewestExists ==
  ASSUME ServerTypeOK, NEW sn, Entries(sn) # {}
  PROVE  \E m \in Entries(sn) : \A j \in Entries(sn) : m <= j
<1>1. Entries(sn) \subseteq Nat
  BY EntriesFinite
<1>2. PICK m \in Entries(sn) : \A y \in Entries(sn) : ~ (<<y, m>> \in OpToRel(<, Nat))
  BY <1>1, NatLessThanWellFounded, WFMin, Zenon
<1>3. \A y \in Entries(sn) : ~ (y < m)
  BY <1>1, <1>2 DEF OpToRel
<1> QED
  BY <1>1, <1>3

LEMMA NewestIs ==
  ASSUME ServerTypeOK, NEW sn, NEW m \in Entries(sn), \A j \in Entries(sn) : m <= j
  PROVE  Newest(sn) = devices[m].addr
<1>1. Entries(sn) \subseteq Nat
  BY EntriesFinite
<1>2. \A i \in Entries(sn) : (\A j \in Entries(sn) : i <= j) => i = m
  BY <1>1
<1> QED
  BY <1>2 DEF Newest

\* With one entry of the querier and at most one of the target before it, the scan
\* of the list comes to one entry of the target, the newest.
LEMMA ScanFindsNewest ==
  ASSUME ServerTypeOK, NEW src, NEW sn, NEW i, Entries(src) = {i},
         Cardinality(Before(sn, i)) <= 1,
         Scanned(src, sn) \cap Entries(sn) # {}
  PROVE  devices[LastOf(Scanned(src, sn) \cap Entries(sn))].addr = Newest(sn)
<1> DEFINE dst == Scanned(src, sn) \cap Entries(sn)
<1>1. PICK m \in Entries(sn) : \A j \in Entries(sn) : m <= j
  BY NewestExists
<1>2. /\ Entries(sn) \subseteq 1..Len(devices) /\ Len(devices) \in Nat
      /\ i \in 1..Len(devices)
      /\ \A j : /\ IsFiniteSet(Before(sn, j)) /\ IsFiniteSet(Before(src, j))
                /\ Cardinality(Before(sn, j)) \in Nat /\ Cardinality(Before(src, j)) \in Nat
  BY EntriesFinite
<1>3. ASSUME NEW j \in dst PROVE j = m
  <2>1. SUFFICES ASSUME j # m PROVE FALSE
    OBVIOUS
  <2>2. m < j /\ j \in Entries(sn)
    BY <1>1, <1>2, <2>1
  <2>3. Cardinality(Before(sn, j)) + Cardinality(Before(src, j)) < 2
    BY NumIs DEF Scanned
  <2>4. m \in Before(sn, j)
    BY <2>2 DEF Before
  <2>5. Cardinality(Before(sn, j)) >= 1
    BY <1>2, <2>4, CountsElements
  <2>6. CASE i < j
    <3>1. i \in Before(src, j)
      BY <2>6 DEF Before
    <3>2. Cardinality(Before(src, j)) >= 1
      BY <1>2, <3>1, CountsElements
    <3> QED
      BY <1>2, <2>3, <2>5, <3>2
  <2>7. CASE j < i
    <3>1. m \in Before(sn, i) /\ j \in Before(sn, i)
      BY <1>2, <2>2, <2>7 DEF Before
    <3>2. Cardinality(Before(sn, i)) >= 2
      BY <1>2, <2>1, <3>1, CountsElements
    <3> QED
      BY <1>2, <3>2
  <2>8. CASE i = j
    <3>1. src = sn
      BY <2>2, <2>8 DEF Entries
    <3> QED
      BY <1>1, <2>1, <2>2, <3>1
  <2> QED
    BY <1>2, <2>2, <2>6, <2>7, <2>8
<1>4. dst = {m}
  BY <1>3
<1>5. LastOf(dst) = m
  BY <1>1, <1>2, <1>4 DEF LastOf
<1> QED
  BY <1>1, <1>5, NewestIs

\* What WriteTo puts where.
LEMMA Written ==
  ASSUME ServerTypeOK, NEW q \in [Session -> Seq(Reply)], NEW b \in Slots, NEW m \in Reply,
         NEW u \in Session
  PROVE  WriteTo(q, b, m)[u] = IF bevs[b] = u THEN Append(q[u], m) ELSE q[u]
<1>1. CASE bevs[b] = None
  BY <1>1 DEF WriteTo
<1>2. CASE bevs[b] # None
  <2>1. bevs[b] \in Session
    BY <1>2 DEF ServerTypeOK
  <2> QED
    BY <1>2, <2>1 DEF WriteTo
<1> QED
  BY <1>1, <1>2

\* What process_query_device_info_cmd works with.
Dst(query) == Scanned(query.src, query.sn) \cap Entries(query.sn)
Src(query) == Scanned(query.src, query.sn) \cap Entries(query.src)
Found(query) == devices[LastOf(Dst(query))]
PunchMessage(query) ==
  [cmd |-> "PUNCH_HOLE",
   addr |-> IF Src(query) = {} THEN None ELSE devices[LastOf(Src(query))].addr]
Response(query) == [cmd |-> "QUERY_DEVICE_INFO_RESPONSE", addr |-> Found(query).addr]

\* What the connections carry when a query from b is answered.
Punched(query, u) ==
  IF bevs[Found(query).pbev] = u THEN Append(down[u], PunchMessage(query)) ELSE down[u]
AnswersTo(b, query) ==
  \A u \in Session :
    /\ Punched(query, u) \in Seq(Reply)
    /\ down'[u] = IF bevs[b] = u THEN Append(Punched(query, u), Response(query))
                  ELSE Punched(query, u)

\* The ways a query ends: the assertion fails, it is answered, or the bufferevent of
\* the entry found has been freed and nothing is sent.
LEMMA QueryCases ==
  ASSUME ServerTypeOK, NEW b \in Slots, NEW query,
         process_query_device_info_cmd(b, query)
  PROVE  /\ Dst(query) # {} =>
              /\ LastOf(Dst(query)) \in Dst(query) /\ Found(query) \in Device
              /\ PunchMessage(query) \in Reply /\ Response(query) \in Reply
         /\ Src(query) # {} => LastOf(Src(query)) \in Src(query)
         /\ \/ Dst(query) = {} /\ server' = "aborted" /\ down' = down
            \/ Dst(query) # {} /\ server' = server /\ AnswersTo(b, query)
            \/ /\ Dst(query) # {} /\ bevs[Found(query).pbev] = None
               /\ server' \in {"up", "crashed"} /\ down' = down
<1>1. /\ DOMAIN devices = 1..Len(devices) /\ Len(devices) \in Nat
      /\ \A i \in 1..Len(devices) : devices[i] \in Device
      /\ down \in [Session -> Seq(Reply)]
  BY DEF ServerTypeOK
<1>2. Dst(query) \subseteq 1..Len(devices) /\ Src(query) \subseteq 1..Len(devices)
  BY <1>1 DEF Dst, Src, Entries
<1>3. /\ Dst(query) # {} => LastOf(Dst(query)) \in Dst(query)
      /\ Src(query) # {} => LastOf(Src(query)) \in Src(query)
  BY <1>1, <1>2, LastExists
<1>4. \/ Dst(query) = {} /\ NotFound
      \/ /\ Dst(query) # {} /\ UNCHANGED server
         /\ down' = WriteTo(WriteTo(down, Found(query).pbev, PunchMessage(query)), b, Response(query))
      \/ /\ Dst(query) # {} /\ bevs[Found(query).pbev] = None
         /\ server' \in {"up", "crashed"} /\ UNCHANGED down
  BY DEF process_query_device_info_cmd, Dst, Src, Found, PunchMessage, Response
<1>5. ASSUME Dst(query) # {}
      PROVE  /\ Found(query) \in Device
             /\ PunchMessage(query) \in Reply /\ Response(query) \in Reply
  <2>1. Found(query) \in Device
    BY <1>1, <1>2, <1>3, <1>5 DEF Found
  <2>2. PunchMessage(query).addr \in Session \cup {None}
    <3>1. Src(query) # {} => devices[LastOf(Src(query))].addr \in Session
      BY <1>1, <1>2, <1>3 DEF Device
    <3> QED
      BY <3>1 DEF PunchMessage
  <2> QED
    BY <2>1, <2>2 DEF PunchMessage, Response, Reply, Device
<1>6. ASSUME Dst(query) # {},
             down' = WriteTo(WriteTo(down, Found(query).pbev, PunchMessage(query)), b, Response(query))
      PROVE  AnswersTo(b, query)
  <2> DEFINE pbev == Found(query).pbev
             punch == PunchMessage(query)
             response == Response(query)
             once == WriteTo(down, pbev, punch)
  <2>1. pbev \in Slots /\ punch \in Reply /\ response \in Reply
    BY <1>5, <1>6 DEF Device
  <2>2. down' = WriteTo(once, b, response)
    BY <1>6
  <2>3. \A u : Punched(query, u) = IF bevs[pbev] = u THEN Append(down[u], punch) ELSE down[u]
    BY DEF Punched
  <2> HIDE DEF pbev, punch, response
  <2>4. once \in [Session -> Seq(Reply)]
    BY <1>1, <2>1, WriteToType
  <2>5. ASSUME NEW u \in Session
        PROVE  once[u] = Punched(query, u)
    <3>1. once[u] = IF bevs[pbev] = u THEN Append(down[u], punch) ELSE down[u]
      BY <1>1, <2>1, Written
    <3> HIDE DEF once
    <3> QED
      BY <2>3, <3>1
  <2> HIDE DEF once
  <2>6. ASSUME NEW u \in Session
        PROVE  down'[u] = IF bevs[b] = u THEN Append(once[u], response) ELSE once[u]
    BY <2>1, <2>2, <2>4, Written
  <2> QED
    BY <2>4, <2>5, <2>6 DEF AnswersTo, response
<1> QED
  BY <1>3, <1>4, <1>5, <1>6 DEF NotFound

\* Only a query that is taken sends anything, and it is one the session sends.
LEMMA OnlyQueriesSend ==
  ASSUME OnceInv, Next, NEW s \in Session, Len(down'[s]) > Len(down[s])
  PROVE  \E b \in Slots : /\ bevs[b] \in Session
                          /\ process_query_device_info_cmd(b, Query(bevs[b]))
                          /\ AnswersTo(b, Query(bevs[b])) /\ Dst(Query(bevs[b])) # {}
<1>1. down \in [Session -> Seq(Reply)]
  BY DEF OnceInv, TypeOK, ServerTypeOK
<1>2. down'[s] # down[s]
  <2>1. Len(down[s]) \in Nat
    BY <1>1
  <2> QED
    BY <2>1
<1>3. ASSUME NEW b \in Slots, NEW k \in Coalesced, conn_read_cb(b, k)
      PROVE  /\ bevs[b] \in Session
             /\ process_query_device_info_cmd(b, Query(bevs[b]))
             /\ AnswersTo(b, Query(bevs[b])) /\ Dst(Query(bevs[b])) # {}
  <2>0. PICK u \in Session : u = bevs[b]
    BY <1>3 DEF conn_read_cb, OnceInv, TypeOK, ServerTypeOK
  <2> DEFINE m == Head(Stream(u))
  <2>1. /\ Stream(u) # <<>>
        /\ \/ m.cmd = "PING" /\ process_ping_cmd(b, m)
           \/ m.cmd = "QUERY_DEVICE_INFO_REQUEST" /\ process_query_device_info_cmd(b, m)
    BY <1>3, <2>0, StreamShrinks DEF OnceInv
  <2>2. m.cmd = "QUERY_DEVICE_INFO_REQUEST" /\ process_query_device_info_cmd(b, m)
    BY <1>2, <2>1 DEF process_ping_cmd
  <2>3. m = Query(u)
    BY <2>1, <2>2, FirstOfStream DEF OnceInv, StreamInv
  <2>4. process_query_device_info_cmd(b, Query(u))
    BY <2>2, <2>3
  <2>5. AnswersTo(b, Query(u)) /\ Dst(Query(u)) # {}
    BY <1>2, <2>4, QueryCases DEF OnceInv, TypeOK
  <2> QED
    BY <2>0, <2>4, <2>5
<1>4. ASSUME NEW p \in Peers, RecvAnswer(p) \/ PunchHole(p) PROVE FALSE
  <2>1. /\ Now(p) \in Session /\ down[Now(p)] # <<>>
        /\ down' = [down EXCEPT ![Now(p)] = Tail(@)]
    BY <1>4, NowIsSession DEF RecvAnswer, PunchHole, Running, OnceInv
  <2>2. s = Now(p) /\ down'[s] = Tail(down[s])
    BY <1>1, <1>2, <2>1
  <2>3. Len(Tail(down[s])) = Len(down[s]) - 1 /\ Len(down[s]) \in Nat
    BY <1>1, <2>1, <2>2, HeadTailProperties
  <2> QED
    BY <2>2, <2>3
<1>5. ASSUME NEW p \in Peers, Kill(p) PROVE FALSE
  <2>1. Now(p) \in Session /\ down' = [down EXCEPT ![Now(p)] = <<>>]
    BY <1>5, NowIsSession DEF Kill, OnceInv
  <2>2. down'[s] = <<>>
    BY <1>1, <1>2, <2>1
  <2>3. Len(down'[s]) = 0 /\ Len(down[s]) \in Nat
    BY <1>1, <2>2
  <2> QED
    BY <2>3
<1>6. ASSUME NEW p \in Peers,
             connect_server(p) \/ ping_cb(p) \/ user_cb(p) \/ LoseServer(p)
      PROVE  FALSE
  BY <1>2, <1>6 DEF connect_server, ping_cb, user_cb, LoseServer, serverVars, net
<1>7. ASSUME NEW b \in Slots, (\E u \in Session : listener_cb(u, b)) \/ conn_event_cb(b)
      PROVE  FALSE
  BY <1>2, <1>7 DEF listener_cb, conn_event_cb
<1> QED
  BY <1>3, <1>4, <1>5, <1>6, <1>7 DEF Next, ServerNext, PeerNext

\* Whatever the history of the list, with stale entries and memory used again: if the
\* querier has one entry, and at most one of the target is newer than it, the endpoint
\* told is the newest the target has registered.
THEOREM NewestEndpointIsTold == Spec => NewestIsTold
<1> DEFINE Told(s) ==
      /\ Len(down'[s]) > Len(down[s])
      /\ down'[s][Len(down'[s])].cmd = "QUERY_DEVICE_INFO_RESPONSE"
      /\ QuerierOnce(s)
      => down'[s][Len(down'[s])].addr = Newest(Target)
<1>1. ASSUME OnceInv, Next, NEW s \in Session PROVE Told(s)
  <2> SUFFICES ASSUME Len(down'[s]) > Len(down[s]),
                      down'[s][Len(down'[s])].cmd = "QUERY_DEVICE_INFO_RESPONSE",
                      QuerierOnce(s)
               PROVE  down'[s][Len(down'[s])].addr = Newest(Target)
    OBVIOUS
  <2>1. PICK b \in Slots : /\ bevs[b] \in Session
                           /\ process_query_device_info_cmd(b, Query(bevs[b]))
                           /\ AnswersTo(b, Query(bevs[b])) /\ Dst(Query(bevs[b])) # {}
    BY <1>1, OnlyQueriesSend
  <2> DEFINE query == Query(bevs[b])
  <2>2. /\ PunchMessage(query) \in Reply /\ Response(query) \in Reply
        /\ PunchMessage(query).cmd = "PUNCH_HOLE" /\ Response(query).addr = Found(query).addr
    BY <1>1, <2>1, QueryCases DEF OnceInv, TypeOK, PunchMessage, Response
  <2>3. down[s] \in Seq(Reply) /\ Punched(query, s) \in Seq(Reply)
    BY <1>1, <2>1 DEF AnswersTo, OnceInv, TypeOK, ServerTypeOK
  <2>4. bevs[b] = s
    <3> SUFFICES ASSUME bevs[b] # s PROVE FALSE
      OBVIOUS
    <3>1. down'[s] = Punched(query, s)
      BY <2>1 DEF AnswersTo
    <3>2. Punched(query, s) = Append(down[s], PunchMessage(query))
      BY <2>3, <3>1 DEF Punched
    <3>3. down'[s][Len(down'[s])] = PunchMessage(query)
      <4> HIDE DEF query
      <4> QED
        BY <2>2, <2>3, <3>1, <3>2, AppendProperties
    <3> QED
      BY <2>2, <3>3
  <2>5. down'[s][Len(down'[s])] = Response(query)
    <3>1. down'[s] = Append(Punched(query, s), Response(query))
      BY <2>1, <2>4 DEF AnswersTo
    <3> HIDE DEF query
    <3> QED
      BY <2>2, <2>3, <3>1, AppendProperties
  <2>6. query.src = Sn[s[1]] /\ query.sn = Target
    BY <2>4 DEF Query
  <2>7. PICK i : Entries(Sn[s[1]]) = {i} /\ Cardinality(Before(Target, i)) <= 1
    BY DEF QuerierOnce, Before
  <2>8. Scanned(Sn[s[1]], Target) \cap Entries(Target) # {}
    BY <2>1, <2>6 DEF Dst
  <2>9. Found(query).addr = Newest(Target)
    <3>1. devices[LastOf(Scanned(Sn[s[1]], Target) \cap Entries(Target))].addr = Newest(Target)
      BY <1>1, <2>7, <2>8, ScanFindsNewest DEF OnceInv, TypeOK
    <3> QED
      BY <2>6, <3>1 DEF Found, Dst
  <2> QED
    BY <2>2, <2>5, <2>9
<1>2. OnceInv /\ [Next]_vars => [\A s \in Session : Told(s)]_vars
  BY <1>1
<1>3. NewestIsTold <=> [][\A s \in Session : Told(s)]_vars
  BY DEF NewestIsTold
<1> HIDE DEF Told
<1> QED
  BY <1>2, <1>3, OnceInvariant, PTL DEF Spec

\* Each device that asks has a number of its own and is started once.
AskOnce ==
  /\ MaxStarts = 1
  /\ \A p, q \in Peers : Sn[p] = Sn[q] => p = q \/ Sn[p] = Target

\* A number that one device has, started once, has at most one entry.
LEMMA OneEntry ==
  ASSUME MaxStarts = 1, OnceInv, NEW s \in Session,
         \A p \in Peers : Sn[p] = Sn[s[1]] => p = s[1],
         NEW i \in Entries(Sn[s[1]])
  PROVE  Entries(Sn[s[1]]) = {i} /\ devices[i].addr = s
<1>1. ASSUME NEW j \in Entries(Sn[s[1]]) PROVE devices[j].addr = s
  <2>1. j \in DOMAIN devices /\ devices[j].sn = Sn[s[1]]
    BY DEF Entries
  <2>2. devices[j].addr \in Session
    <3>1. devices \in Seq(Device)
      BY DEF OnceInv, TypeOK, ServerTypeOK
    <3>2. devices[j] \in Device
      BY <2>1, <3>1
    <3> QED
      BY <3>2 DEF Device
  <2>3. Sn[devices[j].addr[1]] = Sn[s[1]]
    BY <2>1 DEF OnceInv, EntryInv
  <2>4. devices[j].addr[1] = s[1]
    BY <2>2, <2>3 DEF Session
  <2> QED
    BY <2>2, <2>4 DEF Session
<1>2. ASSUME NEW j \in Entries(Sn[s[1]]) PROVE j = i
  BY <1>1, <1>2 DEF OnceInv, EntryInv, Entries
<1> QED
  BY <1>1, <1>2

\* A query of such a device comes to the newest entry of the device it asks for.
LEMMA QueryFinds ==
  ASSUME AskOnce, OnceInv, NEW s \in Session, Sn[s[1]] # Target, Entries(Target) # {}
  PROVE  Dst(Query(s)) # {}
<1>1. PICK m \in Entries(Target) : \A j \in Entries(Target) : m <= j
  BY NewestExists DEF OnceInv, TypeOK
<1>2. /\ Entries(Target) \subseteq 1..Len(devices) /\ Len(devices) \in Nat
      /\ IsFiniteSet(Before(Sn[s[1]], m)) /\ Cardinality(Before(Sn[s[1]], m)) \in Nat
  BY EntriesFinite DEF OnceInv, TypeOK
<1>3. Before(Target, m) = {}
  BY <1>1, <1>2 DEF Before
<1>4. Cardinality(Before(Sn[s[1]], m)) <= 1
  <2>1. CASE Before(Sn[s[1]], m) = {}
    BY <2>1, FS_EmptySet
  <2>2. ASSUME NEW i \in Before(Sn[s[1]], m) PROVE Cardinality(Before(Sn[s[1]], m)) <= 1
    <3>1. \A p \in Peers : Sn[p] = Sn[s[1]] => p = s[1]
      BY DEF AskOnce, Session
    <3>2. i \in Entries(Sn[s[1]]) /\ MaxStarts = 1
      BY <2>2 DEF Before, AskOnce
    <3>3. Before(Sn[s[1]], m) \subseteq {i}
      BY <3>1, <3>2, OneEntry DEF Before
    <3> QED
      BY <1>2, <3>3, CountsElements
  <2> QED
    BY <2>1, <2>2
<1>5. Num(Sn[s[1]], Target, m) < 2
  <2>1. Num(Sn[s[1]], Target, m)
          = Cardinality(Before(Target, m)) + Cardinality(Before(Sn[s[1]], m))
    BY NumIs
  <2> QED
    BY <1>2, <1>3, <1>4, <2>1, FS_EmptySet
<1>6. m \in Scanned(Sn[s[1]], Target)
  BY <1>1, <1>5 DEF Scanned, Entries
<1> QED
  BY <1>1, <1>6 DEF Dst, Query

LEMMA FoundStep ==
  ASSUME AskOnce, OnceInv, RegisteredIsFound, [Next]_vars
  PROVE  RegisteredIsFound'
<1>1. CASE UNCHANGED <<server, devices>>
  BY <1>1 DEF RegisteredIsFound, Entries
<1>2. ASSUME NEW b \in Slots, NEW k \in Coalesced, conn_read_cb(b, k)
      PROVE  RegisteredIsFound'
  <2>0. PICK u \in Session : u = bevs[b]
    BY <1>2 DEF conn_read_cb, OnceInv, TypeOK, ServerTypeOK
  <2> DEFINE m == Head(Stream(u))
  <2>1. /\ Stream(u) # <<>>
        /\ \/ m.cmd = "PING" /\ process_ping_cmd(b, m)
           \/ m.cmd = "QUERY_DEVICE_INFO_REQUEST" /\ process_query_device_info_cmd(b, m)
    BY <1>2, <2>0, StreamShrinks DEF OnceInv
  <2>2. server = "up"
    BY <1>2 DEF conn_read_cb
  <2>3. CASE process_ping_cmd(b, m)
    BY <2>2, <2>3 DEF process_ping_cmd, RegisteredIsFound
  <2>4. CASE m.cmd = "QUERY_DEVICE_INFO_REQUEST" /\ process_query_device_info_cmd(b, m)
    <3>1. m = Query(u) /\ Sn[u[1]] # Target
      BY <2>1, <2>4, FirstOfStream DEF OnceInv, StreamInv, QueryIsDue
    <3>2. process_query_device_info_cmd(b, Query(u))
      BY <2>4, <3>1
    <3>3. devices' = devices
      BY <3>2 DEF process_query_device_info_cmd
    <3>4. server' = "aborted" => Dst(Query(u)) = {}
      BY <2>2, <3>2, QueryCases DEF OnceInv, TypeOK
    <3> QED
      BY <3>1, <3>3, <3>4, QueryFinds DEF RegisteredIsFound, Entries
  <2> QED
    BY <2>1, <2>3, <2>4
<1>3. ASSUME NEW b \in Slots, (\E s \in Session : listener_cb(s, b)) \/ conn_event_cb(b)
      PROVE  UNCHANGED <<server, devices>>
  BY <1>3 DEF listener_cb, conn_event_cb
<1>4. ASSUME NEW p \in Peers, connect_server(p) \/ PeerNext(p) \/ Kill(p)
      PROVE  UNCHANGED <<server, devices>>
  BY <1>4 DEF connect_server, PeerNext, ping_cb, user_cb, RecvAnswer, LoseServer, PunchHole,
     Kill, serverVars
<1>5. CASE UNCHANGED vars
  BY <1>1, <1>5 DEF vars, serverVars
<1> QED
  BY <1>1, <1>2, <1>3, <1>4, <1>5 DEF Next, ServerNext

\* Where each device that asks has its own number and is started once, however many
\* register as the device they ask for, the server's assertion fails at most when
\* that device has no entry. Devices that come back do make it fail: the finding.
THEOREM RegisteredDevicesAreFound ==
  ASSUME AskOnce
  PROVE  Spec => []RegisteredIsFound
<1>1. Init => RegisteredIsFound
  BY DEF Init, ServerInit, RegisteredIsFound
<1>2. OnceInv /\ RegisteredIsFound /\ [Next]_vars => RegisteredIsFound'
  BY FoundStep
<1> QED
  BY <1>1, <1>2, OnceInvariant, PTL DEF Spec
-----------------------------------------------------------------------------
(* Why who asks does not wait in vain, for any number of devices and         *)
(* restarts: WaitInv, where no read brings more than one message and the     *)
(* device that is asked for stays.                                           *)

TargetStays == Coalesced = {1} /\ \A p \in MayDie : Sn[p] # Target

\* The session is its peer's present one, and the peer is in its event loop or in recv.
Current(s) == s[2] = start[s[1]] /\ pc[s[1]] \in Running \cup {"recv"}

Connected(s) == s \in backlog \/ \E b \in Slots : bevs[b] = s

\* Nothing stays in a buffer, only dead peers close, who lives is connected, and a peer
\* in recv has its query under way or something to receive.
SessionIsServed(s) ==
  /\ input[s] = <<>>
  /\ s \in eof => s[1] \in MayDie /\ s[2] <= start[s[1]] /\ ~ Current(s)
  /\ Current(s) => Connected(s)
  /\ server = "up" /\ AtPlace(s, "recv") => QueryIsDue(s) \/ down[s] # <<>>

TargetIsServed == \A i \in Entries(Target) : bevs[devices[i].pbev] = devices[i].addr

WaitInv == OnceInv /\ (\A s \in Session : SessionIsServed(s)) /\ TargetIsServed

LEMMA WaitInit == Init => WaitInv
<1> SUFFICES ASSUME Init PROVE WaitInv
  OBVIOUS
<1>1. OnceInv
  BY OnceInit
<1>2. ASSUME NEW s \in Session PROVE SessionIsServed(s)
  <2>1. input[s] = <<>> /\ eof = {} /\ pc[s[1]] = "off"
    BY DEF Init, ServerInit, Session
  <2> QED
    BY <2>1 DEF SessionIsServed, Current, AtPlace, Running
<1>3. TargetIsServed
  BY DEF Init, ServerInit, TargetIsServed, Entries
<1> QED
  BY <1>1, <1>2, <1>3 DEF WaitInv

\* A step of the server that takes no message: a connection is accepted, or one that
\* a dead peer has closed is freed.
LEMMA WaitAccept ==
  ASSUME TargetStays, WaitInv, OnceInv', NEW b \in Slots, UNCHANGED peerVars,
         (\E u \in Session : listener_cb(u, b)) \/ conn_event_cb(b)
  PROVE  WaitInv'
<1>1. /\ bevs \in [Slots -> Session \cup {None}]
      /\ wire \in [Session -> Seq(Request)] /\ input \in [Session -> Seq(Request)]
      /\ devices \in Seq(Device)
  BY DEF WaitInv, OnceInv, TypeOK, ServerTypeOK
<1>2. /\ UNCHANGED <<server, devices, down, start, pc>>
      /\ \A s \in Session : Current(s)' = Current(s) /\ AtPlace(s, "recv")' = AtPlace(s, "recv")
  BY DEF listener_cb, conn_event_cb, peerVars, Current, AtPlace
<1>3. Entries(Target)' = Entries(Target)
  BY <1>2 DEF Entries
<1>4. ASSUME NEW u \in Session, listener_cb(u, b) PROVE WaitInv'
  <2>1. /\ UNCHANGED <<input, wire, eof>> /\ bevs[b] = None
        /\ backlog' = backlog \ {u} /\ bevs' = [bevs EXCEPT ![b] = u]
    BY <1>4 DEF listener_cb
  <2>2. \A c \in Slots : bevs'[c] = IF c = b THEN u ELSE bevs[c]
    BY <1>1, <2>1
  <2>3. ASSUME NEW s \in Session PROVE SessionIsServed(s)'
    <3>1. SessionIsServed(s)
      BY DEF WaitInv
    <3>2. Connected(s) => Connected(s)'
      BY <2>1, <2>2 DEF Connected
    <3>3. QueryIsDue(s)' = QueryIsDue(s)
      BY <2>1, SameStream DEF Stream
    <3> QED
      BY <1>2, <2>1, <3>1, <3>2, <3>3 DEF SessionIsServed
  <2>4. TargetIsServed'
    <3>1. ASSUME NEW i \in Entries(Target) PROVE bevs'[devices[i].pbev] = devices[i].addr
      <4>1. devices[i] \in Device /\ bevs[devices[i].pbev] = devices[i].addr
        BY <1>1 DEF WaitInv, TargetIsServed, Entries
      <4> QED
        BY <2>1, <2>2, <4>1 DEF Device
    <3> QED
      BY <1>2, <1>3, <3>1 DEF TargetIsServed
  <2> QED
    BY <2>3, <2>4 DEF WaitInv
<1>5. CASE conn_event_cb(b)
  <2> DEFINE u == bevs[b]
  <2>1. /\ u \in Session /\ u \in eof /\ backlog' = backlog
        /\ bevs' = [bevs EXCEPT ![b] = None] /\ eof' = eof \ {u}
        /\ wire' = [wire EXCEPT ![u] = <<>>] /\ input' = [input EXCEPT ![u] = <<>>]
    BY <1>1, <1>5 DEF conn_event_cb
  <2>2. u[1] \in MayDie /\ ~ Current(u) /\ Sn[u[1]] # Target
    BY <2>1 DEF WaitInv, SessionIsServed, TargetStays
  <2>3. \A c \in Slots : bevs'[c] = IF c = b THEN None ELSE bevs[c]
    BY <1>1, <2>1
  <2>4. ASSUME NEW s \in Session PROVE SessionIsServed(s)'
    <3>1. SessionIsServed(s)
      BY DEF WaitInv
    <3>2. CASE s = u
      <4>1. ~ Current(s)' /\ ~ AtPlace(s, "recv")' /\ input'[s] = <<>> /\ s \notin eof'
        BY <1>1, <1>2, <2>1, <2>2, <3>2 DEF Current, AtPlace
      <4> QED
        BY <4>1 DEF SessionIsServed
    <3>3. CASE s # u
      <4>1. input'[s] = input[s] /\ wire'[s] = wire[s] /\ (s \in eof' => s \in eof)
        BY <1>1, <2>1, <3>3
      <4>2. Connected(s) => Connected(s)'
        BY <2>1, <2>3, <3>3 DEF Connected
      <4>3. QueryIsDue(s)' = QueryIsDue(s)
        BY <4>1, SameStream DEF Stream
      <4> QED
        BY <1>2, <3>1, <4>1, <4>2, <4>3 DEF SessionIsServed
    <3> QED
      BY <3>2, <3>3
  <2>5. TargetIsServed'
    <3>1. ASSUME NEW i \in Entries(Target) PROVE bevs'[devices[i].pbev] = devices[i].addr
      <4>1. /\ devices[i] \in Device /\ bevs[devices[i].pbev] = devices[i].addr
            /\ Sn[devices[i].addr[1]] = Target
        BY <1>1 DEF WaitInv, TargetIsServed, Entries, OnceInv, EntryInv
      <4>2. devices[i].pbev \in Slots /\ devices[i].pbev # b
        BY <2>2, <4>1 DEF Device
      <4> QED
        BY <2>3, <4>1, <4>2
    <3> QED
      BY <1>2, <1>3, <3>1 DEF TargetIsServed
  <2> QED
    BY <2>4, <2>5 DEF WaitInv
<1> QED
  BY <1>4, <1>5

\* A message is taken alone, so that nothing stays in the buffer.
LEMMA NothingStays ==
  ASSUME TargetStays, WaitInv, NEW b \in Slots, NEW k \in Coalesced, conn_read_cb(b, k),
         NEW u \in Session
  PROVE  input'[u] = <<>>
<1>1. /\ wire \in [Session -> Seq(Request)] /\ input \in [Session -> Seq(Request)]
      /\ input[u] = <<>> /\ bevs[b] \in Session /\ k = 1
  BY DEF WaitInv, OnceInv, TypeOK, ServerTypeOK, SessionIsServed, TargetStays, conn_read_cb
<1> DEFINE one == SubSeq(wire[bevs[b]], 1, 1)
<1>2. input' = [input EXCEPT ![bevs[b]] = Tail(input[bevs[b]] \o one)] /\ 1 <= Len(wire[bevs[b]])
  BY <1>1 DEF conn_read_cb
<1>3. CASE u = bevs[b]
  <2>1. one \in Seq(Request) /\ Len(one) = 1
    <3>1. wire[bevs[b]] \in Seq(Request)
      BY <1>1
    <3>2. \A i \in 1..Len(wire[bevs[b]]) : wire[bevs[b]][i] \in Request
      BY <3>1
    <3> QED
      BY <1>2, <3>1, <3>2, SubSeqProperties
  <2> HIDE DEF one
  <2>2. <<>> \o one = one
    BY ONLY <2>1, ConcatEmptySeq
  <2>3. Tail(one) = <<>>
    <3>1. Tail(one) \in Seq(Request) /\ Len(Tail(one)) = 0
      <4>1. one # <<>>
        BY ONLY <2>1, EmptySeq
      <4>2. Tail(one) \in Seq(Request) /\ Len(Tail(one)) = Len(one) - 1
        BY ONLY <2>1, <4>1, HeadTailProperties
      <4> QED
        BY ONLY <2>1, <4>2
    <3> QED
      BY ONLY <3>1, EmptySeq
  <2> QED
    BY <1>1, <1>2, <1>3, <2>2, <2>3
<1>4. CASE u # bevs[b]
  BY <1>1, <1>2, <1>4
<1> QED
  BY <1>3, <1>4

\* A step of the server that takes a message: a query is answered, or ends the server.
LEMMA WaitRead ==
  ASSUME TargetStays, WaitInv, OnceInv', NEW b \in Slots, UNCHANGED peerVars,
         NEW k \in Coalesced, conn_read_cb(b, k)
  PROVE  WaitInv'
<1>1. /\ down \in [Session -> Seq(Reply)] /\ devices \in Seq(Device)
      /\ bevs \in [Slots -> Session \cup {None}] /\ ServerTypeOK
  BY DEF WaitInv, OnceInv, TypeOK, ServerTypeOK
<1>2. /\ UNCHANGED <<bevs, backlog, eof, start, pc>> /\ server = "up"
      /\ \A u \in Session : /\ Current(u)' = Current(u) /\ Connected(u)' = Connected(u)
                            /\ AtPlace(u, "recv")' = AtPlace(u, "recv")
  BY DEF conn_read_cb, peerVars, Current, AtPlace, Connected
<1>3. PICK s \in Session : s = bevs[b]
  BY <1>1 DEF conn_read_cb
<1>4. /\ Stream(s) # <<>> /\ Stream(s)' = Tail(Stream(s)) /\ Stream(s) \in Streams(s)
      /\ \A u \in Session : u # s => Stream(u)' = Stream(u)
  BY <1>3, StreamShrinks DEF WaitInv, OnceInv, StreamInv
<1>5. LET m == Head(Stream(s)) IN
      \/ m.cmd = "PING" /\ process_ping_cmd(b, m)
      \/ m.cmd = "QUERY_DEVICE_INFO_REQUEST" /\ process_query_device_info_cmd(b, m)
  BY <1>3, StreamShrinks DEF WaitInv, OnceInv
<1>6. ASSUME \A u \in Session : server' = "up" /\ AtPlace(u, "recv") =>
                                  QueryIsDue(u)' \/ down'[u] # <<>>
      PROVE  \A u \in Session : SessionIsServed(u)'
  <2>1. ASSUME NEW u \in Session PROVE SessionIsServed(u)'
    BY <1>2, <1>6, NothingStays DEF WaitInv, SessionIsServed
  <2> QED
    BY <2>1
<1>7. ASSUME NEW u \in Session, u # s, AtPlace(u, "recv"), down[u] # <<>> => down'[u] # <<>>
      PROVE  QueryIsDue(u)' \/ down'[u] # <<>>
  <2>1. QueryIsDue(u) \/ down[u] # <<>>
    BY <1>2, <1>7 DEF WaitInv, SessionIsServed
  <2> QED
    BY <1>4, <1>7, <2>1, SameStream
<1>8. CASE /\ Head(Stream(s)).cmd = "PING" /\ process_ping_cmd(b, Head(Stream(s)))
  <2> DEFINE e == [sn |-> Head(Stream(s)).sn, pbev |-> b, addr |-> s]
  <2>1. down' = down /\ devices' = <<e>> \o devices
    BY <1>3, <1>8 DEF process_ping_cmd
  <2>2. Stream(s)' = IF QueryIsDue(s) THEN <<Query(s)>> ELSE <<>>
    BY <1>4, <1>8, FirstOfStream
  <2>3. QueryIsDue(s) => QueryIsDue(s)'
    BY <2>2 DEF QueryIsDue, Query
  <2>4. \A u \in Session : AtPlace(u, "recv") => QueryIsDue(u)' \/ down'[u] # <<>>
    <3>1. AtPlace(s, "recv") => QueryIsDue(s)' \/ down'[s] # <<>>
      BY <1>2, <2>1, <2>3 DEF WaitInv, SessionIsServed
    <3> QED
      BY <1>7, <2>1, <3>1
  <2>5. TargetIsServed'
    <3>1. Head(Stream(s)) = Ping(s) /\ s[1] \in Peers
      BY <1>4, <1>8, FirstOfStream DEF Session
    <3>2. e \in Device /\ e.pbev = b /\ e.addr = s
      BY <3>1 DEF Ping, Device
    <3> HIDE DEF e
    <3>3. /\ DOMAIN devices' = 1..Len(devices) + 1 /\ DOMAIN devices = 1..Len(devices)
          /\ \A i \in 1..Len(devices) + 1 : devices'[i] = IF i = 1 THEN e ELSE devices[i-1]
          /\ Len(devices) \in Nat
      <4>1. /\ DOMAIN (<<e>> \o devices) = 1..Len(devices) + 1
            /\ \A i \in 1..Len(devices) + 1 :
                 (<<e>> \o devices)[i] = IF i = 1 THEN e ELSE devices[i-1]
        BY <1>1, <3>2, Pushed
      <4> QED
        BY <1>1, <2>1, <4>1
    <3>4. ASSUME NEW i \in Entries(Target)'
          PROVE  bevs[devices'[i].pbev] = devices'[i].addr
      <4>1. i \in 1..Len(devices) + 1 /\ devices'[i].sn = Target
        BY <3>3 DEF Entries
      <4>2. CASE i = 1
        BY <1>3, <3>2, <3>3, <4>1, <4>2
      <4>3. CASE i # 1
        <5>1. i - 1 \in 1..Len(devices) /\ devices'[i] = devices[i-1]
          BY <3>3, <4>1, <4>3
        <5>2. i - 1 \in Entries(Target)
          BY <3>3, <4>1, <5>1 DEF Entries
        <5> QED
          BY <5>1, <5>2 DEF WaitInv, TargetIsServed
      <4> QED
        BY <4>2, <4>3
    <3> QED
      BY <1>2, <3>4 DEF TargetIsServed
  <2> QED
    BY <1>6, <2>4, <2>5 DEF WaitInv
<1>9. CASE /\ Head(Stream(s)).cmd = "QUERY_DEVICE_INFO_REQUEST"
           /\ process_query_device_info_cmd(b, Head(Stream(s)))
  <2>1. Head(Stream(s)) = Query(s) /\ process_query_device_info_cmd(b, Query(s))
    BY <1>4, <1>9, FirstOfStream
  <2>2. devices' = devices
    BY <2>1 DEF process_query_device_info_cmd
  <2>3. TargetIsServed'
    BY <1>2, <2>2 DEF WaitInv, TargetIsServed, Entries
  <2>4. server' # "up" \/ AnswersTo(b, Query(s))
    <3>1. /\ Dst(Query(s)) # {} => LastOf(Dst(Query(s))) \in Dst(Query(s))
          /\ \/ Dst(Query(s)) = {} /\ server' = "aborted" /\ down' = down
             \/ Dst(Query(s)) # {} /\ server' = server /\ AnswersTo(b, Query(s))
             \/ /\ Dst(Query(s)) # {} /\ bevs[Found(Query(s)).pbev] = None
                /\ server' \in {"up", "crashed"} /\ down' = down
      BY <1>1, <2>1, QueryCases
    <3>2. ASSUME Dst(Query(s)) # {} PROVE bevs[Found(Query(s)).pbev] # None
      <4>1. LastOf(Dst(Query(s))) \in Entries(Target)
        BY <3>1, <3>2 DEF Dst, Query
      <4> DEFINE i == LastOf(Dst(Query(s)))
      <4>2. i \in DOMAIN devices /\ bevs[devices[i].pbev] = devices[i].addr
        BY <4>1 DEF WaitInv, TargetIsServed, Entries
      <4> HIDE DEF i
      <4>3. devices[i] \in Device
        BY <1>1, <4>2
      <4>4. devices[i].addr # None
        BY <4>3 DEF Device
      <4> QED
        BY <4>2, <4>4 DEF Found, i
    <3> QED
      BY <3>1, <3>2
  <2>5. ASSUME NEW u \in Session, AnswersTo(b, Query(s))
        PROVE  /\ down[u] # <<>> => down'[u] # <<>>
               /\ u = s => down'[u] # <<>>
    <3>1. \A q \in Seq(Reply) : \A m : Append(q, m) # <<>>
      OBVIOUS
    <3>2. Punched(Query(s), u) \in Seq(Reply) /\ (down[u] # <<>> => Punched(Query(s), u) # <<>>)
      BY <1>1, <2>5, <3>1 DEF AnswersTo, Punched
    <3>3. down'[u] = IF bevs[b] = u THEN Append(Punched(Query(s), u), Response(Query(s)))
                     ELSE Punched(Query(s), u)
      BY <2>5 DEF AnswersTo
    <3>4. Append(Punched(Query(s), u), Response(Query(s))) # <<>>
      BY <3>1, <3>2
    <3> QED
      BY <1>3, <3>2, <3>3, <3>4
  <2>6. \A u \in Session : server' = "up" /\ AtPlace(u, "recv") =>
                             QueryIsDue(u)' \/ down'[u] # <<>>
    BY <1>7, <2>4, <2>5
  <2> QED
    BY <1>6, <2>3, <2>6 DEF WaitInv
<1> QED
  BY <1>5, <1>8, <1>9

\* A peer's step leaves every other session where it is.
LEMMA OtherSession ==
  ASSUME TypeOK, NEW p \in Peers, NEW place, UNCHANGED start,
         pc' = [pc EXCEPT ![p] = place], NEW s \in Session, s # Now(p)
  PROVE  Current(s)' = Current(s) /\ AtPlace(s, "recv")' = AtPlace(s, "recv")
<1>1. s[1] \in Peers /\ (s[1] = p => s[2] # start[p])
  BY DEF Session, Now
<1>2. s[1] # p => pc'[s[1]] = pc[s[1]]
  BY <1>1 DEF TypeOK
<1> QED
  BY <1>1, <1>2 DEF Current, AtPlace

\* A peer that is started is connected: its connection waits for the listener.
LEMMA WaitConnect ==
  ASSUME WaitInv, OnceInv', NEW p \in Peers, connect_server(p)
  PROVE  WaitInv'
<1>1. /\ UNCHANGED <<server, devices, bevs, input, wire, eof, down>>
      /\ start' = [start EXCEPT ![p] = start[p] + 1] /\ start \in [Peers -> Nat]
      /\ pc' = [pc EXCEPT ![p] = "connected"] /\ DOMAIN pc = Peers
      /\ backlog' = backlog \cup {<<p, start[p] + 1>>}
  BY DEF connect_server, WaitInv, OnceInv, TypeOK
<1>2. ASSUME NEW s \in Session PROVE SessionIsServed(s)'
  <2>1. SessionIsServed(s) /\ s[1] \in Peers /\ s[2] \in Nat /\ s = <<s[1], s[2]>>
    BY DEF WaitInv, Session
  <2>2. QueryIsDue(s)' = QueryIsDue(s) /\ (Connected(s) => Connected(s)')
    BY <1>1, SameStream DEF Stream, Connected
  <2>3. CASE s[1] # p
    BY <1>1, <2>1, <2>2, <2>3 DEF SessionIsServed, Current, AtPlace
  <2>4. CASE s[1] = p
    <3>1. start'[s[1]] = start[p] + 1 /\ pc'[s[1]] = "connected"
      BY <1>1, <2>4
    <3>2. ~ AtPlace(s, "recv")'
      BY <3>1 DEF AtPlace
    <3>3. Current(s)' => s \in backlog'
      BY <1>1, <2>1, <2>4, <3>1 DEF Current
    <3>4. s \in eof => s[1] \in MayDie /\ s[2] <= start[p]
      BY <2>1, <2>4 DEF SessionIsServed
    <3>5. s \in eof' => s[1] \in MayDie /\ s[2] <= start'[s[1]] /\ ~ Current(s)'
      BY <1>1, <2>1, <3>1, <3>4 DEF Current
    <3> QED
      BY <1>1, <2>1, <3>2, <3>3, <3>5 DEF SessionIsServed, Connected
  <2> QED
    BY <2>3, <2>4
<1>3. TargetIsServed'
  BY <1>1 DEF WaitInv, TargetIsServed, Entries
<1> QED
  BY <1>2, <1>3 DEF WaitInv

\* What a peer does on its own: it sends, receives, gives up or is killed.
LEMMA WaitPeer ==
  ASSUME WaitInv, OnceInv', NEW p \in Peers, PeerNext(p) \/ Kill(p)
  PROVE  WaitInv'
<1>1. /\ UNCHANGED <<server, devices, bevs, input, backlog, start>>
      /\ TypeOK /\ DOMAIN pc = Peers /\ start[p] \in Nat
      /\ down \in [Session -> Seq(Reply)]
  BY DEF PeerNext, Kill, ping_cb, user_cb, RecvAnswer, LoseServer, PunchHole, serverVars, net,
         WaitInv, OnceInv, TypeOK, ServerTypeOK
<1>2. PICK s \in Session : s = Now(p)
  BY <1>1, NowIsSession DEF PeerNext, Kill, ping_cb, user_cb, RecvAnswer, LoseServer, PunchHole,
                            Running
<1>3. s[1] = p /\ s[2] = start[p]
  BY <1>2 DEF Now
<1>4. \A u \in Session : Connected(u)' = Connected(u)
  BY <1>1 DEF Connected
<1>5. \E place \in Running \cup {"off", "recv", "done"} : pc' = [pc EXCEPT ![p] = place]
  BY <1>1 DEF PeerNext, Kill, ping_cb, user_cb, RecvAnswer, LoseServer, PunchHole, Running, TypeOK
<1>6. ASSUME NEW u \in Session, u # s PROVE SessionIsServed(u)'
  <2>1. /\ Current(u)' = Current(u) /\ AtPlace(u, "recv")' = AtPlace(u, "recv")
        /\ SessionIsServed(u)
    BY <1>1, <1>2, <1>5, <1>6, OtherSession DEF WaitInv
  <2>2. Stream(u)' = Stream(u)
    <3>1. CASE user_cb(p)
      BY <1>2, <1>6, <3>1, QueryIsSent DEF WaitInv
    <3>2. CASE ping_cb(p)
      BY <1>1, <1>2, <1>6, <3>2 DEF ping_cb, Send, Stream, TypeOK, ServerTypeOK
    <3>3. CASE RecvAnswer(p) \/ LoseServer(p) \/ PunchHole(p) \/ Kill(p)
      BY <3>3 DEF RecvAnswer, LoseServer, PunchHole, Kill, serverVars, net, Stream
    <3> QED
      BY <3>1, <3>2, <3>3 DEF PeerNext
  <2>3. down'[u] = down[u] /\ (u \in eof' => u \in eof)
    BY <1>1, <1>2, <1>6 DEF PeerNext, Kill, ping_cb, user_cb, RecvAnswer, LoseServer, PunchHole,
                            serverVars, net
  <2> QED
    BY <1>1, <1>4, <2>1, <2>2, <2>3, SameStream DEF SessionIsServed
<1>7. SessionIsServed(s)'
  <2>1. SessionIsServed(s) /\ (Current(s) <=> pc[p] \in Running \cup {"recv"})
    BY <1>3 DEF WaitInv, Current
  <2>2. pc'[p] \in {"done", "off"} => ~ Current(s)' /\ ~ AtPlace(s, "recv")'
    BY <1>3 DEF Current, AtPlace, Running
  <2>3. CASE ping_cb(p)
    <3>1. Current(s) /\ pc'[p] \in {"serving", "timer"} /\ UNCHANGED <<eof, down>>
      BY <1>1, <2>1, <2>3 DEF ping_cb, Running
    <3>2. Current(s)' /\ ~ AtPlace(s, "recv")'
      BY <1>1, <1>3, <3>1 DEF Current, AtPlace, Running
    <3> QED
      BY <1>1, <1>4, <2>1, <3>1, <3>2 DEF SessionIsServed
  <2>4. CASE user_cb(p)
    <3>1. Current(s) /\ pc'[p] = "recv" /\ UNCHANGED <<eof, down>>
      BY <1>1, <2>1, <2>4 DEF user_cb, Running
    <3>2. Current(s)'
      BY <1>1, <1>3, <3>1 DEF Current
    <3>3. Stream(s)' \in {<<Query(s)>>, <<Ping(s), Query(s)>>}
      BY <1>2, <2>4, QueryIsSent DEF WaitInv
    <3>4. QueryIsDue(s)'
      BY <3>3 DEF QueryIsDue, Ping, Query
    <3> QED
      BY <1>1, <1>4, <2>1, <3>1, <3>2, <3>4 DEF SessionIsServed
  <2>5. CASE RecvAnswer(p)
    <3>1. pc'[p] = "done" /\ UNCHANGED eof
      BY <1>1, <2>5 DEF RecvAnswer
    <3> QED
      BY <1>1, <1>3, <2>1, <2>2, <3>1 DEF SessionIsServed
  <2>6. CASE LoseServer(p)
    <3>1. pc'[p] = "done" /\ UNCHANGED eof
      BY <1>1, <2>6 DEF LoseServer, serverVars, net
    <3> QED
      BY <1>1, <1>3, <2>1, <2>2, <3>1 DEF SessionIsServed
  <2>7. CASE PunchHole(p)
    <3>1. pc' = pc /\ pc[p] \in Running /\ UNCHANGED eof
      BY <2>7 DEF PunchHole
    <3>2. Current(s)' = Current(s) /\ ~ AtPlace(s, "recv")'
      BY <1>1, <1>3, <3>1 DEF Current, AtPlace, Running
    <3> QED
      BY <1>1, <1>4, <2>1, <3>1, <3>2 DEF SessionIsServed
  <2>8. CASE Kill(p)
    <3>1. pc'[p] = "off" /\ p \in MayDie
      BY <1>1, <2>8 DEF Kill
    <3> QED
      BY <1>1, <1>3, <2>1, <2>2, <3>1 DEF SessionIsServed
  <2> QED
    BY <2>3, <2>4, <2>5, <2>6, <2>7, <2>8 DEF PeerNext
<1>8. TargetIsServed'
  BY <1>1 DEF WaitInv, TargetIsServed, Entries
<1> QED
  BY <1>6, <1>7, <1>8 DEF WaitInv

LEMMA WaitStep == TargetStays /\ WaitInv /\ [Next]_vars => WaitInv'
<1> SUFFICES ASSUME TargetStays, WaitInv, [Next]_vars PROVE WaitInv'
  OBVIOUS
<1>0. OnceInv'
  BY OnceStep DEF WaitInv
<1>1. CASE UNCHANGED vars
  <2>1. ASSUME NEW s \in Session PROVE SessionIsServed(s)'
    <3>1. QueryIsDue(s)' = QueryIsDue(s)
      BY <1>1, SameStream DEF vars, serverVars, net, Stream
    <3>2. UNCHANGED <<server, input, eof, start, pc, backlog, bevs, down>>
      BY <1>1 DEF vars, serverVars, net, peerVars
    <3> QED
      BY <3>1, <3>2 DEF WaitInv, SessionIsServed, Current, Connected, AtPlace
  <2>2. TargetIsServed'
    BY <1>1 DEF WaitInv, TargetIsServed, Entries, vars, serverVars
  <2> QED
    BY <1>0, <2>1, <2>2 DEF WaitInv
<1> QED
  BY <1>0, <1>1, WaitAccept, WaitRead, WaitConnect, WaitPeer DEF Next, ServerNext

\* Whoever blocks in recv (p2p_transfer_peer.c, user_cb) has something to receive, or is
\* connected and has its query on the way to a server that is up. It holds for any number
\* of devices, whoever of those that ask is killed and started again, as long as no read
\* of the server brings two messages (p2p_transfer_server.c:255) and the target stays;
\* what QueryEnds adds to it is that the server goes on reading.
THEOREM NobodyAsksInVain ==
  ASSUME TargetStays
  PROVE  Spec => [](server = "up" => \A p \in Peers : pc[p] = "recv" =>
                      \/ down[Now(p)] # <<>>
                      \/ QueryIsDue(Now(p)) /\ input[Now(p)] = <<>> /\ Connected(Now(p)))
<1>1. WaitInv /\ server = "up" => \A p \in Peers : pc[p] = "recv" =>
         \/ down[Now(p)] # <<>>
         \/ QueryIsDue(Now(p)) /\ input[Now(p)] = <<>> /\ Connected(Now(p))
  <2> SUFFICES ASSUME WaitInv, server = "up", NEW p \in Peers, pc[p] = "recv"
               PROVE  \/ down[Now(p)] # <<>>
                      \/ /\ QueryIsDue(Now(p)) /\ input[Now(p)] = <<>>
                         /\ Connected(Now(p))
    OBVIOUS
  <2>1. Now(p) \in Session /\ AtPlace(Now(p), "recv") /\ Current(Now(p))
    BY NowIsSession DEF WaitInv, OnceInv, AtPlace, Current, Now
  <2> QED
    BY <2>1 DEF WaitInv, SessionIsServed
<1> QED
  BY <1>1, WaitInit, WaitStep, PTL DEF Spec
-----------------------------------------------------------------------------
(* The server introduces devices: MeetingInv, and P2pTransfer implements the  *)
(* safety part of Rendezvous, step by step.                                   *)

\* Each device has a number of its own, is started once and does not leave.
MeetOnce ==
  /\ MaxStarts = 1 /\ MayDie = {}
  /\ \A p, q \in Peers : Sn[p] = Sn[q] => p = q

LEMMA MeetInit == Init => MeetingInv /\ Meeting!Init
<1> SUFFICES ASSUME Init PROVE MeetingInv /\ Meeting!Init
  OBVIOUS
<1>1. /\ devices = <<>> /\ eof = {} /\ server = "up"
      /\ \A s \in Session :
           down[s] = <<>> /\ result[s] = None /\ heard[s] = {} /\ Stream(s) = <<>>
  BY DEF Init, ServerInit, Stream
<1>2. \A s \in Session : ~ AtPlace(s, "timer") /\ ~ AtPlace(s, "recv")
  BY DEF Init, AtPlace, Session
<1>3. \A s \in Session : <<Query(s)>> # <<>>
  OBVIOUS
<1>4. MeetingInv
  BY <1>1, <1>2, <1>3 DEF MeetingInv, AskerInv, AskedInv, Targets
<1>5. Learned = {} /\ Heard = {} /\ Registered = {} /\ Answered = {}
  BY <1>1 DEF Learned, Heard, Registered, Answered, Queued
<1> QED
  BY <1>1, <1>4, <1>5 DEF Meeting!Init

\* What the introductions are made of.
LEMMA SameIntroductions ==
  /\ UNCHANGED result => Learned' = Learned
  /\ UNCHANGED down => Answered' = Answered
  /\ UNCHANGED heard => Heard' = Heard
  /\ UNCHANGED devices => Registered' = Registered
BY DEF Learned, Answered, Heard, Registered, Queued

\* A step that sends and registers nothing, and takes no session back to before its
\* answer, keeps the invariant.
LEMMA MeetFrame ==
  ASSUME OnceInv, MeetingInv, UNCHANGED <<devices, eof, down, heard, result>>,
         \A b \in Slots : bevs[b] # None => bevs'[b] = bevs[b],
         \A s \in Session \ Targets :
           /\ BeforeAnswer(s)' => BeforeAnswer(s)
           /\ AtPlace(s, "timer")' /\ ~ PingIsDue(s)' => s \in Registered
           /\ Stream(s)' = <<Query(s)>> => s \in Registered,
         \A s \in Targets : ~ AtPlace(s, "recv")'
  PROVE  MeetingInv' /\ UNCHANGED <<Registered, Learned, Answered, Heard>>
<1>1. UNCHANGED <<Registered, Learned, Answered, Heard>>
  BY SameIntroductions
<1>2. ASSUME NEW i \in DOMAIN devices PROVE bevs'[devices[i].pbev] = devices[i].addr
  <2>1. devices \in Seq(Device)
    BY DEF OnceInv, TypeOK, ServerTypeOK
  <2>2. devices[i] \in Device
    BY <2>1
  <2>3. devices[i].pbev \in Slots /\ devices[i].addr # None
    BY <2>2 DEF Device
  <2> QED
    BY <2>3 DEF MeetingInv
<1>3. ASSUME NEW s \in Session \ Targets PROVE AskerInv(s)'
  <2>1. AskerInv(s)
    BY DEF MeetingInv
  <2>2. /\ down'[s] = down[s] /\ result'[s] = result[s] /\ Registered' = Registered
        /\ Query(s)' = Query(s) /\ \A t : Answer(t)' = Answer(t)
    BY <1>1 DEF Query, Answer
  <2> QED
    BY <2>1, <2>2 DEF AskerInv
<1>4. ASSUME NEW s \in Targets PROVE AskedInv(s)'
  <2>1. AskedInv(s)
    BY DEF MeetingInv
  <2> QED
    BY <1>1, <2>1 DEF AskedInv
<1> QED
  BY <1>1, <1>2, <1>3, <1>4 DEF MeetingInv, Targets

\* A ping that is taken registers its session.
LEMMA MeetPing ==
  ASSUME OnceInv, OnceInv', MeetingInv, NEW b \in Slots, NEW s \in Session, s = bevs[b],
         Stream(s) # <<>>, Stream(s)' = Tail(Stream(s)),
         \A u \in Session : u # s => Stream(u)' = Stream(u),
         Head(Stream(s)).cmd = "PING", process_ping_cmd(b, Head(Stream(s))),
         server = "up", UNCHANGED <<bevs, eof, peerVars>>
  PROVE  MeetingInv' /\ Meeting!Register(s)
<1>1. Registered' = Registered \cup {s} /\ s \notin Registered
  BY OncePing DEF OnceInv
<1>2. UNCHANGED <<server, down, pc, start, heard, result>>
  BY DEF process_ping_cmd, peerVars
<1>3. Learned' = Learned /\ Answered' = Answered /\ Heard' = Heard
  BY <1>2, SameIntroductions
<1>4. Meeting!Register(s)
  BY <1>1, <1>2, <1>3 DEF Meeting!Register
<1>5. ASSUME NEW i \in DOMAIN devices' PROVE bevs[devices'[i].pbev] = devices'[i].addr
  <2> DEFINE m == Head(Stream(s))
             e == [sn |-> m.sn, pbev |-> b, addr |-> bevs[b]]
             S == {e} \cup Device
  <2>1. /\ devices \in Seq(Device) /\ devices' = <<e>> \o devices
        /\ e.pbev = b /\ e.addr = bevs[b]
    BY DEF process_ping_cmd, OnceInv, TypeOK, ServerTypeOK
  <2>2. devices \in Seq(S) /\ e \in S
    BY <2>1
  <2> HIDE DEF e, S
  <2>3. /\ DOMAIN devices' = 1..Len(devices) + 1
        /\ devices'[i] = IF i = 1 THEN e ELSE devices[i-1]
    BY <2>1, <2>2, Pushed
  <2>4. CASE i = 1
    BY <2>1, <2>3, <2>4
  <2>5. CASE i # 1
    <3>1. i - 1 \in DOMAIN devices
      BY <2>1, <2>3, <2>5
    <3> QED
      BY <2>3, <2>5, <3>1 DEF MeetingInv
  <2> QED
    BY <2>4, <2>5
<1>6. ASSUME NEW u \in Session \ Targets PROVE AskerInv(u)'
  <2>1. AskerInv(u)
    BY DEF MeetingInv
  <2>2. BeforePing(u)' = BeforePing(u) /\ AtPlace(u, "timer")' = AtPlace(u, "timer")
    BY <1>2 DEF BeforePing, AtPlace
  <2>3. Query(u)' = Query(u) /\ \A t : Answer(t)' = Answer(t)
    BY DEF Query, Answer
  <2>4. CASE u # s
    BY <1>1, <1>2, <2>1, <2>2, <2>3, <2>4, SameStream DEF AskerInv, BeforeAnswer
  <2>5. CASE u = s
    <3>1. QueryIsDue(s)' => QueryIsDue(s)
      BY FirstOfStream, NothingDue DEF OnceInv, StreamInv
    <3> QED
      BY <1>1, <1>2, <2>1, <2>2, <2>3, <2>5, <3>1 DEF AskerInv, BeforeAnswer
  <2> QED
    BY <2>4, <2>5
<1>7. ASSUME NEW u \in Targets PROVE AskedInv(u)'
  <2>1. AskedInv(u)
    BY DEF MeetingInv
  <2> QED
    BY <1>2, <1>3, <2>1 DEF AskedInv, AtPlace
<1>8. eof' = {}
  BY DEF MeetingInv
<1> QED
  BY <1>4, <1>5, <1>6, <1>7, <1>8 DEF MeetingInv, Targets

\* What a query that is answered sends: one message to each of the two.
LEMMA QueryIntroduces ==
  ASSUME MeetOnce, OnceInv, MeetingInv, NEW b \in Slots, NEW s \in Session, s = bevs[b],
         Stream(s) = <<Query(s)>>, process_query_device_info_cmd(b, Query(s)),
         Dst(Query(s)) # {}
  PROVE  /\ server' = server /\ s \in Registered /\ s \notin Targets /\ down[s] = <<>>
         /\ \E t \in Targets :
              /\ t \in Registered
              /\ \A u \in Session :
                   down'[u] = IF u = s THEN <<Answer(t)>>
                              ELSE IF u = t
                                THEN Append(down[u], [cmd |-> "PUNCH_HOLE", addr |-> s])
                                ELSE down[u]
<1> DEFINE query == Query(s)
<1>1. QueryIsDue(s)
  BY DEF QueryIsDue
<1>2. Sn[s[1]] # Target
  BY <1>1 DEF OnceInv, StreamInv
<1>3. s \notin Targets
  BY <1>2 DEF Targets
<1>4. s \in Registered /\ down[s] = <<>>
  BY <1>1, <1>3 DEF MeetingInv, AskerInv, BeforeAnswer
<1>5. query.src = Sn[s[1]] /\ query.sn = Target
  BY DEF Query
<1>6. /\ devices \in Seq(Device) /\ DOMAIN devices = 1..Len(devices)
      /\ \A i \in DOMAIN devices : devices[i] \in Device
  BY DEF OnceInv, TypeOK, ServerTypeOK
<1>7. ASSUME NEW u \in Session, NEW p \in Peers, Sn[p] = Sn[u[1]] PROVE p = u[1]
  BY <1>7 DEF MeetOnce, Session
\* The entry of the target.
<1> DEFINE t == Found(query).addr
<1>8. /\ LastOf(Dst(query)) \in Dst(query)
      /\ Src(query) # {} => LastOf(Src(query)) \in Src(query)
      /\ Found(query) \in Device
  BY QueryCases DEF OnceInv, TypeOK
<1>9. LastOf(Dst(query)) \in Entries(Target)
  BY <1>5, <1>8 DEF Dst
<1>10. /\ t \in Session /\ Sn[t[1]] = Target /\ t \in Registered
       /\ bevs[Found(query).pbev] = t
  <2>1. LastOf(Dst(query)) \in DOMAIN devices /\ Found(query).sn = Target
    BY <1>9 DEF Entries, Found
  <2>2. t \in Session
    BY <1>8 DEF Device
  <2>3. Sn[t[1]] = Target
    BY <2>1 DEF OnceInv, EntryInv, Found
  <2> QED
    BY <2>1, <2>2, <2>3 DEF Registered, MeetingInv, Found
<1>11. t \in Targets /\ t # s
  BY <1>3, <1>10 DEF Targets
\* The entry of the querier, which the scan comes to.
<1>12. PICK i \in DOMAIN devices : devices[i].addr = s
  BY <1>4 DEF Registered
<1>13. i \in Entries(Sn[s[1]])
  BY <1>12 DEF OnceInv, EntryInv, Entries
<1>14. Entries(Sn[s[1]]) = {i}
  BY <1>7, <1>13, OneEntry DEF MeetOnce
<1>15. \E j : Entries(Target) = {j}
  <2>1. LastOf(Dst(query)) \in Entries(Sn[t[1]])
    BY <1>9, <1>10
  <2> HIDE DEF t
  <2>2. Entries(Sn[t[1]]) = {LastOf(Dst(query))}
    BY <1>7, <1>10, <2>1, OneEntry DEF MeetOnce
  <2> QED
    BY <1>10, <2>2
<1>16. i \in Src(query)
  <2>1. /\ IsFiniteSet(Before(Target, i)) /\ Cardinality(Before(Target, i)) \in Nat
    BY EntriesFinite DEF OnceInv, TypeOK
  <2>2. Cardinality(Before(Target, i)) <= 1
    <3>1. PICK j : Before(Target, i) \subseteq {j}
      BY <1>15 DEF Before
    <3> QED
      BY <2>1, <3>1, CountsElements
  <2>3. Before(Sn[s[1]], i) = {}
    BY <1>6, <1>14 DEF Before
  <2>4. Num(Sn[s[1]], Target, i)
          = Cardinality(Before(Target, i)) + Cardinality(Before(Sn[s[1]], i))
    BY NumIs
  <2>5. Num(Sn[s[1]], Target, i) < 2
    BY <2>1, <2>2, <2>3, <2>4, FS_EmptySet
  <2> QED
    BY <1>5, <1>12, <1>13, <2>5 DEF Src, Scanned
<1>17. LastOf(Src(query)) = i
  BY <1>5, <1>8, <1>14, <1>16 DEF Src
<1>18. PunchMessage(query) = [cmd |-> "PUNCH_HOLE", addr |-> s] /\ Response(query) = Answer(t)
  BY <1>12, <1>16, <1>17 DEF PunchMessage, Response, Answer
<1>19. server' = server /\ AnswersTo(b, query)
  <2>1. t # None
    BY <1>10
  <2>2. \/ Dst(query) = {} /\ server' = "aborted" /\ down' = down
        \/ Dst(query) # {} /\ server' = server /\ AnswersTo(b, query)
        \/ /\ Dst(query) # {} /\ bevs[Found(query).pbev] = None
           /\ server' \in {"up", "crashed"} /\ down' = down
    BY QueryCases DEF OnceInv, TypeOK
  <2> QED
    BY <1>10, <2>1, <2>2
<1> HIDE DEF query, t
<1>20. ASSUME NEW u \in Session
       PROVE  down'[u] = IF u = s THEN <<Answer(t)>>
                         ELSE IF u = t
                           THEN Append(down[u], [cmd |-> "PUNCH_HOLE", addr |-> s])
                           ELSE down[u]
  <2>1. /\ Punched(query, u) = IF t = u THEN Append(down[u], PunchMessage(query)) ELSE down[u]
        /\ down'[u] = IF s = u THEN Append(Punched(query, u), Response(query))
                      ELSE Punched(query, u)
    BY <1>10, <1>19 DEF AnswersTo, Punched
  <2>2. Append(<<>>, Answer(t)) = <<Answer(t)>>
    OBVIOUS
  <2> QED
    BY <1>4, <1>11, <1>18, <2>1, <2>2
<1> QED
  BY <1>3, <1>4, <1>10, <1>11, <1>19, <1>20

Elements(q) == {q[i] : i \in DOMAIN q}

LEMMA ElementsOfAppend ==
  ASSUME NEW S, NEW q \in Seq(S), NEW m \in S
  PROVE  Elements(Append(q, m)) = Elements(q) \cup {m}
<1>1. /\ DOMAIN q = 1..Len(q) /\ Len(q) \in Nat
      /\ DOMAIN Append(q, m) = 1..Len(q) + 1
      /\ \A i \in 1..Len(q) : Append(q, m)[i] = q[i]
      /\ Append(q, m)[Len(q) + 1] = m
  BY AppendProperties
<1>2. ASSUME NEW i \in 1..Len(q) + 1 PROVE Append(q, m)[i] \in Elements(q) \cup {m}
  <2>1. CASE i = Len(q) + 1
    BY <1>1, <2>1 DEF Elements
  <2>2. CASE i # Len(q) + 1
    <3>1. i \in 1..Len(q)
      BY <1>1, <2>2
    <3> QED
      BY <1>1, <3>1 DEF Elements
  <2> QED
    BY <2>1, <2>2
<1>3. ASSUME NEW i \in 1..Len(q)
      PROVE  q[i] \in Elements(Append(q, m))
  <2>1. i \in DOMAIN Append(q, m)
    BY <1>1
  <2> QED
    BY <1>1, <2>1 DEF Elements
<1>4. m \in Elements(Append(q, m))
  <2>1. Len(q) + 1 \in DOMAIN Append(q, m)
    BY <1>1
  <2> QED
    BY <1>1, <2>1 DEF Elements
<1> QED
  BY <1>1, <1>2, <1>3, <1>4 DEF Elements

\* What is sent by a query that is answered is one introduction.
LEMMA MeetAnswer ==
  ASSUME MeetOnce, OnceInv, OnceInv', MeetingInv, NEW b \in Slots, NEW s \in Session, s = bevs[b],
         Stream(s) = <<Query(s)>>, Stream(s)' = <<>>,
         \A u \in Session : u # s => Stream(u)' = Stream(u),
         process_query_device_info_cmd(b, Query(s)), Dst(Query(s)) # {},
         server = "up", UNCHANGED <<bevs, eof, peerVars>>
  PROVE  MeetingInv' /\ \E t \in Session : Meeting!Introduce(s, t)
<1> DEFINE punch == [cmd |-> "PUNCH_HOLE", addr |-> s]
<1>1. /\ UNCHANGED <<server, devices, pc, start, heard, result>>
      /\ s \in Registered /\ s \notin Targets /\ down[s] = <<>>
  BY QueryIntroduces DEF peerVars, process_query_device_info_cmd
<1>2. PICK t \in Targets :
        /\ t \in Registered
        /\ \A u \in Session :
             down'[u] = IF u = s THEN <<Answer(t)>>
                        ELSE IF u = t THEN Append(down[u], punch) ELSE down[u]
  BY QueryIntroduces
<1>3. t \in Session /\ t # s
  BY <1>1, <1>2 DEF Targets
<1>4. Learned' = Learned /\ Heard' = Heard /\ Registered' = Registered
  BY <1>1, SameIntroductions
<1>5. punch \in Reply /\ \A u \in Session : down[u] \in Seq(Reply)
  BY DEF OnceInv, TypeOK, ServerTypeOK, Reply
<1>6. ASSUME NEW u \in Session, NEW v \in Session
      PROVE  Queued(u, Answer(v))' <=> Queued(u, Answer(v)) \/ (u = s /\ v = t)
  <2>0. Answer(v)' = Answer(v) /\ Answer(v) # punch /\ (Answer(v) = Answer(t) <=> v = t)
    BY DEF Answer
  <2>1. CASE u = s
    <3>1. down'[u] = <<Answer(t)>> /\ down[u] = <<>>
      BY <1>1, <1>2, <2>1
    <3>2. {down'[u][i] : i \in DOMAIN down'[u]} = {Answer(t)}
      BY <3>1
    <3>3. {down[u][i] : i \in DOMAIN down[u]} = {}
      BY <3>1
    <3> QED
      BY <2>0, <2>1, <3>2, <3>3 DEF Queued
  <2>2. CASE u = t
    <3>1. down'[u] = Append(down[u], punch)
      BY <1>2, <1>3, <2>2
    <3> HIDE DEF punch
    <3>2. Elements(down'[u]) = Elements(down[u]) \cup {punch}
      BY <1>5, <3>1, ElementsOfAppend
    <3> QED
      BY <1>3, <2>0, <2>2, <3>2 DEF Queued, Elements
  <2>3. CASE u # s /\ u # t
    BY <1>2, <2>0, <2>3 DEF Queued
  <2> QED
    BY <2>1, <2>2, <2>3
<1>7. Answered' = Answered \cup {<<s, t>>}
  BY <1>3, <1>6 DEF Answered
<1>8. AskerInv(s) /\ QueryIsDue(s)
  BY <1>1 DEF MeetingInv, QueryIsDue
<1>9. \A f \in Session : <<s, f>> \notin Learned \cup Answered
  BY <1>1, <1>8 DEF AskerInv, BeforeAnswer, Learned, Answered, Queued
<1>10. Meeting!Introduce(s, t)
  BY <1>1, <1>2, <1>4, <1>7, <1>9 DEF Meeting!Introduce
<1>11. ASSUME NEW u \in Session \ Targets PROVE AskerInv(u)'
  <2>1. AskerInv(u)
    BY DEF MeetingInv
  <2>2. BeforePing(u)' = BeforePing(u) /\ AtPlace(u, "timer")' = AtPlace(u, "timer")
    BY <1>1 DEF BeforePing, AtPlace
  <2>3. Query(u)' = Query(u) /\ \A v : Answer(v)' = Answer(v)
    BY DEF Query, Answer
  <2>4. CASE u # s
    <3>1. down'[u] = down[u]
      BY <1>2, <2>4
    <3> QED
      BY <1>1, <1>4, <2>1, <2>2, <2>3, <2>4, <3>1, SameStream DEF AskerInv, BeforeAnswer
  <2>5. CASE u = s
    <3>1. /\ ~ BeforePing(s) /\ ~ AtPlace(s, "timer")
      <4>1. <<Query(s)>> # <<>>
        OBVIOUS
      <4> QED
        BY <1>8, <4>1 DEF OnceInv, StreamInv
    <3>2. ~ QueryIsDue(s)' /\ ~ PingIsDue(s)' /\ <<>> # <<Query(s)>>
      BY NothingDue
    <3>3. down'[s] = <<Answer(t)>> /\ result'[s] = None
      BY <1>1, <1>2, <1>8 DEF AskerInv, BeforeAnswer
    <3>4. /\ BeforeAnswer(s)' = FALSE
          /\ AtPlace(s, "timer")' = FALSE
      BY <2>2, <2>5, <3>1, <3>2 DEF BeforeAnswer
    <3> QED
      BY <1>3, <2>3, <2>5, <3>2, <3>3, <3>4 DEF AskerInv
  <2> QED
    BY <2>4, <2>5
<1>12. ASSUME NEW u \in Targets PROVE AskedInv(u)'
  <2>1. AskedInv(u) /\ u # s /\ u \in Session
    BY <1>1 DEF MeetingInv, Targets
  <2>2. ~ AtPlace(u, "recv")'
    BY <1>1, <2>1 DEF AskedInv, AtPlace
  <2>3. ASSUME NEW i \in DOMAIN down'[u]
        PROVE  \E d \in Session : /\ down'[u][i] = [cmd |-> "PUNCH_HOLE", addr |-> d]
                                  /\ <<d, u>> \in Learned' \cup Answered'
    <3>1. CASE down'[u][i] \in {down[u][j] : j \in DOMAIN down[u]}
      BY <1>4, <1>7, <2>1, <3>1 DEF AskedInv
    <3>2. CASE u = t /\ down'[u][i] = punch
      BY <1>7, <3>2
    <3>3. \/ down'[u][i] \in {down[u][j] : j \in DOMAIN down[u]}
          \/ u = t /\ down'[u][i] = punch
      <4>1. CASE u = t
        <5>1. down'[u] = Append(down[u], punch)
          BY <1>2, <2>1, <4>1
        <5> HIDE DEF punch
        <5>2. Elements(down'[u]) = Elements(down[u]) \cup {punch}
          BY <1>5, <2>1, <5>1, ElementsOfAppend
        <5>3. down'[u][i] \in Elements(down'[u])
          BY DEF Elements
        <5> QED
          BY <4>1, <5>2, <5>3 DEF Elements
      <4>2. CASE u # t
        BY <1>2, <2>1, <4>2
      <4> QED
        BY <4>1, <4>2
    <3> QED
      BY <3>1, <3>2, <3>3
  <2> QED
    BY <2>2, <2>3 DEF AskedInv
<1> QED
  BY <1>1, <1>3, <1>10, <1>11, <1>12 DEF MeetingInv, Targets

\* A query that comes before its target has registered ends the server.
LEMMA MeetEnd ==
  ASSUME MeetOnce, OnceInv, OnceInv', MeetingInv, NEW b \in Slots, NEW s \in Session, s = bevs[b],
         Stream(s) = <<Query(s)>>, Stream(s)' = <<>>,
         \A u \in Session : u # s => Stream(u)' = Stream(u),
         process_query_device_info_cmd(b, Query(s)), Dst(Query(s)) = {},
         server = "up", UNCHANGED <<bevs, eof, peerVars>>
  PROVE  MeetingInv' /\ Meeting!End
<1>1. Sn[s[1]] # Target
  BY DEF OnceInv, StreamInv, QueryIsDue
<1>2. Entries(Target) = {}
  <2>1. AskOnce
    BY DEF MeetOnce, AskOnce
  <2> QED
    BY <1>1, <2>1, QueryFinds
<1>3. Registered \cap Targets = {}
  BY <1>2 DEF Registered, Targets, Entries, OnceInv, EntryInv
<1>4. /\ UNCHANGED <<devices, down, pc, start, heard, result>> /\ server' = "aborted"
  <2>1. server' = "aborted" /\ down' = down
    BY QueryCases DEF OnceInv, TypeOK
  <2> QED
    BY <2>1 DEF process_query_device_info_cmd, peerVars
<1>5. ASSUME NEW u \in Session \ Targets
      PROVE  /\ BeforeAnswer(u)' => BeforeAnswer(u)
             /\ AtPlace(u, "timer")' /\ ~ PingIsDue(u)' => u \in Registered
             /\ Stream(u)' = <<Query(u)>> => u \in Registered
  <2>1. AskerInv(u)
    BY DEF MeetingInv
  <2>2. BeforePing(u)' = BeforePing(u) /\ AtPlace(u, "timer")' = AtPlace(u, "timer")
    BY <1>4 DEF BeforePing, AtPlace
  <2>3. CASE u # s
    BY <2>1, <2>2, <2>3, SameStream DEF AskerInv, BeforeAnswer
  <2>4. CASE u = s
    <3>1. QueryIsDue(s) /\ ~ QueryIsDue(s)' /\ <<Query(s)>> # <<>>
      BY NothingDue DEF QueryIsDue
    <3> QED
      BY <2>1, <2>2, <2>4, <3>1 DEF AskerInv, BeforeAnswer, OnceInv, StreamInv
  <2> QED
    BY <2>3, <2>4
<1>6. \A u \in Targets : ~ AtPlace(u, "recv")'
  BY <1>4 DEF MeetingInv, AskedInv, AtPlace
<1>7. MeetingInv' /\ UNCHANGED <<Registered, Learned, Answered, Heard>>
  BY <1>4, <1>5, <1>6, MeetFrame
<1> QED
  BY <1>3, <1>4, <1>7 DEF Meeting!End

\* The answer, which is the only message there is, is what recv takes.
LEMMA MeetRecv ==
  ASSUME OnceInv, OnceInv', MeetingInv, NEW p \in Peers, RecvAnswer(p)
  PROVE  MeetingInv' /\ \E pair \in Session \X Session : Meeting!Learn(pair)
<1>1. PICK s \in Session : s = Now(p)
  BY NowIsSession DEF RecvAnswer, OnceInv
<1>2. /\ down[s] # <<>>
      /\ result' = [result EXCEPT ![s] = Head(down[s]).addr]
      /\ down' = [down EXCEPT ![s] = Tail(down[s])]
      /\ pc' = [pc EXCEPT ![p] = "done"]
      /\ UNCHANGED <<server, devices, bevs, input, wire, eof, start, heard>>
  BY <1>1 DEF RecvAnswer
<1>3. /\ down \in [Session -> Seq(Reply)] /\ result \in [Session -> Session \cup {None}]
      /\ pc \in [Peers -> Running \cup {"off", "recv", "done"}]
  BY DEF OnceInv, TypeOK, ServerTypeOK
<1>4. s \notin Targets
  <2>1. AtPlace(s, "recv")
    BY <1>1 DEF RecvAnswer, AtPlace, Now
  <2> QED
    BY <2>1 DEF MeetingInv, AskedInv
<1>5. AskerInv(s)
  BY <1>4 DEF MeetingInv
<1>6. PICK t \in Session : down[s] = <<Answer(t)>>
  BY <1>2, <1>5 DEF AskerInv
<1>7. ~ BeforeAnswer(s) /\ result[s] = None
  BY <1>2, <1>5 DEF AskerInv
<1>8. /\ result'[s] = t /\ down'[s] = <<>>
      /\ \A u \in Session : u # s => result'[u] = result[u] /\ down'[u] = down[u]
  BY <1>2, <1>3, <1>6 DEF Answer
<1>9. Learned' = Learned \cup {<<s, t>>}
  BY <1>7, <1>8 DEF Learned
<1>10. /\ <<s, t>> \in Answered
       /\ Answered' = Answered \ {<<s, t>>}
  <2>1. \A v \in Session : Answer(v)' = Answer(v) /\ (Answer(v) = Answer(t) <=> v = t)
    BY DEF Answer
  <2>2. {down[s][i] : i \in DOMAIN down[s]} = {Answer(t)}
    BY <1>6
  <2>3. {down'[s][i] : i \in DOMAIN down'[s]} = {}
    BY <1>8
  <2>4. \A v \in Session : ~ Queued(s, Answer(v))' /\ (Queued(s, Answer(v)) <=> v = t)
    BY <2>1, <2>2, <2>3 DEF Queued
  <2>5. \A u, v \in Session : u # s => (Queued(u, Answer(v))' <=> Queued(u, Answer(v)))
    BY <1>8, <2>1 DEF Queued
  <2> QED
    BY <2>4, <2>5 DEF Answered
<1>11. Heard' = Heard /\ Registered' = Registered
  BY <1>2, SameIntroductions
<1>12. <<s, t>> \notin Learned
  BY <1>7 DEF Learned
<1>13. Meeting!Learn(<<s, t>>)
  BY <1>2, <1>9, <1>10, <1>11, <1>12 DEF Meeting!Learn
<1>14. \A u \in Session : Stream(u)' = Stream(u)
  BY <1>2 DEF Stream
<1>15. \A u \in Session : /\ BeforePing(u)' => BeforePing(u)
                          /\ AtPlace(u, "timer")' => AtPlace(u, "timer")
                          /\ AtPlace(u, "recv")' => AtPlace(u, "recv")
  BY <1>2, <1>3 DEF BeforePing, AtPlace, Session
<1>16. ASSUME NEW u \in Session \ Targets PROVE AskerInv(u)'
  <2>1. AskerInv(u)
    BY DEF MeetingInv
  <2>2. Query(u)' = Query(u) /\ \A v : Answer(v)' = Answer(v)
    BY DEF Query, Answer
  <2>3. PingIsDue(u)' = PingIsDue(u) /\ QueryIsDue(u)' = QueryIsDue(u)
    BY <1>14, SameStream
  <2>4. BeforeAnswer(u)' => BeforeAnswer(u)
    BY <1>15, <2>3 DEF BeforeAnswer
  <2>5. CASE u # s
    BY <1>8, <1>11, <1>14, <1>15, <2>1, <2>2, <2>3, <2>4, <2>5 DEF AskerInv
  <2>6. CASE u = s
    BY <1>7, <1>8, <1>11, <1>14, <1>15, <2>1, <2>2, <2>3, <2>4, <2>6 DEF AskerInv
  <2> QED
    BY <2>5, <2>6
<1>17. ASSUME NEW u \in Targets PROVE AskedInv(u)'
  <2>1. AskedInv(u) /\ u # s /\ u \in Session
    BY <1>4 DEF MeetingInv, Targets
  <2>2. Learned \cup Answered = Learned' \cup Answered'
    BY <1>9, <1>10
  <2> QED
    BY <1>8, <1>15, <2>1, <2>2 DEF AskedInv
<1> QED
  BY <1>2, <1>13, <1>16, <1>17 DEF MeetingInv, Targets

\* The device that is asked for hears of an introduction, perhaps once more.
LEMMA MeetHole ==
  ASSUME OnceInv, OnceInv', MeetingInv, NEW p \in Peers, PunchHole(p)
  PROVE  /\ MeetingInv'
         /\ (\E pair \in Session \X Session : Meeting!Hear(pair)) \/ UNCHANGED Meeting!vars
<1>1. PICK s \in Session : s = Now(p)
  BY NowIsSession DEF PunchHole, Running, OnceInv
<1>2. /\ down[s] # <<>> /\ Head(down[s]).cmd = "PUNCH_HOLE"
      /\ heard' = [heard EXCEPT ![s] = heard[s] \cup {Head(down[s]).addr}]
      /\ down' = [down EXCEPT ![s] = Tail(down[s])]
      /\ UNCHANGED <<server, devices, bevs, input, wire, eof, pc, start, result>>
  BY <1>1 DEF PunchHole
<1>3. /\ down \in [Session -> Seq(Reply)]
      /\ heard \in [Session -> SUBSET (Session \cup {None})]
  BY DEF OnceInv, TypeOK, ServerTypeOK
<1>4. s \in Targets
  <2> SUFFICES ASSUME s \notin Targets PROVE FALSE
    OBVIOUS
  <2>1. PICK t \in Session : down[s] = <<Answer(t)>>
    BY <1>2 DEF MeetingInv, AskerInv
  <2>2. Head(down[s]) = Answer(t)
    BY <2>1
  <2> QED
    BY <1>2, <2>2 DEF Answer
<1>5. /\ 1 \in DOMAIN down[s] /\ Head(down[s]) = down[s][1]
      /\ DOMAIN Tail(down[s]) = 1..Len(down[s]) - 1 /\ Len(down[s]) \in Nat
      /\ DOMAIN down[s] = 1..Len(down[s])
      /\ \A i \in 1..Len(down[s]) - 1 : Tail(down[s])[i] = down[s][i+1]
  <2>1. down[s] \in Seq(Reply) /\ down[s] # <<>>
    BY <1>2, <1>3
  <2> QED
    BY <2>1, HeadTailProperties
<1>6. AskedInv(s)
  BY <1>4 DEF MeetingInv
<1>7. PICK d \in Session : /\ Head(down[s]) = [cmd |-> "PUNCH_HOLE", addr |-> d]
                           /\ <<d, s>> \in Learned \cup Answered
  BY <1>5, <1>6 DEF AskedInv
<1>8. /\ heard'[s] = heard[s] \cup {d} /\ down'[s] = Tail(down[s])
      /\ \A u \in Session : u # s => heard'[u] = heard[u] /\ down'[u] = down[u]
  BY <1>2, <1>3, <1>7
<1>9. Heard' = Heard \cup {<<d, s>>}
  BY <1>8 DEF Heard
<1>10. Learned' = Learned /\ Registered' = Registered
  BY <1>2, SameIntroductions
<1>11. \A i \in DOMAIN down'[s] : i + 1 \in DOMAIN down[s] /\ down'[s][i] = down[s][i+1]
  BY <1>5, <1>8
<1>12. Answered' = Answered
  <2>1. \A v : Answer(v)' = Answer(v) /\ \A e : Answer(v) # [cmd |-> "PUNCH_HOLE", addr |-> e]
    BY DEF Answer
  <2>2. ASSUME NEW v \in Session PROVE ~ Queued(s, Answer(v)) /\ ~ Queued(s, Answer(v))'
    <3>1. \A i \in DOMAIN down[s] : down[s][i] # Answer(v)
      BY <1>6, <2>1 DEF AskedInv
    <3>2. \A i \in DOMAIN down'[s] : down'[s][i] # Answer(v)
      BY <1>11, <3>1
    <3> QED
      BY <2>1, <3>1, <3>2 DEF Queued
  <2>3. \A u, v \in Session : u # s => (Queued(u, Answer(v))' <=> Queued(u, Answer(v)))
    BY <1>8, <2>1 DEF Queued
  <2> QED
    BY <2>2, <2>3 DEF Answered
<1>13. (\E pair \in Session \X Session : Meeting!Hear(pair)) \/ UNCHANGED Meeting!vars
  <2>1. CASE <<d, s>> \in Heard
    BY <1>2, <1>9, <1>10, <1>12, <2>1 DEF Meeting!vars
  <2>2. CASE <<d, s>> \notin Heard
    <3>1. Meeting!Hear(<<d, s>>)
      BY <1>2, <1>7, <1>9, <1>10, <1>12, <2>2 DEF Meeting!Hear
    <3> QED
      BY <3>1
  <2> QED
    BY <2>1, <2>2
<1>14. ASSUME NEW u \in Session
       PROVE  /\ Stream(u)' = Stream(u) /\ BeforePing(u)' = BeforePing(u)
              /\ \A place : AtPlace(u, place)' = AtPlace(u, place)
              /\ PingIsDue(u)' = PingIsDue(u) /\ QueryIsDue(u)' = QueryIsDue(u)
  <2>1. Stream(u)' = Stream(u)
    BY <1>2 DEF Stream
  <2>2. \A place : AtPlace(u, place)' = AtPlace(u, place)
    BY <1>2 DEF AtPlace
  <2>3. BeforePing(u)' = BeforePing(u)
    BY <1>2 DEF BeforePing, AtPlace
  <2> QED
    BY <2>1, <2>2, <2>3, SameStream
<1>15. ASSUME NEW u \in Session \ Targets PROVE AskerInv(u)'
  <2>1. AskerInv(u) /\ u # s
    BY <1>4 DEF MeetingInv
  <2>2. Query(u)' = Query(u) /\ \A v : Answer(v)' = Answer(v)
    BY DEF Query, Answer
  <2>3. BeforeAnswer(u)' = BeforeAnswer(u) /\ AtPlace(u, "timer")' = AtPlace(u, "timer")
    BY <1>14 DEF BeforeAnswer
  <2> QED
    BY <1>2, <1>8, <1>10, <1>14, <2>1, <2>2, <2>3 DEF AskerInv
<1>16. ASSUME NEW u \in Targets PROVE AskedInv(u)'
  <2>1. AskedInv(u) /\ u \in Session
    BY DEF MeetingInv, Targets
  <2>2. ~ AtPlace(u, "recv")'
    BY <1>2, <2>1 DEF AskedInv, AtPlace
  <2>3. ASSUME NEW i \in DOMAIN down'[u]
        PROVE  \E j \in DOMAIN down[u] : down'[u][i] = down[u][j]
    BY <1>8, <1>11, <2>1
  <2> QED
    BY <1>10, <1>12, <2>1, <2>2, <2>3 DEF AskedInv
<1> QED
  BY <1>2, <1>13, <1>15, <1>16 DEF MeetingInv, Targets

\* A step that sends nothing and at most stops a peer changes nothing here.
LEMMA MeetStill ==
  ASSUME OnceInv, MeetingInv,
         UNCHANGED <<server, devices, eof, down, heard, result, input, wire, start>>,
         \A b \in Slots : bevs[b] # None => bevs'[b] = bevs[b],
         \A p \in Peers : pc'[p] \in {pc[p], "done"}
  PROVE  MeetingInv' /\ UNCHANGED Meeting!vars
<1>1. ASSUME NEW u \in Session
      PROVE  /\ Stream(u)' = Stream(u) /\ (BeforePing(u)' => BeforePing(u))
             /\ AtPlace(u, "timer")' => AtPlace(u, "timer")
             /\ AtPlace(u, "recv")' => AtPlace(u, "recv")
             /\ PingIsDue(u)' = PingIsDue(u) /\ QueryIsDue(u)' = QueryIsDue(u)
  <2>1. Stream(u)' = Stream(u)
    BY DEF Stream
  <2>2. u[1] \in Peers
    BY DEF Session
  <2>3. /\ AtPlace(u, "timer")' => AtPlace(u, "timer")
        /\ AtPlace(u, "recv")' => AtPlace(u, "recv")
        /\ BeforePing(u)' => BeforePing(u)
    BY <2>2 DEF AtPlace, BeforePing
  <2> QED
    BY <2>1, <2>3, SameStream
<1>2. ASSUME NEW u \in Session \ Targets
      PROVE  /\ BeforeAnswer(u)' => BeforeAnswer(u)
             /\ AtPlace(u, "timer")' /\ ~ PingIsDue(u)' => u \in Registered
             /\ Stream(u)' = <<Query(u)>> => u \in Registered
  <2>1. AskerInv(u)
    BY DEF MeetingInv
  <2> QED
    BY <1>1, <2>1 DEF AskerInv, BeforeAnswer
<1>3. \A u \in Targets : ~ AtPlace(u, "recv")'
  BY <1>1 DEF MeetingInv, AskedInv, Targets
<1>4. MeetingInv' /\ UNCHANGED <<Registered, Learned, Answered, Heard>>
  BY <1>2, <1>3, MeetFrame
<1> QED
  BY <1>4 DEF Meeting!vars

\* Every step of the server is a step of Rendezvous, or none of its business.
LEMMA MeetServer ==
  ASSUME MeetOnce, OnceInv, OnceInv', MeetingInv, ServerNext, UNCHANGED peerVars
  PROVE  MeetingInv' /\ (Meeting!Next \/ UNCHANGED Meeting!vars)
<1> PICK b \in Slots :
      \/ \E s \in Session : listener_cb(s, b)
      \/ \E k \in Coalesced : conn_read_cb(b, k)
      \/ conn_event_cb(b)
  BY DEF ServerNext
<1>1. CASE \E s \in Session : listener_cb(s, b)
  <2>1. UNCHANGED <<server, devices, eof, down, input, wire>>
    BY <1>1 DEF listener_cb
  <2>2. \A c \in Slots : bevs[c] # None => bevs'[c] = bevs[c]
    BY <1>1 DEF listener_cb, OnceInv, TypeOK, ServerTypeOK
  <2>3. UNCHANGED <<pc, start, heard, result>>
    BY DEF peerVars
  <2> QED
    BY <2>1, <2>2, <2>3, MeetStill
<1>2. ASSUME NEW k \in Coalesced, conn_read_cb(b, k)
      PROVE  MeetingInv' /\ (Meeting!Next \/ UNCHANGED Meeting!vars)
  <2>0. PICK s \in Session : s = bevs[b]
    BY <1>2 DEF conn_read_cb, OnceInv, TypeOK, ServerTypeOK
  <2>1. server = "up" /\ UNCHANGED <<bevs, eof>>
    BY <1>2, Zenon DEF conn_read_cb
  <2>2. /\ Stream(s) # <<>> /\ Stream(s)' = Tail(Stream(s))
        /\ \A u \in Session : u # s => Stream(u)' = Stream(u)
    BY <1>2, <2>0, StreamShrinks DEF OnceInv
  <2>3. LET m == Head(Stream(s)) IN
        \/ m.cmd = "PING" /\ process_ping_cmd(b, m)
        \/ m.cmd = "QUERY_DEVICE_INFO_REQUEST" /\ process_query_device_info_cmd(b, m)
    BY <1>2, <2>0, StreamShrinks DEF OnceInv
  <2>4. CASE Head(Stream(s)).cmd = "PING" /\ process_ping_cmd(b, Head(Stream(s)))
    <3>1. MeetingInv' /\ Meeting!Register(s)
      BY <2>0, <2>1, <2>2, <2>4, MeetPing
    <3> QED
      BY <3>1 DEF Meeting!Next
  <2>5. CASE /\ Head(Stream(s)).cmd = "QUERY_DEVICE_INFO_REQUEST"
             /\ process_query_device_info_cmd(b, Head(Stream(s)))
    <3>1. /\ Stream(s) = <<Query(s)>> /\ Head(Stream(s)) = Query(s)
          /\ Tail(Stream(s)) = <<>>
      BY <2>2, <2>5, FirstOfStream DEF OnceInv, StreamInv
    <3>2. Stream(s)' = <<>> /\ process_query_device_info_cmd(b, Query(s))
      BY <2>2, <2>5, <3>1
    <3>3. CASE Dst(Query(s)) # {}
      <4>1. MeetingInv' /\ \E t \in Session : Meeting!Introduce(s, t)
        BY <2>0, <2>1, <2>2, <3>1, <3>2, <3>3, MeetAnswer
      <4> QED
        BY <4>1 DEF Meeting!Next
    <3>4. CASE Dst(Query(s)) = {}
      <4>1. MeetingInv' /\ Meeting!End
        BY <2>0, <2>1, <2>2, <3>1, <3>2, <3>4, MeetEnd
      <4> QED
        BY <4>1 DEF Meeting!Next
    <3> QED
      BY <3>3, <3>4
  <2> QED
    BY <2>3, <2>4, <2>5
<1>3. CASE conn_event_cb(b)
  BY <1>3 DEF conn_event_cb, MeetingInv
<1> QED
  BY <1>1, <1>2, <1>3

\* Connecting, pinging and asking are not yet steps of Rendezvous.
LEMMA MeetSend ==
  ASSUME OnceInv, OnceInv', MeetingInv, NEW p \in Peers,
         connect_server(p) \/ ping_cb(p) \/ user_cb(p)
  PROVE  MeetingInv' /\ UNCHANGED Meeting!vars
<1>1. UNCHANGED <<server, devices, bevs, eof, down, heard, result, input>>
  BY DEF connect_server, ping_cb, user_cb
<1>2. /\ pc \in [Peers -> Running \cup {"off", "recv", "done"}]
      /\ start \in [Peers -> Nat]
  BY DEF OnceInv, TypeOK
<1>3. ASSUME NEW u \in Session
      PROVE  /\ BeforeAnswer(u)' => BeforeAnswer(u)
             /\ u \notin Targets =>
                  /\ AtPlace(u, "timer")' /\ ~ PingIsDue(u)' => u \in Registered
                  /\ Stream(u)' = <<Query(u)>> => u \in Registered
             /\ u \in Targets => ~ AtPlace(u, "recv")'
  <2>0. u[1] \in Peers /\ u[2] \in Nat
    BY DEF Session
  <2>1. /\ u \notin Targets => AskerInv(u)
        /\ u \in Targets => AskedInv(u)
    BY DEF MeetingInv
  <2>2. CASE connect_server(p)
    <3>1. /\ start' = [start EXCEPT ![p] = start[p] + 1]
          /\ pc' = [pc EXCEPT ![p] = "connected"] /\ wire' = wire
      BY <2>2 DEF connect_server
    <3>2. /\ BeforePing(u)' => BeforePing(u)
          /\ AtPlace(u, "timer")' => AtPlace(u, "timer")
          /\ AtPlace(u, "recv")' => AtPlace(u, "recv")
      BY <1>2, <2>0, <3>1 DEF BeforePing, AtPlace
    <3>3. Stream(u)' = Stream(u)
      BY <1>1, <3>1 DEF Stream
    <3> QED
      BY <2>1, <3>2, <3>3, SameStream DEF AskerInv, AskedInv, BeforeAnswer
  <2>3. ASSUME ~ connect_server(p) PROVE start' = start
    BY <2>3 DEF ping_cb, user_cb
  <2>4. ASSUME ~ connect_server(p), u # Now(p)
        PROVE  Stream(u)' = Stream(u) /\ \A place : AtPlace(u, place)' => AtPlace(u, place)
    <3>1. PICK q \in Running \cup {"recv"} : pc' = [pc EXCEPT ![p] = q]
      BY <2>4 DEF ping_cb, user_cb, Running
    <3>2. start' = start
      BY <2>3, <2>4
    <3>3. u[1] = p => u[2] # start[p]
      BY <2>4 DEF Now, Session
    <3>4. \A place : AtPlace(u, place)' => AtPlace(u, place)
      BY <1>2, <2>0, <3>1, <3>2, <3>3 DEF AtPlace
    <3>5. PICK m : wire' = [wire EXCEPT ![Now(p)] = Append(@, m)]
      BY <2>4 DEF ping_cb, user_cb, Send
    <3>6. wire'[u] = wire[u]
      BY <2>4, <3>5 DEF OnceInv, TypeOK, ServerTypeOK
    <3> QED
      BY <1>1, <3>4, <3>6 DEF Stream
  <2>5. CASE ~ connect_server(p) /\ u # Now(p)
    <3>1. BeforePing(u)' => BeforePing(u)
      BY <2>3, <2>4, <2>5 DEF BeforePing
    <3> QED
      BY <2>1, <2>4, <2>5, <3>1, SameStream DEF AskerInv, AskedInv, BeforeAnswer
  <2>6. CASE ping_cb(p) /\ u = Now(p)
    <3>1. Send(u, Ping(u)) /\ AtPlace(u, "connected") /\ u[1] = p
      BY <2>6 DEF ping_cb, Ping, AtPlace, Now
    <3>2. BeforeAnswer(u) /\ Stream(u) = <<>>
      BY <3>1 DEF BeforeAnswer, BeforePing, OnceInv, StreamInv
    <3>3. Stream(u)' = <<Ping(u)>>
      <4>1. Ping(u) \in Request
        BY <2>0 DEF Ping, Request
      <4>2. Stream(u)' = Append(<<>>, Ping(u))
        BY <1>1, <3>1, <3>2, <4>1, StreamGrows DEF OnceInv
      <4> QED
        BY <4>2, PingIsNotQuery, Tuples
    <3>4. PingIsDue(u)' /\ Stream(u)' # <<Query(u)>>
      <4>1. PingIsDue(u)' <=> Stream(u)' \in {<<Ping(u)>>, <<Ping(u), Query(u)>>}
        BY DEF PingIsDue, Ping, Query
      <4> QED
        BY <3>3, <4>1, PingIsNotQuery, Tuples
    <3>5. ~ AtPlace(u, "recv")'
      BY <1>2, <2>6, <3>1 DEF ping_cb, AtPlace
    <3> QED
      BY <3>2, <3>4, <3>5
  <2>7. CASE user_cb(p) /\ u = Now(p)
    <3>1. Send(u, Query(u)) /\ AtPlace(u, "timer") /\ u[1] = p
      BY <2>7 DEF user_cb, Query, AtPlace, Now
    <3>2. BeforeAnswer(u) /\ u \notin Targets /\ Stream(u) \in Streams(u) /\ ~ QueryIsDue(u)
      BY <3>1 DEF BeforeAnswer, OnceInv, StreamInv, Targets
    <3>3. ~ AtPlace(u, "timer")'
      BY <1>2, <2>7, <3>1 DEF user_cb, AtPlace
    <3>4. Stream(u)' = <<Query(u)>> => Stream(u) = <<>>
      <4>1. Query(u) \in Request
        BY <2>0 DEF Query, Request
      <4>2. Stream(u)' = Append(Stream(u), Query(u))
        BY <1>1, <3>1, <4>1, StreamGrows DEF OnceInv
      <4>3. Stream(u) \in {<<>>, <<Ping(u)>>}
        BY <3>2 DEF Streams, QueryIsDue
      <4>4. Append(<<Ping(u)>>, Query(u)) # <<Query(u)>>
        BY PingIsNotQuery, Tuples
      <4> QED
        BY <4>2, <4>3, <4>4
    <3>5. Stream(u) = <<>> => u \in Registered
      BY <2>1, <3>1, <3>2, NothingDue DEF AskerInv
    <3> QED
      BY <3>2, <3>3, <3>4, <3>5
  <2> QED
    BY <2>2, <2>5, <2>6, <2>7
<1>4. MeetingInv' /\ UNCHANGED <<Registered, Learned, Answered, Heard>>
  <2>1. \A s \in Session \ Targets :
          /\ BeforeAnswer(s)' => BeforeAnswer(s)
          /\ AtPlace(s, "timer")' /\ ~ PingIsDue(s)' => s \in Registered
          /\ Stream(s)' = <<Query(s)>> => s \in Registered
    BY <1>3
  <2>2. \A s \in Targets : ~ AtPlace(s, "recv")'
    BY <1>3 DEF Targets
  <2> QED
    BY <1>1, <2>1, <2>2, MeetFrame
<1> QED
  BY <1>1, <1>4 DEF Meeting!vars

LEMMA MeetStep ==
  ASSUME MeetOnce, OnceInv, OnceInv', MeetingInv, [Next]_vars
  PROVE  MeetingInv' /\ [Meeting!Next]_(Meeting!vars)
<1>1. ASSUME NEW p \in Peers, LoseServer(p)
      PROVE  MeetingInv' /\ UNCHANGED Meeting!vars
  <2>1. /\ UNCHANGED <<server, devices, bevs, eof, down, heard, result, input, wire, start>>
        /\ \A q \in Peers : pc'[q] \in {pc[q], "done"}
    BY <1>1 DEF LoseServer, serverVars, net, OnceInv, TypeOK
  <2> QED
    BY <2>1, MeetStill
<1>2. CASE UNCHANGED vars
  <2>1. UNCHANGED <<server, devices, bevs, eof, down, heard, result, input, wire, start, pc>>
    BY <1>2 DEF vars, serverVars, net, peerVars
  <2> QED
    BY <2>1, MeetStill
<1>3. ASSUME NEW p \in Peers, Kill(p) PROVE FALSE
  BY <1>3 DEF Kill, MeetOnce
<1>4. ASSUME NEW p \in Peers, RecvAnswer(p) PROVE MeetingInv' /\ Meeting!Next
  BY <1>4, MeetRecv DEF Meeting!Next
<1>5. ASSUME NEW p \in Peers, PunchHole(p)
      PROVE  MeetingInv' /\ (Meeting!Next \/ UNCHANGED Meeting!vars)
  BY <1>5, MeetHole DEF Meeting!Next
<1> QED
  BY <1>1, <1>2, <1>3, <1>4, <1>5, MeetServer, MeetSend DEF Next, PeerNext

\* However the messages of the devices meet at the server, and TCP cuts them up, what
\* they get to know is what one introduction at a time can tell them: P2pTransfer
\* implements the safety part of Rendezvous (92-248). It needs what MeetOnce says.
THEOREM IntroducesDevices ==
  ASSUME MeetOnce
  PROVE  Spec => Meeting!Safety
<1>1. OnceInv /\ OnceInv' /\ MeetingInv /\ [Next]_vars
        => MeetingInv' /\ [Meeting!Next]_(Meeting!vars)
  BY MeetStep
<1> QED
  BY <1>1, MeetInit, OnceInvariant, PTL DEF Spec, Meeting!Safety
-----------------------------------------------------------------------------
(* HolePunch, for every number of retries, with and without NATs on each side. *)
USE DevicesAssumption, RetryAssumption

\* The two devices are each other's other.
LEMMA OtherIsOther ==
  ASSUME NEW d \in Devices
  PROVE  /\ Other(d) \in Devices /\ Other(d) # d /\ Other(Other(d)) = d
         /\ \A e \in Devices : e = d \/ e = Other(d)
  BY DEF Devices, Other

\* The initial states have the types of HoleTypeOK.
LEMMA HoleTypeInit == HoleInit => HoleTypeOK
  <1> SUFFICES ASSUME HoleInit PROVE HoleTypeOK
    OBVIOUS
  <1>1. sent \in BOOLEAN /\ lost \in BOOLEAN
    BY Zenon DEF HoleInit
  <1>2. retry \in [Devices -> 0..Retry]
    BY DEF HoleInit
  <1>3. public \subseteq Devices /\ tried \subseteq Devices
    BY DEF HoleInit
  <1> QED BY <1>1, <1>2, <1>3 DEF HoleInit, HoleTypeOK

\* Every step keeps the types.
LEMMA HoleTypeStep == HoleTypeOK /\ [HoleNext]_holeVars => HoleTypeOK'
  <1> SUFFICES ASSUME HoleTypeOK, [HoleNext]_holeVars PROVE HoleTypeOK'
    OBVIOUS
  <1> USE DEF HoleTypeOK, Goto
  <1>1. ASSUME NEW d \in Devices, Start(d) PROVE HoleTypeOK'
    BY <1>1 DEF Start
  <1>2. ASSUME NEW d \in Devices, Punch(d) PROVE HoleTypeOK'
    <2>1. CASE Try(d)
      BY <2>1 DEF Try
    <2>2. CASE GiveUp(d)
      BY <2>2 DEF GiveUp
    <2>3. CASE Connect(d)
      BY <2>3 DEF Connect
    <2>4. CASE Wake(d)
      BY <2>4 DEF Wake
    <2>5. CASE SynMeetsSyn(d)
      BY <2>5 DEF SynMeetsSyn
    <2>6. CASE SynMeetsListener(d)
      BY <2>6 DEF SynMeetsListener
    <2>7. CASE SynDropped(d)
      BY <2>7 DEF SynDropped
    <2>8. CASE SynLost(d)
      BY <2>8 DEF SynLost
    <2> QED BY <1>2, <2>1, <2>2, <2>3, <2>4, <2>5, <2>6, <2>7, <2>8 DEF Punch
  <1>3. CASE SendAbc
    BY <1>3 DEF SendAbc
  <1>4. CASE ReceiveAbc
    BY <1>4 DEF ReceiveAbc
  <1>5. CASE UNCHANGED holeVars
    BY <1>5 DEF holeVars
  <1> QED BY <1>1, <1>2, <1>3, <1>4, <1>5 DEF HoleNext

\* The variables of connect_peer keep their types: no try is made too many (:86, 100).
THEOREM HoleTypeCorrect == HoleSpec => []HoleTypeOK
  BY HoleTypeInit, HoleTypeStep, PTL DEF HoleSpec
-----------------------------------------------------------------------------
(* A device whose SYN is under way has no end of a connection yet: with that, *)
(* ConnectionHasTwoEnds is inductive.                                         *)
EndsInv ==
  /\ ConnectionHasTwoEnds
  /\ \A d \in Devices : stage[d] = "syn_sent" => end[d] = "none"

\* There is no connection at first.
LEMMA EndsInit == HoleInit => EndsInv
  BY DEF HoleInit, EndsInv, ConnectionHasTwoEnds, Success

\* Every step keeps EndsInv: what has an end of the connection is connected once.
LEMMA EndsStep == HoleTypeOK /\ EndsInv /\ [HoleNext]_holeVars => EndsInv'
  <1> SUFFICES ASSUME HoleTypeOK, EndsInv, [HoleNext]_holeVars PROVE EndsInv'
    OBVIOUS
  <1> USE DEF HoleTypeOK, Goto, EndsInv, ConnectionHasTwoEnds, Success
  <1>1. ASSUME NEW d \in Devices, Start(d) PROVE EndsInv'
    BY <1>1 DEF Start
  <1>2. ASSUME NEW d \in Devices, Punch(d) PROVE EndsInv'
    <2>1. CASE Try(d)
      BY <2>1 DEF Try
    <2>2. CASE GiveUp(d)
      BY <2>2 DEF GiveUp
    <2>3. CASE Connect(d)
      BY <2>3 DEF Connect
    <2>4. CASE Wake(d)
      BY <2>4 DEF Wake
    <2>5. CASE SynMeetsSyn(d)
      <3>1. \A e \in Devices : stage'[e] = "connected" /\ end'[e] = "connect"
        BY <2>5 DEF SynMeetsSyn
      <3> QED BY <3>1, OtherIsOther
    <2>6. CASE SynMeetsListener(d)
      <3>1. /\ stage[Other(d)] \notin Success \cup {"syn_sent"}
            /\ end[d] = "none"
        BY <2>6, OtherIsOther DEF SynMeetsListener
      <3>2. /\ stage'[d] = "connected" /\ stage'[Other(d)] = stage[Other(d)]
            /\ end'[d] = "connect" /\ end'[Other(d)] = "listener"
        BY <2>6, OtherIsOther DEF SynMeetsListener
      <3> QED BY <3>1, <3>2, OtherIsOther
    <2>7. CASE SynDropped(d)
      BY <2>7 DEF SynDropped
    <2>8. CASE SynLost(d)
      BY <2>8 DEF SynLost
    <2> QED BY <1>2, <2>1, <2>2, <2>3, <2>4, <2>5, <2>6, <2>7, <2>8 DEF Punch
  <1>3. CASE SendAbc
    BY <1>3 DEF SendAbc, Devices
  <1>4. CASE ReceiveAbc
    BY <1>4 DEF ReceiveAbc, Devices
  <1>5. CASE UNCHANGED holeVars
    BY <1>5 DEF holeVars
  <1> QED BY <1>1, <1>2, <1>3, <1>4, <1>5 DEF HoleNext

\* Who says "punch hole success" has one end of a connection, and the other device
\* has the other end, its own socket's or its listener's (ConnectionHasTwoEnds; :100-143).
THEOREM SuccessHasTwoEnds == HoleSpec => []ConnectionHasTwoEnds
  <1>1. EndsInv => ConnectionHasTwoEnds
    BY DEF EndsInv
  <1> QED BY <1>1, HoleTypeInit, HoleTypeStep, EndsInit, EndsStep, PTL DEF HoleSpec
-----------------------------------------------------------------------------
(* BothFailOnlyByLoss is inductive by itself: a SYN that is not lost is       *)
(* dropped only by the NAT of a device that has not sent one.                 *)

\* No device has sent a SYN at first.
LEMMA FailInit == HoleInit => BothFailOnlyByLoss
  BY DEF HoleInit, BothFailOnlyByLoss, Devices

\* Every step keeps BothFailOnlyByLoss.
LEMMA FailStep ==
  HoleTypeOK /\ BothFailOnlyByLoss /\ [HoleNext]_holeVars => BothFailOnlyByLoss'
  <1> SUFFICES ASSUME HoleTypeOK, BothFailOnlyByLoss, [HoleNext]_holeVars,
                      tried' = Devices, ~ lost'
               PROVE  \E d \in Devices : stage'[d] \in Success \cup {"syn_sent"}
    BY DEF BothFailOnlyByLoss
  <1> USE DEF HoleTypeOK, Goto, Success
  <1>1. CASE tried # Devices
    <2>1. PICK d \in Devices : tried' # tried /\ Connect(d)
      BY <1>1 DEF HoleNext, Punch, Start, Try, GiveUp, Connect, Wake, SynMeetsSyn,
                  SynMeetsListener, SynDropped, SynLost, SendAbc, ReceiveAbc, holeVars
    <2> QED BY <2>1 DEF Connect
  <1>2. CASE tried = Devices
    <2>0. ~ lost /\ \A d \in Devices : ~ SynLost(d)
      BY <1>2 DEF HoleNext, Punch, Start, Try, GiveUp, Connect, Wake, SynMeetsSyn,
                  SynMeetsListener, SynDropped, SynLost, SendAbc, ReceiveAbc, holeVars
    <2>1. PICK e \in Devices : stage[e] \in Success \cup {"syn_sent"}
      BY <1>2, <2>0 DEF BothFailOnlyByLoss
    <2>2. ASSUME NEW d \in Devices, Start(d) PROVE stage'[e] = stage[e]
      BY <2>1, <2>2 DEF Start
    <2>3. ASSUME NEW d \in Devices, Punch(d) PROVE stage'[e] \in Success \cup {"syn_sent"}
      <3>1. ~ SynDropped(d)
        BY <1>2, OtherIsOther DEF SynDropped, Reachable
      <3>2. CASE SynMeetsSyn(d) \/ SynMeetsListener(d)
        BY <2>1, <3>2 DEF SynMeetsSyn, SynMeetsListener
      <3>3. CASE Try(d) \/ GiveUp(d) \/ Connect(d) \/ Wake(d)
        BY <2>1, <3>3 DEF Try, GiveUp, Connect, Wake
      <3> QED BY <2>0, <2>3, <3>1, <3>2, <3>3 DEF Punch
    <2>4. CASE SendAbc \/ ReceiveAbc
      BY <2>1, <2>4 DEF SendAbc, ReceiveAbc
    <2>5. CASE UNCHANGED holeVars
      BY <2>1, <2>5 DEF holeVars
    <2> QED BY <2>1, <2>2, <2>3, <2>4, <2>5 DEF HoleNext
  <1> QED BY <1>1, <1>2

\* When both devices have sent a SYN and none has been lost since, one of them has or may
\* still get its connection, whatever the number of tries and whoever is behind a NAT: a
\* failure on both sides takes a loss (BothFailOnlyByLoss; :99-136).
THEOREM BothFailOnlyIfLost == HoleSpec => []BothFailOnlyByLoss
  BY HoleTypeInit, HoleTypeStep, FailInit, FailStep, PTL DEF HoleSpec
-----------------------------------------------------------------------------
(* connect_peer returns: every step of either device brings one of them      *)
(* nearer to its end and neither away from it.                               *)

\* How many steps a device has at most before it: four per try, and a last one.
PunchLeft(d) ==
  CASE stage[d] = "idle"      -> 4 * Retry + 1
    [] stage[d] = "loop"      -> 4 * retry[d]
    [] stage[d] = "bound"     -> 4 * retry[d] + 3
    [] stage[d] = "syn_sent"  -> 4 * retry[d] + 2
    [] stage[d] = "asleep"    -> 4 * retry[d] + 1
    [] stage[d] = "connected" -> 1
    [] stage[d] \in {"failed", "over"} -> 0

\* The tries that are left: none is made with the counter at 0, and one that is under
\* way has been counted.
TriesInv ==
  \A d \in Devices :
    /\ stage[d] = "loop" => retry[d] \in 1..Retry
    /\ stage[d] \in {"bound", "syn_sent", "asleep"} => retry[d] \in 1..Retry-1
    /\ stage[d] = "connected" => retry[d] \in 1..Retry-1

\* Where two SYNs have met, "abc" has been received or can be: it is on its way, or the
\* asker has its connection and will send it.
AbcIsDue ==
  /\ stage[Asker] = "over" => sent
  /\ (\A d \in Devices : end[d] = "connect") =>
       \/ stage[Asked] = "over"
       \/ stage[Asked] = "connected" /\ (sent \/ stage[Asker] = "connected")

PunchAdvances ==
  \E d \in Devices : /\ PunchLeft(d)' < PunchLeft(d)
                     /\ PunchLeft(Other(d))' <= PunchLeft(Other(d))

\* What is left is a natural number, nothing only at the end.
LEMMA PunchBounded ==
  ASSUME HoleTypeOK, TriesInv, NEW d \in Devices
  PROVE  /\ PunchLeft(d) \in 0..4 * Retry + 1
         /\ PunchLeft(d) = 0 <=> stage[d] \in {"failed", "over"}
  <1>1. CASE stage[d] \in {"failed", "over", "connected", "idle"}
    BY <1>1 DEF PunchLeft
  <1>2. CASE stage[d] \in {"loop", "bound", "syn_sent", "asleep"}
    BY <1>2 DEF PunchLeft, TriesInv
  <1> QED BY <1>1, <1>2 DEF HoleTypeOK

\* What happens to the device that makes a step, or whose SYN is met.
Moves(d) ==
  \/ stage[d] = "idle" /\ stage'[d] = "loop" /\ retry'[d] = Retry
  \/ stage[d] = "loop" /\ retry[d] > 1 /\ retry'[d] = retry[d] - 1 /\ stage'[d] \in {"bound", "loop"}
  \/ stage[d] = "loop" /\ stage'[d] = "failed"
  \/ stage[d] = "bound" /\ stage'[d] \in {"syn_sent", "asleep"} /\ retry'[d] = retry[d]
  \/ stage[d] = "syn_sent" /\ stage'[d] \in {"connected", "loop", "asleep"} /\ retry'[d] = retry[d]
  \/ stage[d] = "asleep" /\ stage'[d] = "loop" /\ retry'[d] = retry[d]
  \/ stage[d] = "connected" /\ stage'[d] = "over"

Stays(d) == stage'[d] = stage[d] /\ retry'[d] = retry[d]

\* A step of a device moves it, and the other one only where their SYNs meet.
LEMMA OneMoves ==
  ASSUME HoleTypeOK, HoleNext
  PROVE  \E d \in Devices : Moves(d) /\ (Moves(Other(d)) \/ Stays(Other(d)))
  <1> USE DEF HoleTypeOK, Goto
  <1>1. ASSUME NEW d \in Devices, Start(d) PROVE Moves(d) /\ Stays(Other(d))
    BY <1>1, OtherIsOther DEF Start, Moves, Stays
  <1>2. ASSUME NEW d \in Devices, Punch(d)
        PROVE  Moves(d) /\ (Moves(Other(d)) \/ Stays(Other(d)))
    <2> USE OtherIsOther DEF Moves, Stays
    <2>1. CASE Try(d)
      BY <2>1 DEF Try
    <2>2. CASE GiveUp(d)
      BY <2>2 DEF GiveUp
    <2>3. CASE Connect(d)
      BY <2>3 DEF Connect
    <2>4. CASE Wake(d)
      BY <2>4 DEF Wake
    <2>5. CASE SynMeetsSyn(d)
      BY <2>5 DEF SynMeetsSyn
    <2>6. CASE SynMeetsListener(d)
      BY <2>6 DEF SynMeetsListener
    <2>7. CASE SynDropped(d)
      BY <2>7 DEF SynDropped
    <2>8. CASE SynLost(d)
      BY <2>8 DEF SynLost
    <2> QED BY <1>2, <2>1, <2>2, <2>3, <2>4, <2>5, <2>6, <2>7, <2>8 DEF Punch
  <1>3. Asker \in Devices /\ Asked \in Devices
    BY DEF Devices
  <1>4. CASE SendAbc
    <2>1. Moves(Asker) /\ Stays(Other(Asker))
      BY <1>3, <1>4, OtherIsOther DEF SendAbc, Moves, Stays
    <2> QED BY <1>3, <2>1
  <1>5. CASE ReceiveAbc
    <2>1. Moves(Asked) /\ Stays(Other(Asked))
      BY <1>3, <1>5, OtherIsOther DEF ReceiveAbc, Moves, Stays
    <2> QED BY <1>3, <2>1
  <1> HIDE DEF Moves, Stays
  <1> QED BY <1>1, <1>2, <1>4, <1>5 DEF HoleNext

\* A move leaves fewer steps and keeps count of the tries.
LEMMA MoveAdvances ==
  ASSUME HoleTypeOK, TriesInv, NEW d \in Devices
  PROVE  /\ Moves(d) => PunchLeft(d)' < PunchLeft(d)
         /\ Stays(d) => PunchLeft(d)' = PunchLeft(d)
  <1>1. ASSUME Moves(d) PROVE PunchLeft(d)' < PunchLeft(d)
    <2>1. CASE stage[d] \in {"idle", "connected", "asleep"}
      BY <1>1, <2>1 DEF Moves, PunchLeft, TriesInv
    <2>2. CASE stage[d] = "loop"
      BY <1>1, <2>2 DEF Moves, PunchLeft, TriesInv
    <2>3. CASE stage[d] \in {"bound", "syn_sent"}
      BY <1>1, <2>3 DEF Moves, PunchLeft, TriesInv
    <2> QED BY <1>1, <2>1, <2>2, <2>3 DEF Moves
  <1>2. ASSUME Stays(d) PROVE PunchLeft(d)' = PunchLeft(d)
    BY <1>2 DEF Stays, PunchLeft
  <1> QED BY <1>1, <1>2

\* Every step of either device counts its tries and leaves fewer steps.
LEMMA PunchStep ==
  HoleTypeOK /\ TriesInv /\ [HoleNext]_holeVars => TriesInv' /\ [PunchAdvances]_holeVars
  <1>1. ASSUME HoleTypeOK, TriesInv, HoleNext PROVE TriesInv' /\ PunchAdvances
    <2>1. PICK d \in Devices : Moves(d) /\ (Moves(Other(d)) \/ Stays(Other(d)))
      BY <1>1, OneMoves
    <2>2. Other(d) \in Devices /\ Devices = {d, Other(d)}
      BY OtherIsOther
    <2>3. ASSUME NEW e \in Devices, Moves(e) \/ Stays(e)
          PROVE  /\ stage'[e] = "loop" => retry'[e] \in 1..Retry
                 /\ stage'[e] \in {"bound", "syn_sent", "asleep"} => retry'[e] \in 1..Retry-1
                 /\ stage'[e] = "connected" => retry'[e] \in 1..Retry-1
      <3>1. CASE Stays(e)
        BY <1>1, <3>1 DEF Stays, TriesInv
      <3>2. CASE Moves(e)
        BY <1>1, <3>2 DEF Moves, TriesInv, HoleTypeOK
      <3> QED BY <2>3, <3>1, <3>2
    <2>4. TriesInv'
      BY <2>1, <2>2, <2>3 DEF TriesInv
    <2>5. PunchAdvances
      <3>1. PunchLeft(d)' < PunchLeft(d)
        BY <1>1, <2>1, MoveAdvances
      <3>2. PunchLeft(Other(d))' < PunchLeft(Other(d)) \/ PunchLeft(Other(d))' = PunchLeft(Other(d))
        BY <1>1, <2>1, <2>2, MoveAdvances
      <3>3. PunchLeft(Other(d)) \in Nat
        BY <1>1, <2>2, PunchBounded
      <3>4. PunchLeft(Other(d))' \in Nat
        <4>1. HoleTypeOK'
          BY <1>1, HoleTypeStep
        <4>2. Devices' = Devices /\ Other(d)' = Other(d)
          BY DEF Devices, Other
        <4>3. ASSUME NEW e \in Devices PROVE PunchLeft(e)' \in Nat
          <5>1. stage'[e] \in {"failed", "over", "connected", "idle"} => PunchLeft(e)' \in Nat
            BY DEF PunchLeft
          <5>2. stage'[e] \in {"loop", "bound", "syn_sent", "asleep"} => PunchLeft(e)' \in Nat
            BY <2>4 DEF PunchLeft, TriesInv
          <5> QED BY <4>1, <5>1, <5>2 DEF HoleTypeOK
        <4> QED BY <2>2, <4>3
      <3>5. PunchLeft(Other(d))' <= PunchLeft(Other(d))
        BY ONLY <3>2, <3>3, <3>4
      <3> QED BY <3>1, <3>5 DEF PunchAdvances
    <2> QED BY <2>4, <2>5
  <1>2. ASSUME TriesInv, UNCHANGED holeVars PROVE TriesInv'
    BY <1>2 DEF TriesInv, holeVars
  <1> QED BY <1>1, <1>2

\* However SYNs are dropped, lost, met or answered, a device has at most 4 * Retry + 1 steps
\* before it, every step of either leaves one of them fewer and neither more, and a
\* device without any has failed or is done (:99-143). PunchEnds rests on this and on
\* both devices running.
THEOREM PunchIsShort ==
  HoleSpec => /\ []\A d \in Devices :
                     /\ PunchLeft(d) \in 0..4 * Retry + 1
                     /\ PunchLeft(d) = 0 <=> stage[d] \in {"failed", "over"}
              /\ [][PunchAdvances]_holeVars
  <1>1. HoleInit => TriesInv
    BY DEF HoleInit, TriesInv
  <1>2. HoleTypeOK /\ TriesInv => \A d \in Devices :
          /\ PunchLeft(d) \in 0..4 * Retry + 1
          /\ PunchLeft(d) = 0 <=> stage[d] \in {"failed", "over"}
    BY PunchBounded
  <1> QED
    BY <1>1, <1>2, HoleTypeInit, HoleTypeStep, PunchStep, PTL DEF HoleSpec

\* The asker is done only when it has sent.
LEMMA AbcInit == HoleInit => AbcIsDue
  <1>1. Asker \in Devices
    BY DEF Devices
  <1> QED BY <1>1 DEF HoleInit, AbcIsDue

\* Who has got its own socket connected sends, or receives, before it is done.
LEMMA AbcStep == HoleTypeOK /\ EndsInv /\ AbcIsDue /\ [HoleNext]_holeVars => AbcIsDue'
  <1> SUFFICES ASSUME HoleTypeOK, EndsInv, AbcIsDue, [HoleNext]_holeVars PROVE AbcIsDue'
    OBVIOUS
  <1>1. Asker \in Devices /\ Asked \in Devices
    BY DEF Devices
  <1>2. EndsInv'
    BY EndsStep
  <1>3. stage'[Asker] = "over" => sent'
    <2>1. ASSUME NEW d \in Devices, Start(d) \/ Punch(d)
          PROVE  sent' = sent /\ (stage'[Asker] = "over" => stage[Asker] = "over")
      BY <1>1, <2>1 DEF Start, Punch, Try, GiveUp, Connect, Wake, SynMeetsSyn,
                        SynMeetsListener, SynDropped, SynLost, Goto, HoleTypeOK
    <2>2. CASE SendAbc
      BY <2>2 DEF SendAbc
    <2>3. CASE ReceiveAbc
      BY <1>1, <2>3 DEF ReceiveAbc, Goto, HoleTypeOK
    <2>4. CASE UNCHANGED holeVars
      BY <2>4 DEF holeVars, AbcIsDue
    <2> QED BY <2>1, <2>2, <2>3, <2>4 DEF HoleNext, AbcIsDue
  <1>4. ASSUME \A d \in Devices : end'[d] = "connect"
        PROVE  \/ stage'[Asked] = "over"
               \/ stage'[Asked] = "connected" /\ (sent' \/ stage'[Asker] = "connected")
    <2>1. stage'[Asked] \in Success /\ stage'[Asker] \in Success
      BY <1>1, <1>2, <1>4 DEF EndsInv, ConnectionHasTwoEnds
    <2> QED BY <1>3, <2>1 DEF Success
  <1> QED BY <1>3, <1>4 DEF AbcIsDue

\* Where two SYNs have met, "abc" is never lost between the two: until the target has it
\* the asker has yet to send it, or it is on its way to a target that is there to receive
\* it (:146-168, 437-462). AbcArrives rests on this and on both devices running.
THEOREM AbcIsNotLost == HoleSpec => []AbcIsDue
  BY HoleTypeInit, HoleTypeStep, EndsInit, EndsStep, AbcInit, AbcStep, PTL DEF HoleSpec
=============================================================================
