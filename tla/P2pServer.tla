------------------------------ MODULE P2pServer ------------------------------
(* p2p_transfer_server.c: the server at which devices register and through   *)
(* which one learns the endpoint of another, so that both can punch a hole   *)
(* in their NATs. It has one thread: libevent calls its callbacks one at a   *)
(* time. A bufferevent is the memory it was made in (a slot), which malloc   *)
(* may hand out again once conn_event_cb has freed it. A connection is a     *)
(* session <<peer, n>>, the n-th start of the peer, and the session is also  *)
(* the endpoint (ip_addr, port) the server sees of it.                       *)
EXTENDS Naturals, Sequences, FiniteSets

CONSTANTS
  Peers,
  MaxStarts,  \* how often a peer is started (a bound)
  Sns,        \* the device numbers
  Slots,      \* memory for bufferevents (a bound)
  Coalesced,  \* how many messages a readable connection may have brought
  None        \* no session: memory that is free, an endpoint of zeros

Session == Peers \X (1..MaxStarts)

ASSUME MaxStartsAssumption == MaxStarts \in Nat
ASSUME CoalescedAssumption == Coalesced \subseteq Nat \ {0}
ASSUME NoneAssumption == None \notin Session

VARIABLES
  server,   \* the process: "up", or ended by an assertion or a bad access
  devices,  \* s_pall_device_info, the newest entry first
  bevs,     \* which session the bufferevent in a slot serves
  input,    \* what a bufferevent has read and no callback has taken
  backlog,  \* sessions connect() made and the listener has not seen
  wire,     \* requests under way to the server
  eof,      \* sessions the peer has closed
  down      \* messages under way to the peer

net == <<backlog, wire, eof, down>>
serverVars == <<server, devices, bevs, input, net>>

Device == [sn : Sns, pbev : Slots, addr : Session]
Request == [cmd : {"PING", "QUERY_DEVICE_INFO_REQUEST"}, src : Sns, sn : Sns]
Reply == [cmd : {"PUNCH_HOLE", "QUERY_DEVICE_INFO_RESPONSE"}, addr : Session \cup {None}]

ServerTypeOK ==
  /\ server \in {"up", "aborted", "crashed"}
  /\ devices \in Seq(Device)
  /\ bevs \in [Slots -> Session \cup {None}]
  /\ input \in [Session -> Seq(Request)]
  /\ backlog \subseteq Session
  /\ wire \in [Session -> Seq(Request)]
  /\ eof \subseteq Session
  /\ down \in [Session -> Seq(Reply)]

ServerInit ==
  /\ server = "up"
  /\ devices = <<>>
  /\ bevs = [b \in Slots |-> None]
  /\ input = [s \in Session |-> <<>>]
  /\ backlog = {}
  /\ wire = [s \in Session |-> <<>>]
  /\ eof = {}
  /\ down = [s \in Session |-> <<>>]
-----------------------------------------------------------------------------
listener_cb(s, b) ==
  /\ server = "up"
  /\ s \in backlog /\ bevs[b] = None
  /\ backlog' = backlog \ {s}
  /\ bevs' = [bevs EXCEPT ![b] = s]
  /\ UNCHANGED <<server, devices, input, wire, eof, down>>

\* Variant: the entry keeps some bufferevent, not the one that was read.
process_ping_cmd_anybev(b, ping) ==
  /\ \E c \in Slots :
       devices' = <<[sn |-> ping.sn, pbev |-> c, addr |-> bevs[b]]>> \o devices
  /\ UNCHANGED <<server, down>>

\* Variant: the endpoint is not filled in.
process_ping_cmd_noaddr(b, ping) ==
  /\ devices' = <<[sn |-> ping.sn, pbev |-> b, addr |-> None]>> \o devices
  /\ UNCHANGED <<server, down>>

\* An entry for every ping, also for a device that has one already, and no
\* entry is ever taken off.
process_ping_cmd(b, ping) ==
  /\ devices' = <<[sn |-> ping.sn, pbev |-> b, addr |-> bevs[b]]>> \o devices
  /\ UNCHANGED <<server, down>>

Entries(sn) == {i \in DOMAIN devices : devices[i].sn = sn}

\* num when list_for_each_entry comes to entry i.
Num(src, sn, i) ==
  Cardinality({j \in Entries(sn) : j < i}) + Cardinality({j \in Entries(src) : j < i})

\* Variant: the loop ends with the first entry that matches.
ScannedOne(src, sn) == {i \in DOMAIN devices : Num(src, sn, i) < 1}

\* Variant: the loop goes on until it has seen three.
ScannedThree(src, sn) == {i \in DOMAIN devices : Num(src, sn, i) <= 2}

\* The entries the loop looks at: it ends once num is 2.
Scanned(src, sn) == {i \in DOMAIN devices : Num(src, sn, i) < 2}

\* Each entry that matches overwrites what an earlier one has left.
LastOf(indices) == CHOOSE i \in indices : \A j \in indices : j <= i

WriteTo(queues, b, message) ==
  IF bevs[b] = None THEN queues
  ELSE [queues EXCEPT ![bevs[b]] = Append(@, message)]

\* Variant: the query is dropped, without the assertion and without an answer.
NotFoundDropped == UNCHANGED <<server, down>>

\* The assertion of send_punch_hole_cmd_to_peer fails: pdst_peer_bev is NULL.
NotFound == server' = "aborted" /\ UNCHANGED down

\* PUNCH_HOLE goes to the bufferevent of the entry found, then the answer to the
\* querier. The bufferevent of the entry may have been freed: the access may end
\* the process, and if it does not bufferevent_write reports either success or -1,
\* and then there is no answer.
process_query_device_info_cmd(b, query) ==
  LET dst == Scanned(query.src, query.sn) \cap Entries(query.sn)
      src == Scanned(query.src, query.sn) \cap Entries(query.src)
      found == devices[LastOf(dst)]
      punch == [cmd |-> "PUNCH_HOLE",
                addr |-> IF src = {} THEN None ELSE devices[LastOf(src)].addr]
      response == [cmd |-> "QUERY_DEVICE_INFO_RESPONSE", addr |-> found.addr]
  IN /\ UNCHANGED devices
     /\ \/ dst = {} /\ NotFound
        \/ /\ dst # {}
           /\ down' = WriteTo(WriteTo(down, found.pbev, punch), b, response)
           /\ UNCHANGED server
        \/ /\ dst # {} /\ bevs[found.pbev] = None
           /\ server' \in {"up", "crashed"} /\ UNCHANGED down

\* One message is taken from what has come in; what else has come in waits for
\* the next read event of this connection. (A message comes in whole: of one that is
\* split between two reads the code would lose the first part.)
conn_read_cb(b, k) ==
  LET s == bevs[b]
      unread == input[s] \o SubSeq(wire[s], 1, k)
  IN /\ server = "up"
     /\ s # None /\ k <= Len(wire[s])
     /\ wire' = [wire EXCEPT ![s] = SubSeq(@, k + 1, Len(@))]
     /\ input' = [input EXCEPT ![s] = Tail(unread)]
     /\ \/ Head(unread).cmd = "PING" /\ process_ping_cmd(b, Head(unread))
        \/ /\ Head(unread).cmd = "QUERY_DEVICE_INFO_REQUEST"
           /\ process_query_device_info_cmd(b, Head(unread))
     /\ UNCHANGED <<bevs, backlog, eof>>

\* End of file or an error on the connection: the bufferevent is freed with what
\* is unread in it. The entries that point to it stay.
conn_event_cb(b) ==
  LET s == bevs[b] IN
  /\ server = "up"
  /\ s # None /\ s \in eof
  /\ bevs' = [bevs EXCEPT ![b] = None]
  /\ eof' = eof \ {s}
  /\ wire' = [wire EXCEPT ![s] = <<>>]
  /\ input' = [input EXCEPT ![s] = <<>>]
  /\ UNCHANGED <<server, devices, backlog, down>>

ServerNext ==
  \E b \in Slots :
    \/ \E s \in Session : listener_cb(s, b)
    \/ \E k \in Coalesced : conn_read_cb(b, k)
    \/ conn_event_cb(b)
=============================================================================
