----------------------------- MODULE P2pTransfer -----------------------------
(* p2p_transfer_peer.c with the server: every peer connects, pings once and, *)
(* unless it is the device everyone asks for (2222), asks ten seconds later  *)
(* for that device's endpoint, blocking its event loop in recv on the socket *)
(* its bufferevent reads from. Peers may be killed and started again. What   *)
(* happens after both sides know an endpoint is HolePunch.                   *)
EXTENDS P2pServer

CONSTANTS
  Sn,      \* the device_sn each peer is started with
  Target,  \* test_peer_device_sn: 2222
  MayDie   \* the peers that may be killed

ASSUME SnAssumption == Sn \in [Peers -> Sns] /\ Target \in Sns
ASSUME MayDieAssumption == MayDie \subseteq Peers

VARIABLES
  pc,      \* where each peer is
  start,   \* how often it was started
  heard,   \* the endpoints a session was told to punch a hole to
  result   \* the endpoint a session's query has brought, None if none

peerVars == <<pc, start, heard, result>>
vars == <<serverVars, peerVars>>

Now(p) == <<p, start[p]>>
Running == {"connected", "timer", "serving"}  \* in event_base_dispatch

TypeOK ==
  /\ ServerTypeOK
  /\ pc \in [Peers -> Running \cup {"off", "recv", "done"}]
  /\ start \in [Peers -> 0..MaxStarts]
  /\ \A p \in Peers : pc[p] # "off" => start[p] > 0
  /\ heard \in [Session -> SUBSET (Session \cup {None})]
  /\ result \in [Session -> Session \cup {None}]

Init ==
  /\ ServerInit
  /\ pc = [p \in Peers |-> "off"]
  /\ start = [p \in Peers |-> 0]
  /\ heard = [s \in Session |-> {}]
  /\ result = [s \in Session |-> None]

Send(s, message) == wire' = [wire EXCEPT ![s] = Append(@, message)]
-----------------------------------------------------------------------------
connect_server(p) ==
  /\ server = "up"
  /\ pc[p] = "off" /\ start[p] < MaxStarts
  /\ start' = [start EXCEPT ![p] = @ + 1]
  /\ backlog' = backlog \cup {<<p, start[p] + 1>>}
  /\ pc' = [pc EXCEPT ![p] = "connected"]
  /\ UNCHANGED <<server, devices, bevs, input, wire, eof, down, heard, result>>

\* The timer of ping_cb is not persistent: it pings once.
ping_cb(p) ==
  /\ pc[p] = "connected"
  /\ Send(Now(p), [cmd |-> "PING", src |-> Sn[p], sn |-> Sn[p]])
  /\ pc' = [pc EXCEPT ![p] = IF Sn[p] = Target THEN "serving" ELSE "timer"]
  /\ UNCHANGED <<server, devices, bevs, input, backlog, eof, down, start, heard, result>>

\* user_cb up to recv.
user_cb(p) ==
  /\ pc[p] = "timer"
  /\ Send(Now(p), [cmd |-> "QUERY_DEVICE_INFO_REQUEST", src |-> Sn[p], sn |-> Target])
  /\ pc' = [pc EXCEPT ![p] = "recv"]
  /\ UNCHANGED <<server, devices, bevs, input, backlog, eof, down, start, heard, result>>

\* recv takes whatever message is next; any command but UNKNOWN_CMD is an answer. What
\* comes after it to a device that asks, a PUNCH_HOLE, say, is not followed.
RecvAnswer(p) ==
  /\ pc[p] = "recv" /\ down[Now(p)] # <<>>
  /\ result' = [result EXCEPT ![Now(p)] = Head(down[Now(p)]).addr]
  /\ down' = [down EXCEPT ![Now(p)] = Tail(@)]
  /\ pc' = [pc EXCEPT ![p] = "done"]
  /\ UNCHANGED <<server, devices, bevs, input, backlog, wire, eof, start, heard>>

\* The server is gone: recv leaves the zeroed response (UNKNOWN_CMD) or fails, and
\* a peer in its event loop frees the bufferevent and does nothing more.
LoseServer(p) ==
  /\ server # "up"
  /\ pc[p] \in Running \cup {"recv"}
  /\ pc' = [pc EXCEPT ![p] = "done"]
  /\ UNCHANGED <<serverVars, start, heard, result>>

\* Variant: a device that punches one hole does not take the next message.
PunchHoleOnce(p) ==
  /\ pc[p] \in Running /\ heard[Now(p)] = {}
  /\ down[Now(p)] # <<>> /\ Head(down[Now(p)]).cmd = "PUNCH_HOLE"
  /\ heard' = [heard EXCEPT ![Now(p)] = @ \cup {Head(down[Now(p)]).addr}]
  /\ down' = [down EXCEPT ![Now(p)] = Tail(@)]
  /\ UNCHANGED <<server, devices, bevs, input, backlog, wire, eof, pc, start, result>>

\* conn_read_cb of the peer: a thread is started that punches the hole.
PunchHole(p) ==
  /\ pc[p] \in Running
  /\ down[Now(p)] # <<>> /\ Head(down[Now(p)]).cmd = "PUNCH_HOLE"
  /\ heard' = [heard EXCEPT ![Now(p)] = @ \cup {Head(down[Now(p)]).addr}]
  /\ down' = [down EXCEPT ![Now(p)] = Tail(@)]
  /\ UNCHANGED <<server, devices, bevs, input, backlog, wire, eof, pc, start, result>>

\* The process is killed: its socket is closed.
Kill(p) ==
  /\ p \in MayDie /\ pc[p] # "off"
  /\ pc' = [pc EXCEPT ![p] = "off"]
  /\ eof' = eof \cup {Now(p)}
  /\ down' = [down EXCEPT ![Now(p)] = <<>>]
  /\ UNCHANGED <<server, devices, bevs, input, backlog, wire, start, heard, result>>

PeerNext(p) ==
  \/ ping_cb(p) \/ user_cb(p)
  \/ RecvAnswer(p) \/ LoseServer(p) \/ PunchHole(p)

Next ==
  \/ ServerNext /\ UNCHANGED peerVars
  \/ \E p \in Peers : connect_server(p) \/ PeerNext(p) \/ Kill(p)

Spec == Init /\ [][Next]_vars

\* libevent's loop and TCP serve every connection; nobody has to start or be killed.
FairSpec ==
  /\ Spec
  /\ \A b \in Slots :
       /\ \A s \in Session : WF_vars(listener_cb(s, b) /\ UNCHANGED peerVars)
       /\ WF_vars((\E k \in Coalesced : conn_read_cb(b, k)) /\ UNCHANGED peerVars)
  /\ \A p \in Peers : WF_vars(PeerNext(p))
-----------------------------------------------------------------------------
\* An entry whose connection is still open leads to that connection, whatever was
\* freed and made in the same memory since: only a device that has left can have
\* its PUNCH_HOLE delivered to somebody else (p2p_transfer_server.c:107, 291).
LiveEntryLeadsHome ==
  \A i \in DOMAIN devices, b \in Slots :
    bevs[b] = devices[i].addr => devices[i].pbev = b

\* What keeps it so: a session is in one place, and there is a place for it only
\* after its peer was started, so a number used once is not used again.
OneBev == \A b, c \in Slots : bevs[b] = bevs[c] /\ bevs[b] # None => b = c
Seen(s) == (\E b \in Slots : bevs[b] = s) \/ (\E i \in DOMAIN devices : devices[i].addr = s)
PendingUnseen == \A s \in backlog : ~ Seen(s)
LaterUnseen ==
  \A p \in Peers : \A n \in 1..MaxStarts :
    n > start[p] => <<p, n>> \notin backlog /\ ~ Seen(<<p, n>>)
HomeInv == TypeOK /\ OneBev /\ PendingUnseen /\ LaterUnseen /\ LiveEntryLeadsHome

\* The assertion of send_punch_hole_cmd_to_peer (:141), pdst_peer_bev != NULL, where
\* it is most needed: it fails at most when the device asked for has no entry.
RegisteredIsFound == server = "aborted" => Entries(Target) = {}

\* Which entry a query brings back depends on the whole history of the list. If
\* the querier has one entry, and at most one of the target is newer than it, the
\* endpoint told is the newest the target has registered (:115, 193-217).
QuerierOnce(s) ==
  \E i \in Entries(Sn[s[1]]) :
    /\ Entries(Sn[s[1]]) = {i}
    /\ Cardinality({j \in Entries(Target) : j < i}) <= 1
Newest(sn) == devices[CHOOSE i \in Entries(sn) : \A j \in Entries(sn) : i <= j].addr
NewestIsTold ==
  [][\A s \in Session :
       /\ Len(down'[s]) > Len(down[s])
       /\ down'[s][Len(down'[s])].cmd = "QUERY_DEVICE_INFO_RESPONSE"
       /\ QuerierOnce(s)
       => down'[s][Len(down'[s])].addr = Newest(Target)]_vars

\* Who asks is told, or learns that the server is gone (user_cb blocks in recv).
QueryEnds == \A p \in Peers : pc[p] = "recv" ~> pc[p] # "recv"

Queued(s, message) == message \in {down[s][i] : i \in DOMAIN down[s]}
Answer(t) == [cmd |-> "QUERY_DEVICE_INFO_RESPONSE", addr |-> t]

Learned == {pair \in Session \X Session : result[pair[1]] = pair[2]}
Answered == {pair \in Session \X Session : Queued(pair[1], Answer(pair[2]))}
Heard == {pair \in Session \X Session : pair[1] \in heard[pair[2]]}
Targets == {s \in Session : Sn[s[1]] = Target}
Registered == {devices[i].addr : i \in DOMAIN devices}

Meeting ==
  INSTANCE Rendezvous
    WITH Devices <- Session,
         Wanted <- Targets,
         up <- (server = "up"),
         registered <- Registered,
         introduced <- Learned \cup Answered,
         learned <- Learned,
         heard <- Heard

\* Through connections, a list, two messages to two connections and a recv that blocks
\* the event loop, the server introduces each device that asks to the one it asks for, in
\* one step for both, and both get to know of it (:92-248). It holds where nobody
\* registers twice or leaves.
RefinesRendezvous == Meeting!Spec
-----------------------------------------------------------------------------
(* Why NewestIsTold and RegisteredIsFound hold: a session sends one ping and  *)
(* then one query, so it has at most one entry.                               *)

Ping(s) == [cmd |-> "PING", src |-> Sn[s[1]], sn |-> Sn[s[1]]]
Query(s) == [cmd |-> "QUERY_DEVICE_INFO_REQUEST", src |-> Sn[s[1]], sn |-> Target]

\* What the server has still to take of what the session has sent.
Stream(s) == input[s] \o wire[s]
Streams(s) == {<<>>, <<Ping(s)>>, <<Ping(s), Query(s)>>, <<Query(s)>>}
PingIsDue(s) == Stream(s) \in {<<Ping(s)>>, <<Ping(s), Query(s)>>}
QueryIsDue(s) == Stream(s) \in {<<Query(s)>>, <<Ping(s), Query(s)>>}

AtPlace(s, place) == s[2] = start[s[1]] /\ pc[s[1]] = place
BeforePing(s) == s[2] > start[s[1]] \/ AtPlace(s, "connected")

StreamInv ==
  \A s \in Session :
    /\ Stream(s) \in Streams(s)
    /\ BeforePing(s) => Stream(s) = <<>> /\ s \notin Registered
    /\ AtPlace(s, "timer") => Sn[s[1]] # Target /\ ~ QueryIsDue(s)
    /\ PingIsDue(s) => s \notin Registered
    /\ QueryIsDue(s) => Sn[s[1]] # Target

EntryInv ==
  /\ \A i \in DOMAIN devices : devices[i].sn = Sn[devices[i].addr[1]]
  /\ \A i, j \in DOMAIN devices : devices[i].addr = devices[j].addr => i = j

OnceInv == TypeOK /\ StreamInv /\ EntryInv
-----------------------------------------------------------------------------
(* Why the server introduces its devices, where each has a number of its own, *)
(* is started once and does not leave.                                        *)

BeforeAnswer(s) == BeforePing(s) \/ AtPlace(s, "timer") \/ QueryIsDue(s)

\* A device that asks is sent its answer and nothing else.
AskerInv(s) ==
  /\ BeforeAnswer(s) => down[s] = <<>> /\ result[s] = None
  /\ down[s] # <<>> =>
       result[s] = None /\ \E t \in Session : down[s] = <<Answer(t)>>
  /\ AtPlace(s, "timer") /\ ~ PingIsDue(s) => s \in Registered
  /\ Stream(s) = <<Query(s)>> => s \in Registered

\* The device that is asked for is told of introductions and of nothing else.
AskedInv(s) ==
  /\ ~ AtPlace(s, "recv")
  /\ \A i \in DOMAIN down[s] :
       \E d \in Session : /\ down[s][i] = [cmd |-> "PUNCH_HOLE", addr |-> d]
                          /\ <<d, s>> \in Learned \cup Answered

MeetingInv ==
  /\ eof = {}
  /\ \A i \in DOMAIN devices : bevs[devices[i].pbev] = devices[i].addr
  /\ \A s \in Session \ Targets : AskerInv(s)
  /\ \A s \in Targets : AskedInv(s)
=============================================================================
