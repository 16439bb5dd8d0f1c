------------------------------ MODULE HolePunch ------------------------------
(* The second half of p2p_transfer_peer.c: two devices that have been told   *)
(* each other's endpoint (P2pTransfer) call connect_peer, each from the port *)
(* its own listener is on. The one that asked sends "abc" and closes, the    *)
(* other receives. A device behind a port-restricted NAT can be reached from *)
(* an endpoint to which it has sent a SYN itself. TCP does the rest: a SYN   *)
(* that meets a SYN connects both sockets, any other is answered by the      *)
(* listener, and there is one connection between two endpoints at a time.    *)
(* A SYN may also be lost: in the network, at a NAT that has forgotten what   *)
(* it let in, or at one that does not lead back to a device behind it (the    *)
(* test record's case e, both devices behind one NAT: connect times out).    *)
EXTENDS Naturals

CONSTANTS
  Asker, Asked,  \* the device whose query was answered, the one asked for
  Retry          \* 10

Devices == {Asker, Asked}
Other(d) == IF d = Asker THEN Asked ELSE Asker

ASSUME DevicesAssumption == Asker # Asked
ASSUME RetryAssumption == Retry \in Nat \ {0}

VARIABLES
  public,  \* the devices without a NAT
  stage,   \* where connect_peer and its caller are
  retry,
  tried,   \* the devices that have sent a SYN
  end,     \* the socket that is a device's end of the connection
  sent,    \* "abc" is on its way
  lost     \* since both have sent a SYN, one was lost (history)

holeVars == <<public, stage, retry, tried, end, sent, lost>>

HoleTypeOK ==
  /\ public \subseteq Devices
  /\ stage \in [Devices -> {"idle", "loop", "bound", "syn_sent", "asleep",
                            "connected", "failed", "over"}]
  /\ retry \in [Devices -> 0..Retry]
  /\ tried \subseteq Devices
  /\ end \in [Devices -> {"none", "connect", "listener"}]
  /\ sent \in BOOLEAN /\ lost \in BOOLEAN

HoleInit ==
  /\ public \in SUBSET Devices
  /\ stage = [d \in Devices |-> "idle"]
  /\ retry = [d \in Devices |-> 0]
  /\ tried = {}
  /\ end = [d \in Devices |-> "none"]
  /\ sent = FALSE /\ lost = FALSE

Goto(d, place) == stage' = [stage EXCEPT ![d] = place]
-----------------------------------------------------------------------------
\* Variant: one try more.
StartOneMore(d) ==
  /\ stage[d] = "idle"
  /\ retry' = [retry EXCEPT ![d] = Retry + 1]
  /\ Goto(d, "loop")
  /\ UNCHANGED <<public, tried, end, sent, lost>>

\* user_cb has its answer, or the thread for PUNCH_HOLE is started.
Start(d) ==
  /\ stage[d] = "idle"
  /\ retry' = [retry EXCEPT ![d] = Retry]
  /\ Goto(d, "loop")
  /\ UNCHANGED <<public, tried, end, sent, lost>>

\* while (--retry), then socket, set_sock_opt and bind, all of which may fail.
Try(d) ==
  /\ stage[d] = "loop" /\ retry[d] > 1
  /\ retry' = [retry EXCEPT ![d] = @ - 1]
  /\ \E place \in {"bound", "loop"} : Goto(d, place)
  /\ UNCHANGED <<public, tried, end, sent, lost>>

GiveUp(d) ==
  /\ stage[d] = "loop" /\ retry[d] = 1
  /\ retry' = [retry EXCEPT ![d] = 0]
  /\ Goto(d, "failed")
  /\ UNCHANGED <<public, tried, end, sent, lost>>

\* Variant: the socket does not block, EINPROGRESS counts as a failure.
ConnectNonBlocking(d) ==
  /\ stage[d] = "bound"
  /\ Goto(d, "asleep")
  /\ tried' = IF end[d] = "none" THEN tried \cup {d} ELSE tried
  /\ UNCHANGED <<public, retry, end, sent, lost>>

\* connect() sends a SYN, or fails (EADDRNOTAVAIL) because the listener's socket
\* has the connection already.
Connect(d) ==
  /\ stage[d] = "bound"
  /\ IF end[d] = "none"
     THEN Goto(d, "syn_sent") /\ tried' = tried \cup {d}
     ELSE Goto(d, "asleep") /\ UNCHANGED tried
  /\ UNCHANGED <<public, retry, end, sent, lost>>

Reachable(d) == d \in public \cup tried

\* Two SYNs meet: both calls of connect() succeed.
SynMeetsSyn(d) ==
  /\ stage[d] = "syn_sent" /\ stage[Other(d)] = "syn_sent" /\ Reachable(Other(d))
  /\ stage' = [e \in Devices |-> "connected"]
  /\ end' = [e \in Devices |-> "connect"]
  /\ UNCHANGED <<public, retry, tried, sent, lost>>

\* The listener is there from the start, and its callback does nothing with the
\* socket: it stays open.
SynMeetsListener(d) ==
  /\ stage[d] = "syn_sent" /\ stage[Other(d)] # "syn_sent" /\ Reachable(Other(d))
  /\ Goto(d, "connected")
  /\ end' = [e \in Devices |-> IF e = d THEN "connect" ELSE "listener"]
  /\ UNCHANGED <<public, retry, tried, sent, lost>>

\* Variant: the result of connect() is not looked at.
SynDroppedUnseen(d) ==
  /\ stage[d] = "syn_sent" /\ ~ Reachable(Other(d))
  /\ Goto(d, "connected")
  /\ UNCHANGED <<public, retry, tried, end, sent, lost>>

\* The other side's NAT drops the SYN, and connect() times out, or refuses it;
\* after any error but ETIMEDOUT the device sleeps.
SynDropped(d) ==
  /\ stage[d] = "syn_sent" /\ ~ Reachable(Other(d))
  /\ \E place \in {"loop", "asleep"} : Goto(d, place)
  /\ UNCHANGED <<public, retry, tried, end, sent, lost>>

\* The SYN and those connect() repeats it with are lost where none would be
\* dropped: the call times out, or a router refuses it.
SynLost(d) ==
  /\ stage[d] = "syn_sent" /\ Reachable(Other(d))
  /\ \E place \in {"loop", "asleep"} : Goto(d, place)
  /\ lost' = (lost \/ tried = Devices)
  /\ UNCHANGED <<public, retry, tried, end, sent>>

\* Variant: a try after which the device slept is not counted.
WakeUncounted(d) ==
  /\ stage[d] = "asleep"
  /\ retry' = [retry EXCEPT ![d] = @ + 1]
  /\ Goto(d, "loop")
  /\ UNCHANGED <<public, tried, end, sent, lost>>

Wake(d) ==
  /\ stage[d] = "asleep"
  /\ Goto(d, "loop")
  /\ UNCHANGED <<public, retry, tried, end, sent, lost>>

\* Variant: the socket is closed and nothing sent.
SendNothing ==
  /\ stage[Asker] = "connected"
  /\ Goto(Asker, "over")
  /\ UNCHANGED <<public, retry, tried, end, sent, lost>>

\* punch_hole: "abc" is sent, "p2p send success" is logged.
SendAbc ==
  /\ stage[Asker] = "connected"
  /\ sent' = TRUE
  /\ Goto(Asker, "over")
  /\ UNCHANGED <<public, retry, tried, end, lost>>

\* process_punch_hole_cmd_cb receives what the asker has sent to this socket.
ReceiveAbc ==
  /\ stage[Asked] = "connected"
  /\ sent /\ end[Asker] = "connect"
  /\ Goto(Asked, "over")
  /\ UNCHANGED <<public, retry, tried, end, sent, lost>>

Punch(d) ==
  \/ Try(d) \/ GiveUp(d) \/ Connect(d) \/ Wake(d)
  \/ SynMeetsSyn(d) \/ SynMeetsListener(d) \/ SynDropped(d) \/ SynLost(d)

HoleNext ==
  \/ \E d \in Devices : Start(d) \/ Punch(d)
  \/ SendAbc
  \/ ReceiveAbc

HoleSpec == HoleInit /\ [][HoleNext]_holeVars

\* Both devices run, and what TCP is to deliver it delivers. Whether and when a
\* device learns of the other is left open.
HoleFairSpec ==
  /\ HoleSpec
  /\ \A d \in Devices : WF_holeVars(Punch(d))
  /\ WF_holeVars(SendAbc) /\ WF_holeVars(ReceiveAbc)
-----------------------------------------------------------------------------
Success == {"connected", "over"}

\* A device that says "punch hole success" (:141) has an end of a connection whose
\* other end is at the other device; the other's end is its listener's or, when
\* both say so, the socket it has connected itself: they have not got two
\* connections, nor one of them a connection that the other has not.
ConnectionHasTwoEnds ==
  \A d \in Devices :
    /\ stage[d] \in Success <=> end[d] = "connect"
    /\ end[d] = "listener" => end[Other(d)] = "connect"
    /\ end[d] = "connect" => end[Other(d)] # "none"

\* If each device has got as far as to send a SYN, in whatever order, during the
\* other's tries, between them or long after them, both say "punch hole failed" (:136)
\* only where a SYN has been lost since: none is dropped by a NAT any more, because the
\* one sent last finds the other's NAT open.
BothFailOnlyByLoss ==
  tried = Devices /\ ~ lost => \E d \in Devices : stage[d] \in Success \cup {"syn_sent"}

\* connect_peer returns, though every failure leads to another try (:99-133).
PunchEnds == \A d \in Devices : stage[d] = "loop" ~> stage[d] \in Success \cup {"failed"}

\* Where two SYNs have met, the target receives what was sent.
AbcArrives == (\A d \in Devices : end[d] = "connect") ~> stage[Asked] = "over"
=============================================================================
