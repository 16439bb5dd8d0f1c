---------------------------- MODULE MultiDnsProofs ----------------------------
(* What TLAPS proves of MultiDns.                                             *)
EXTENDS MultiDns, FiniteSetTheorems, TLAPS

USE MaxCallsAssumption, NumServersAssumption, TriesAssumption, MaxIpAssumption,
    CreatedAssumption

\* A part of the type invariant holds as long as its variables do not change.
LEMMA MainFrame == ASSUME MainOK, UNCHANGED mainVars PROVE MainOK'
  BY DEF MainOK, mainVars

LEMMA SharedFrame == ASSUME SharedOK, UNCHANGED <<server, dots, globals>> PROVE SharedOK'
  BY DEF SharedOK, globals

LEMMA ListsFrame == ASSUME ListsOK, UNCHANGED lists PROVE ListsOK'
  BY DEF ListsOK, lists

LEMMA ThreadsFrame == ASSUME ThreadsOK, UNCHANGED threadVars PROVE ThreadsOK'
  BY DEF ThreadsOK, threadVars

\* Writing a list slot keeps the lists well typed, inside the array or past it.
LEMMA PutOK ==
  ASSUME ListsOK, NEW b, NEW i, NEW a \in Address, Put(b, i, a)
  PROVE  v6_addr' \in [Bufs -> [0..MaxIp-1 -> Address]]
  BY DEF ListsOK, Put

USE DEF MainPcs, ThreadPcs, MyBuf, Goto, Return, At

LEMMA TypeInit == Init => TypeOK
<1> SUFFICES ASSUME Init PROVE TypeOK
  OBVIOUS
<1>1. MainOK
  <2>1. /\ mpc = "idle" /\ call = 0 /\ created = 0 /\ dead = FALSE
        /\ kind = [c \in Calls |-> "name"]
        /\ buf \in [Calls -> Bufs]
        /\ re = [c \in Calls |-> "none"]
        /\ ret = [c \in Calls |-> "none"]
    BY DEF Init
  <2>2. dead \in BOOLEAN
    BY <2>1, Zenon
  <2> QED
    BY <2>1, <2>2 DEF MainOK
<1>2. SharedOK
  <2>1. /\ server = [c \in Calls |-> 1]
        /\ dots = [c \in Calls |-> 0]
        /\ locked = FALSE /\ failcount = 0 /\ serverNum = NumServers
    BY DEF Init
  <2>2. locked \in BOOLEAN
    BY <2>1, Zenon
  <2> QED
    BY <2>1, <2>2 DEF SharedOK, Servers
<1>3. ListsOK
  BY DEF Init, ListsOK, Address, NoAddress
<1>4. ThreadsOK
  <2>1. \A t \in Threads : CallOf(t) \in Calls
    BY DEF Threads, CallOf
  <2> QED
    BY <2>1 DEF Init, ThreadsOK
<1> QED
  BY <1>1, <1>2, <1>3, <1>4 DEF TypeOK

LEMMA TypeStep == TypeOK /\ [Next]_vars => TypeOK'
<1> SUFFICES ASSUME TypeOK, [Next]_vars PROVE TypeOK'
  OBVIOUS
<1>0. MainOK /\ SharedOK /\ ListsOK /\ ThreadsOK
  BY DEF TypeOK
<1>1. ASSUME NEW k \in {"name", "ipv4"}, EnterCall(k) PROVE TypeOK'
  <2> USE <1>1 DEF EnterCall
  <2>1. MainOK'
    BY <1>0 DEF MainOK, Calls
  <2>2. SharedOK'
    BY <1>0, SharedFrame DEF globals
  <2>3. ListsOK'
    BY <1>0 DEF ListsOK
  <2>4. ThreadsOK'
    BY <1>0, ThreadsFrame DEF threadVars
  <2> QED
    BY <2>1, <2>2, <2>3, <2>4 DEF TypeOK
<1>2. CASE InitRequest
  <2> USE <1>2 DEF InitRequest
  <2>1. MainOK'
    BY <1>0 DEF MainOK
  <2>2. SharedOK'
    BY <1>0 DEF SharedOK
  <2>3. ListsOK'
    BY <1>0, ListsFrame DEF lists
  <2>4. ThreadsOK'
    BY <1>0, ThreadsFrame DEF threadVars
  <2> QED
    BY <2>1, <2>2, <2>3, <2>4 DEF TypeOK
<1>3. ASSUME NEW ok \in Created, CreateThread(ok) PROVE TypeOK'
  <2> USE <1>3 DEF CreateThread
  <2>1. MainOK'
    BY <1>0 DEF MainOK
  <2>2. SharedOK'
    <3>1. server' \in [Calls -> Servers]
      <4>1. created + 1 \in Servers
        BY <1>0 DEF MainOK, Servers
      <4>2. server' = [server EXCEPT ![call] = created + 1]
        OBVIOUS
      <4> QED
        BY <4>1, <4>2, <1>0 DEF SharedOK
    <3>2. serverNum' \in Int
      BY <1>0 DEF SharedOK
    <3> QED
      BY <3>1, <3>2, <1>0 DEF SharedOK
  <2>3. ListsOK'
    BY <1>0, ListsFrame DEF lists
  <2>4. ThreadsOK'
    BY <1>0 DEF ThreadsOK
  <2> QED
    BY <2>1, <2>2, <2>3, <2>4 DEF TypeOK
<1>4. CASE PollSize
  <2> USE <1>4 DEF PollSize
  <2>1. MainOK'
    BY <1>0 DEF MainOK
  <2>2. SharedOK'
    BY <1>0, SharedFrame DEF globals
  <2>3. ListsOK'
    BY <1>0, ListsFrame DEF lists
  <2>4. ThreadsOK'
    BY <1>0, ThreadsFrame DEF threadVars
  <2> QED
    BY <2>1, <2>2, <2>3, <2>4 DEF TypeOK
<1>5. CASE PollCount
  <2> USE <1>5 DEF PollCount
  <2>1. MainOK'
    BY <1>0 DEF MainOK
  <2>2. SharedOK'
    BY <1>0, SharedFrame DEF globals
  <2>3. ListsOK'
    BY <1>0, ListsFrame DEF lists
  <2>4. ThreadsOK'
    BY <1>0, ThreadsFrame DEF threadVars
  <2> QED
    BY <2>1, <2>2, <2>3, <2>4 DEF TypeOK
<1>6. CASE TrimList
  <2> USE <1>6 DEF TrimList
  <2>1. MainOK'
    BY <1>0 DEF MainOK
  <2>2. SharedOK'
    BY <1>0, SharedFrame DEF globals
  <2>3. ListsOK'
    BY <1>0 DEF ListsOK
  <2>4. ThreadsOK'
    BY <1>0, ThreadsFrame DEF threadVars
  <2> QED
    BY <2>1, <2>2, <2>3, <2>4 DEF TypeOK
<1>7. CASE EmbedIpv4
  <2> USE <1>7 DEF EmbedIpv4
  <2>1. MainOK'
    BY <1>0 DEF MainOK
  <2>2. SharedOK'
    BY <1>0, SharedFrame DEF globals
  <2>3. ListsOK'
    <3>1. [kind |-> "synth", call |-> call, by |-> 0] \in Address
      BY <1>0 DEF MainOK, Address
    <3>2. v6_addr' \in [Bufs -> [0..MaxIp-1 -> Address]]
      BY <3>1, <1>0, PutOK DEF ListsOK, lists
    <3>3. size' \in [Bufs -> Nat]
      BY <1>0 DEF ListsOK, lists
    <3> QED
      BY <3>2, <3>3 DEF ListsOK
  <2>4. ThreadsOK'
    BY <1>0, ThreadsFrame DEF threadVars
  <2> QED
    BY <2>1, <2>2, <2>3, <2>4 DEF TypeOK
<1>8. ASSUME NEW found \in BOOLEAN, SystemLookup(found) PROVE TypeOK'
  <2> USE <1>8 DEF SystemLookup
  <2>1. MainOK'
    BY <1>0 DEF MainOK
  <2>2. SharedOK'
    BY <1>0, SharedFrame DEF globals
  <2>3. ListsOK'
    <3>1. [kind |-> "api", call |-> call, by |-> 0] \in Address
      BY <1>0 DEF MainOK, Address
    <3>2. v6_addr' \in [Bufs -> [0..MaxIp-1 -> Address]]
      BY <3>1, <1>0, PutOK DEF ListsOK, lists
    <3>3. size' \in [Bufs -> Nat]
      BY <1>0 DEF ListsOK, lists
    <3> QED
      BY <3>2, <3>3 DEF ListsOK
  <2>4. ThreadsOK'
    BY <1>0, ThreadsFrame DEF threadVars
  <2> QED
    BY <2>1, <2>2, <2>3, <2>4 DEF TypeOK
<1>9. ASSUME NEW t \in Threads, Thread(t) PROVE TypeOK'
  <2>0. CallOf(t) \in Calls /\ IndexOf(t) \in Servers
    BY DEF Threads, CallOf, IndexOf
  <2>1. ASSUME NEW opened \in BOOLEAN, ReadRequest(t, opened) PROVE TypeOK'
    <3> USE <2>1 DEF ReadRequest
    <3>1. MainOK'
      BY <1>0, MainFrame DEF mainVars
    <3>2. SharedOK'
      BY <1>0, SharedFrame DEF globals
    <3>3. ListsOK'
      BY <1>0, ListsFrame DEF lists
    <3>4. ThreadsOK'
      <4>1. PICK c \in Calls : /\ data' = [data EXCEPT ![t] = c]
                               /\ asked' = [asked EXCEPT ![t] = IF opened THEN server[c] ELSE 0]
        BY <2>0 DEF Requests, Later
      <4>4. server[c] \in 0..NumServers
        BY <1>0, <4>1 DEF SharedOK, Servers
      <4>2. asked' \in [Threads -> 0..NumServers] /\ data' \in [Threads -> Calls]
        BY <1>0, <4>1, <4>4 DEF ThreadsOK
      <4>3. pc' \in [Threads -> ThreadPcs]
        BY <1>0 DEF ThreadsOK
      <4> QED
        BY <1>0, <4>2, <4>3 DEF ThreadsOK
    <3> QED
      BY <3>1, <3>2, <3>3, <3>4 DEF TypeOK
  <2>2. CASE FindEnd(t)
    <3> USE <2>2 DEF FindEnd
    <3>1. MainOK'
      BY <1>0, MainFrame DEF mainVars
    <3>2. SharedOK'
      BY <1>0, SharedFrame DEF globals
    <3>3. ListsOK'
      BY <1>0, ListsFrame DEF lists
    <3>4. ThreadsOK'
      <4>1. PICK c \in Calls : seen' = [seen EXCEPT ![t] = dots[c]]
        BY <1>0 DEF ThreadsOK, Hosts, Later
      <4>2. dots[c] \in Nat
        BY <1>0, <4>1 DEF SharedOK
      <4> QED
        BY <1>0, <4>1, <4>2 DEF ThreadsOK
    <3> QED
      BY <3>1, <3>2, <3>3, <3>4 DEF TypeOK
  <2>3. CASE WriteDot(t)
    <3> USE <2>3 DEF WriteDot
    <3>1. MainOK'
      BY <1>0, MainFrame DEF mainVars
    <3>2. SharedOK'
      <4>1. seen[t] + 1 \in Nat
        BY <1>0 DEF ThreadsOK
      <4>2. dots' \in [Calls -> Nat]
        BY <1>0, <4>1 DEF SharedOK
      <4> QED
        BY <1>0, <4>2 DEF SharedOK, globals
    <3>3. ListsOK'
      BY <1>0, ListsFrame DEF lists
    <3>4. ThreadsOK'
      BY <1>0, <2>0 DEF ThreadsOK
    <3> QED
      BY <3>1, <3>2, <3>3, <3>4 DEF TypeOK
  <2>4. CASE UseAfterFree(t)
    <3> USE <2>4 DEF UseAfterFree
    <3>1. MainOK'
      BY <1>0 DEF MainOK
    <3>2. SharedOK'
      BY <1>0, SharedFrame DEF globals
    <3>3. ListsOK'
      BY <1>0, ListsFrame DEF lists
    <3>4. ThreadsOK'
      BY <1>0, ThreadsFrame DEF threadVars
    <3> QED
      BY <3>1, <3>2, <3>3, <3>4 DEF TypeOK
  <2>5. CASE SendFails(t)
    <3> USE <2>5 DEF SendFails
    <3>1. MainOK'
      BY <1>0, MainFrame DEF mainVars
    <3>2. SharedOK'
      BY <1>0, SharedFrame DEF globals
    <3>3. ListsOK'
      BY <1>0, ListsFrame DEF lists
    <3>4. ThreadsOK'
      BY <1>0 DEF ThreadsOK, LeaveLoop
    <3> QED
      BY <3>1, <3>2, <3>3, <3>4 DEF TypeOK
  <2>6. CASE Send(t)
    <3> USE <2>6 DEF Send
    <3>1. MainOK'
      BY <1>0, MainFrame DEF mainVars
    <3>2. SharedOK'
      BY <1>0, SharedFrame DEF globals
    <3>3. ListsOK'
      BY <1>0, ListsFrame DEF lists
    <3>4. ThreadsOK'
      BY <1>0 DEF ThreadsOK
    <3> QED
      BY <3>1, <3>2, <3>3, <3>4 DEF TypeOK
  <2>7. CASE Timeout(t)
    <3> USE <2>7 DEF Timeout
    <3>1. MainOK'
      BY <1>0, MainFrame DEF mainVars
    <3>2. SharedOK'
      BY <1>0, SharedFrame DEF globals
    <3>3. ListsOK'
      BY <1>0, ListsFrame DEF lists
    <3>4. ThreadsOK'
      BY <1>0 DEF ThreadsOK, LeaveLoop
    <3> QED
      BY <3>1, <3>2, <3>3, <3>4 DEF TypeOK
  <2>8. ASSUME NEW n \in 0..MaxIp, Receive(t, n) PROVE TypeOK'
    <3> USE <2>8 DEF Receive
    <3>1. MainOK'
      BY <1>0, MainFrame DEF mainVars
    <3>2. SharedOK'
      BY <1>0, SharedFrame DEF globals
    <3>3. ListsOK'
      BY <1>0, ListsFrame DEF lists
    <3>4. ThreadsOK'
      BY <1>0 DEF ThreadsOK, LeaveLoop
    <3> QED
      BY <3>1, <3>2, <3>3, <3>4 DEF TypeOK
  <2>9. CASE Lock(t)
    <3> USE <2>9 DEF Lock
    <3>1. MainOK'
      BY <1>0, MainFrame DEF mainVars
    <3>2. SharedOK'
      BY <1>0 DEF SharedOK
    <3>3. ListsOK'
      BY <1>0, ListsFrame DEF lists
    <3>4. ThreadsOK'
      BY <1>0 DEF ThreadsOK
    <3> QED
      BY <3>1, <3>2, <3>3, <3>4 DEF TypeOK
  <2>10. CASE CopyAddress(t)
    <3> USE <2>10 DEF CopyAddress
    <3>1. MainOK'
      BY <1>0, MainFrame DEF mainVars
    <3>2. SharedOK'
      BY <1>0, SharedFrame DEF globals
    <3>3. ListsOK'
      <4>1. [kind |-> "dns", call |-> data[t], by |-> IndexOf(t)] \in Address
        BY <1>0, <2>0 DEF ThreadsOK, Address, Calls, Servers
      <4>2. v6_addr' \in [Bufs -> [0..MaxIp-1 -> Address]]
        BY <4>1, <1>0, PutOK
      <4> QED
        BY <1>0, <4>2 DEF ListsOK
    <3>4. ThreadsOK'
      <4>1. size[buf[data[t]]] \in Nat
        BY <1>0 DEF MainOK, ListsOK, ThreadsOK
      <4>2. left[t] - 1 \in 0..MaxIp
        BY <1>0 DEF ThreadsOK
      <4> QED
        BY <1>0, <4>1, <4>2 DEF ThreadsOK
    <3> QED
      BY <3>1, <3>2, <3>3, <3>4 DEF TypeOK
  <2>11. CASE BumpSize(t)
    <3> USE <2>11 DEF BumpSize
    <3>1. MainOK'
      BY <1>0, MainFrame DEF mainVars
    <3>2. SharedOK'
      BY <1>0, SharedFrame DEF globals
    <3>3. ListsOK'
      <4>1. Torn(t) \in Address
        BY <1>0, <2>0 DEF ThreadsOK, Address, Torn, Calls, Servers
      <4>2. v6_addr' \in [Bufs -> [0..MaxIp-1 -> Address]]
        BY <4>1, <1>0, PutOK DEF ListsOK
      <4>3. seen[t] \in Nat /\ size[buf[data[t]]] \in Nat
        BY <1>0, <2>0 DEF MainOK, ListsOK, ThreadsOK
      <4>4. size' \in [Bufs -> Nat]
        <5>1. PICK s \in {seen[t], size[buf[data[t]]]} :
                size' = [size EXCEPT ![buf[data[t]]] = s + 1]
          OBVIOUS
        <5>2. s + 1 \in Nat
          BY <4>3
        <5> QED
          BY <1>0, <5>1, <5>2 DEF ListsOK
      <4> QED
        BY <4>2, <4>4 DEF ListsOK
    <3>4. ThreadsOK'
      BY <1>0, <2>0 DEF ThreadsOK
    <3> QED
      BY <3>1, <3>2, <3>3, <3>4 DEF TypeOK
  <2>12. CASE CheckSize(t)
    <3> USE <2>12 DEF CheckSize
    <3>1. MainOK'
      BY <1>0, MainFrame DEF mainVars
    <3>2. SharedOK'
      BY <1>0, <2>0 DEF SharedOK
    <3>3. ListsOK'
      BY <1>0, ListsFrame DEF lists
    <3>4. ThreadsOK'
      BY <1>0, <2>0 DEF ThreadsOK
    <3> QED
      BY <3>1, <3>2, <3>3, <3>4 DEF TypeOK
  <2>13. CASE CountFailure(t)
    <3> USE <2>13 DEF CountFailure
    <3>1. MainOK'
      BY <1>0, MainFrame DEF mainVars
    <3>2. SharedOK'
      BY <1>0, <2>0 DEF SharedOK
    <3>3. ListsOK'
      BY <1>0, ListsFrame DEF lists
    <3>4. ThreadsOK'
      BY <1>0, <2>0 DEF ThreadsOK
    <3> QED
      BY <3>1, <3>2, <3>3, <3>4 DEF TypeOK
  <2> QED
    BY <1>9, <2>1, <2>2, <2>3, <2>4, <2>5, <2>6, <2>7, <2>8, <2>9, <2>10, <2>11, <2>12, <2>13 DEF Thread
<1>10. CASE UNCHANGED vars
  BY <1>0, <1>10, MainFrame, SharedFrame, ListsFrame, ThreadsFrame DEF vars, TypeOK
<1> QED
  BY <1>1, <1>2, <1>3, <1>4, <1>5, <1>6, <1>7, <1>8, <1>9, <1>10 DEF Next, Main

\* Type correctness, for any number of calls, servers, tries, slots and lists.
THEOREM TypeCorrect == Spec => []TypeOK
  BY TypeInit, TypeStep, PTL DEF Spec
-----------------------------------------------------------------------------
(* Which server a thread asks, for any number of calls.                      *)

\* A step of a thread starts no thread and changes neither the caller's place nor
\* the servers; if it changes what the thread asks, it is to what the request names.
LEMMA ThreadFrame ==
  ASSUME TypeOK, NEW t \in Threads, Thread(t)
  PROVE  /\ UNCHANGED <<mpc, call, created, server>>
         /\ \A u \in Threads : pc'[u] # "none" => pc[u] # "none"
         /\ \A u \in Threads : \/ asked'[u] = 0
                               \/ asked'[u] = asked[u] /\ data'[u] = data[u]
                               \/ pc[u] # "none" /\ asked'[u] = server[data'[u]]
<1> USE DEF TypeOK, ThreadsOK, mainVars, LeaveLoop
<1>1. ASSUME NEW opened \in BOOLEAN, ReadRequest(t, opened)
      PROVE  /\ UNCHANGED <<mpc, call, created, server>>
             /\ \A u \in Threads : pc'[u] # "none" => pc[u] # "none"
             /\ \A u \in Threads : \/ asked'[u] = 0
                                   \/ asked'[u] = asked[u] /\ data'[u] = data[u]
                                   \/ pc[u] # "none" /\ asked'[u] = server[data'[u]]
  BY <1>1 DEF ReadRequest
<1>2. CASE FindEnd(t)
  BY <1>2 DEF FindEnd
<1>3. CASE WriteDot(t)
  BY <1>3 DEF WriteDot
<1>4. CASE UseAfterFree(t)
  BY <1>4 DEF UseAfterFree, threadVars
<1>5. CASE SendFails(t)
  BY <1>5 DEF SendFails
<1>6. CASE Send(t)
  BY <1>6 DEF Send
<1>7. CASE Timeout(t)
  BY <1>7 DEF Timeout
<1>8. ASSUME NEW n \in 0..MaxIp, Receive(t, n)
      PROVE  /\ UNCHANGED <<mpc, call, created, server>>
             /\ \A u \in Threads : pc'[u] # "none" => pc[u] # "none"
             /\ \A u \in Threads : asked'[u] = 0 \/ (asked'[u] = asked[u] /\ data'[u] = data[u])
  BY <1>8 DEF Receive
<1>9. CASE Lock(t)
  BY <1>9 DEF Lock
<1>10. CASE CopyAddress(t)
  BY <1>10 DEF CopyAddress
<1>11. CASE BumpSize(t)
  BY <1>11 DEF BumpSize
<1>12. CASE CheckSize(t)
  BY <1>12 DEF CheckSize
<1>13. CASE CountFailure(t)
  BY <1>13 DEF CountFailure
<1> QED
  BY <1>1, <1>2, <1>3, <1>4, <1>5, <1>6, <1>7, <1>8, <1>9, <1>10, <1>11, <1>12, <1>13
     DEF Thread

\* OrderInv holds before the first call.
LEMMA OrderInit == Init => OrderInv
  BY DEF Init, OrderInv, MadeInOrder, AsksOwnOrLater

\* Every step keeps OrderInv.
LEMMA OrderStep == TypeOK /\ OrderInv /\ [Next]_vars => OrderInv'
<1> SUFFICES ASSUME TypeOK, OrderInv, [Next]_vars PROVE OrderInv'
  OBVIOUS
<1> USE DEF OrderInv, MadeInOrder, AsksOwnOrLater
<1>0. \A t \in Threads : /\ CallOf(t) \in Calls /\ IndexOf(t) \in Servers
                         /\ t = <<CallOf(t), IndexOf(t)>>
                         /\ asked[t] \in 0..NumServers
  BY DEF TypeOK, ThreadsOK, Threads, CallOf, IndexOf
<1>1. ASSUME NEW k \in {"name", "ipv4"}, EnterCall(k) PROVE OrderInv'
  BY <1>0, <1>1 DEF EnterCall, threadVars, TypeOK, MainOK, Calls
<1>2. CASE InitRequest
  BY <1>0, <1>2 DEF InitRequest, threadVars
<1>3. ASSUME NEW ok \in Created, CreateThread(ok) PROVE OrderInv'
  <2>1. /\ mpc = "create" /\ created \in 0..NumServers - 1 /\ call \in 0..MaxCalls
        /\ call' = call /\ asked' = asked /\ mpc' \in {"create", "poll"}
        /\ created' = created + 1
        /\ server' = [server EXCEPT ![call] = created + 1]
    BY <1>3 DEF CreateThread, TypeOK, MainOK
  <2>2. \A t \in Threads : pc'[t] # "none" => pc[t] # "none" \/ t = <<call, created + 1>>
    BY <1>3 DEF CreateThread, TypeOK, ThreadsOK
  <2>3. \A t \in Threads : CallOf(t) = call => server'[CallOf(t)] = created + 1
    BY <1>0, <2>1 DEF TypeOK, SharedOK
  <2>4. \A t \in Threads : CallOf(t) # call => server'[CallOf(t)] = server[CallOf(t)]
    BY <1>0, <2>1 DEF TypeOK, SharedOK
  <2>5. ASSUME NEW t \in Threads, pc'[t] # "none"
        PROVE  /\ CallOf(t) <= call
               /\ CallOf(t) = call => IndexOf(t) <= created + 1
               /\ IndexOf(t) <= server'[CallOf(t)]
    <3>1. CASE t = <<call, created + 1>>
      BY <2>1, <2>3, <3>1 DEF CallOf, IndexOf
    <3>2. CASE pc[t] # "none"
      BY <1>0, <2>1, <2>3, <2>4, <3>2 DEF Calls, Servers
    <3> QED BY <2>2, <2>5, <3>1, <3>2
  <2>6. data' = data
    BY <1>3 DEF CreateThread
  <2>7. AsksOwnOrLater'
    BY <2>1, <2>6
  <2>8. MadeInOrder'
    BY <1>0, <2>1, <2>5 DEF Calls
  <2> QED
    BY <2>7, <2>8
<1>4. CASE PollSize \/ PollCount
  BY <1>4 DEF PollSize, PollCount, threadVars
<1>5. CASE TrimList \/ EmbedIpv4
  BY <1>5 DEF TrimList, EmbedIpv4, threadVars
<1>6. ASSUME NEW found \in BOOLEAN, SystemLookup(found) PROVE OrderInv'
  BY <1>6 DEF SystemLookup, threadVars
<1>7. ASSUME NEW t \in Threads, Thread(t) PROVE OrderInv'
  <2>1. /\ UNCHANGED <<mpc, call, created, server>>
        /\ \A u \in Threads : pc'[u] # "none" => pc[u] # "none"
        /\ \A u \in Threads : \/ asked'[u] = 0
                              \/ asked'[u] = asked[u] /\ data'[u] = data[u]
                              \/ pc[u] # "none" /\ asked'[u] = server[data'[u]]
    BY <1>7, ThreadFrame
  <2>2. MadeInOrder'
    BY <2>1
  <2>3. AsksOwnOrLater'
    BY <2>1
  <2> QED BY <2>2, <2>3
<1>8. CASE UNCHANGED vars
  BY <1>8 DEF vars, mainVars, threadVars
<1> QED
  BY <1>1, <1>2, <1>3, <1>4, <1>5, <1>6, <1>7, <1>8 DEF Next, Main

\* A thread that finds the request it was made for asks its own server or that of a
\* thread made after it, whatever calls follow (AsksOwnOrLater; 312-329, 437-445). Of
\* one that finds a later call's request in the freed memory it says nothing.
THEOREM AsksItsOwnOrLater == Spec => []AsksOwnOrLater
<1>1. OrderInv => AsksOwnOrLater
  BY DEF OrderInv
<1> QED
  BY <1>1, TypeInit, TypeStep, OrderInit, OrderStep, PTL DEF Spec
-----------------------------------------------------------------------------
(* The rest is about a caller's first call (MaxCalls = 1): OneCallInv is      *)
(* inductive, for any number of servers, tries and list slots, and what the   *)
(* call promises follows from it.                                             *)

LEMMA OneCall ==
  ASSUME MaxCalls = 1
  PROVE  /\ Calls = {1}
         /\ \A t \in Threads : /\ CallOf(t) = 1
                               /\ IndexOf(t) \in Servers
                               /\ t = <<1, IndexOf(t)>>
  BY DEF Calls, Threads, CallOf, IndexOf

\* A thread of the only call has found the request of that call.
LEMMA OneRequest ==
  ASSUME MaxCalls = 1, TypeOK
  PROVE  \A t \in Threads : data[t] = 1
  BY OneCall DEF TypeOK, ThreadsOK

LEMMA FiniteThreads ==
  /\ IsFiniteSet(Threads)
  /\ IsFiniteSet(Started) /\ IsFiniteSet(Failed)
  /\ Failed \subseteq Started
  /\ Cardinality(Started) \in Nat /\ Cardinality(Failed) \in Nat
<1>1. IsFiniteSet(Calls) /\ IsFiniteSet(Servers)
  BY FS_Interval DEF Calls, Servers
<1>2. IsFiniteSet(Threads)
  BY <1>1, FS_Product DEF Threads
<1>3. Started \in SUBSET Threads /\ Failed \in SUBSET Threads
  BY DEF Started, Failed
<1>4. IsFiniteSet(Started) /\ IsFiniteSet(Failed)
  BY <1>2, <1>3, FS_Subset
<1> QED
  BY <1>2, <1>4, FS_CardinalityType DEF Started, Failed

\* Places of a thread that has not failed and does not hold the mutex.
Quiet == {"start", "append", "dot", "send", "wait", "lock", "fail"}

\* A thread's step between two such places, which changes nothing but its own
\* variables and the host buffer, keeps the invariant.
LEMMA QuietStep ==
  ASSUME TypeOK, OneCallInv, UNCHANGED <<mainVars, globals, lists>>,
         NEW t \in Threads, NEW q \in Quiet, pc[t] \in Quiet,
         pc' = [pc EXCEPT ![t] = q],
         \A u \in Threads : u # t => left'[u] = left[u] /\ seen'[u] = seen[u]
  PROVE  OneCallInv'
<1>1. pc \in [Threads -> ThreadPcs]
  BY DEF TypeOK, ThreadsOK
<1>2. /\ \A u \in Threads : u # t => pc'[u] = pc[u]
      /\ pc'[t] = q
  BY <1>1
<1>3. Started' = Started /\ Failed' = Failed /\ Holders' = Holders
  BY <1>2 DEF Started, Failed, Holders, Quiet
<1>4. CallerInv'
  BY <1>3 DEF OneCallInv, CallerInv, mainVars
<1>5. CountInv'
  BY <1>3 DEF OneCallInv, CountInv, mainVars, globals
<1>6. AnswerInv'
  BY <1>2, <1>3 DEF OneCallInv, AnswerInv, mainVars, globals, lists, Quiet
<1>7. ListInv'
  BY <1>2 DEF OneCallInv, ListInv, mainVars, lists, Quiet
<1>8. WriterInv'
  BY <1>2, <1>3 DEF OneCallInv, WriterInv, mainVars, lists, Quiet, Holders
<1> QED
  BY <1>4, <1>5, <1>6, <1>7, <1>8 DEF OneCallInv

\* The steps of a thread that queries its server, up to the lock.
LEMMA QueryStep ==
  ASSUME TypeOK, OneCallInv, NEW t \in Threads,
         \/ \E opened \in BOOLEAN : ReadRequest(t, opened)
         \/ FindEnd(t) \/ WriteDot(t) \/ SendFails(t) \/ Send(t) \/ Timeout(t)
         \/ \E n \in 0..MaxIp : Receive(t, n)
  PROVE  OneCallInv'
<1>1. /\ pc \in [Threads -> ThreadPcs]
      /\ left \in [Threads -> 0..MaxIp]
      /\ seen \in [Threads -> Nat]
  BY DEF TypeOK, ThreadsOK
<1> USE DEF At, Goto
<1>2. UNCHANGED <<mainVars, globals, lists>>
  BY DEF ReadRequest, FindEnd, WriteDot, SendFails, Send, Timeout, Receive
<1>3. \A u \in Threads : u # t => left'[u] = left[u] /\ seen'[u] = seen[u]
  BY <1>1 DEF ReadRequest, FindEnd, WriteDot, SendFails, Send, Timeout, Receive, LeaveLoop
<1>4. /\ pc[t] \in Quiet
      /\ \E q \in Quiet : pc' = [pc EXCEPT ![t] = q]
  BY DEF ReadRequest, FindEnd, WriteDot, SendFails, Send, Timeout, Receive, LeaveLoop, Quiet
<1> QED
  BY <1>2, <1>3, <1>4, QuietStep

\* A thread that may crash the process is one that has not failed, so that the
\* call it belongs to has returned 0.
LEMMA UseAfterFreeStep ==
  ASSUME MaxCalls = 1, TypeOK, OneCallInv, NEW t \in Threads, UseAfterFree(t)
  PROVE  OneCallInv'
<1>1. UNCHANGED <<mpc, call, created, buf, re, ret, locked, failcount, serverNum,
                  v6_addr, size, pc, left, seen>>
  BY DEF UseAfterFree, globals, lists, threadVars
<1>2. re[1] = "0"
  <2>1. CallOf(t) = 1 /\ data[t] = 1
    BY OneCall, OneRequest
  <2>2. re[1] # "none"
    BY <2>1 DEF UseAfterFree, Freed, Returned, OneCallInv, CallerInv
  <2>3. t \in Started /\ t \notin Failed
    BY DEF UseAfterFree, At, Started, Failed
  <2>4. re[1] # "-1"
    BY <2>3 DEF OneCallInv, AnswerInv
  <2> QED
    BY <2>2, <2>4, OneCall DEF TypeOK, MainOK
<1>3. Started' = Started /\ Failed' = Failed /\ Holders' = Holders
  BY <1>1 DEF Started, Failed, Holders
<1>4. CallerInv'
  BY <1>1, <1>3 DEF OneCallInv, CallerInv
<1>5. CountInv'
  BY <1>1, <1>3 DEF OneCallInv, CountInv
<1>6. AnswerInv'
  BY <1>1, <1>2, <1>3 DEF OneCallInv, AnswerInv
<1>7. ListInv'
  BY <1>1 DEF OneCallInv, ListInv
<1>8. WriterInv'
  BY <1>1, <1>3 DEF OneCallInv, WriterInv
<1> QED
  BY <1>4, <1>5, <1>6, <1>7, <1>8 DEF OneCallInv

\* The list is empty when the mutex is free and a thread is waiting for it.
LEMMA LockStep ==
  ASSUME MaxCalls = 1, TypeOK, OneCallInv, NEW t \in Threads, Lock(t)
  PROVE  OneCallInv'
<1>1. /\ pc \in [Threads -> ThreadPcs]
      /\ left \in [Threads -> 0..MaxIp]
  BY DEF TypeOK, ThreadsOK
<1>2. UNCHANGED <<mpc, call, created, buf, re, ret, dead, failcount, serverNum,
                  v6_addr, size, left, seen>>
  BY DEF Lock, mainVars, lists
<1>3. /\ \A u \in Threads : u # t => pc'[u] = pc[u]
      /\ pc[t] = "lock" /\ pc'[t] = "copy"
  BY <1>1 DEF Lock, At, Goto
<1>4. Started' = Started /\ Failed' = Failed
  BY <1>3 DEF Started, Failed
<1>5. Holders = {} /\ Holders' = {t}
  <2>1. Holders = {}
    BY DEF Lock, OneCallInv, AnswerInv
  <2> QED
    BY <2>1, <1>3 DEF Holders
<1>6. re[1] # "-1" /\ size[buf[1]] = 0
  <2>1. t \in Started /\ t \notin Failed
    BY <1>3 DEF Started, Failed
  <2>2. re[1] # "-1"
    BY <2>1 DEF OneCallInv, AnswerInv
  <2>3. size[buf[1]] \in Nat
    BY OneCall DEF TypeOK, MainOK, ListsOK
  <2> QED
    BY <1>5, <2>2, <2>3 DEF OneCallInv, AnswerInv
<1>7. CallerInv'
  BY <1>2, <1>4 DEF OneCallInv, CallerInv
<1>8. CountInv'
  BY <1>2, <1>4 DEF OneCallInv, CountInv
<1>9. AnswerInv'
  BY <1>2, <1>3, <1>4, <1>5, <1>6 DEF OneCallInv, AnswerInv, Lock
<1>10. ListInv'
  BY <1>1, <1>2, <1>3, <1>6 DEF OneCallInv, ListInv
<1>11. WriterInv'
  BY <1>2, <1>5 DEF OneCallInv, WriterInv
<1> QED
  BY <1>7, <1>8, <1>9, <1>10, <1>11 DEF OneCallInv

\* The holder of the mutex writes slot size[buf[1]], which is inside the array.
LEMMA CopyAddressStep ==
  ASSUME MaxCalls = 1, TypeOK, OneCallInv, NEW t \in Threads, CopyAddress(t)
  PROVE  OneCallInv'
<1> DEFINE b == buf[1]
<1> DEFINE a == [kind |-> "dns", call |-> data[t], by |-> IndexOf(t)]
<1>1. /\ pc \in [Threads -> ThreadPcs]
      /\ left \in [Threads -> 0..MaxIp]
      /\ seen \in [Threads -> Nat]
      /\ b \in Bufs /\ size[b] \in Nat
      /\ v6_addr \in [Bufs -> [0..MaxIp-1 -> Address]]
  BY OneCall DEF TypeOK, MainOK, ListsOK, ThreadsOK
<1>2. UNCHANGED <<mpc, call, created, buf, re, ret, dead, locked, failcount, serverNum,
                  size>>
  BY DEF CopyAddress, mainVars, globals
<1>3. /\ \A u \in Threads : u # t => pc'[u] = pc[u]
      /\ pc[t] = "copy" /\ pc'[t] = "bump"
  BY <1>1 DEF CopyAddress, At, Goto
<1>4. /\ left[t] > 0 /\ left'[t] = left[t] - 1
      /\ seen'[t] = size[b]
      /\ \A u \in Threads : u # t => left'[u] = left[u] /\ seen'[u] = seen[u]
  BY <1>1, OneRequest DEF CopyAddress
<1>5. v6_addr' = [v6_addr EXCEPT ![b][size[b]] = a]
  BY OneRequest DEF CopyAddress, Put
<1>6. Started' = Started /\ Failed' = Failed /\ Holders' = Holders /\ t \in Holders
  BY <1>3 DEF Started, Failed, Holders
<1>7. \A u \in Threads : u # t => pc[u] \notin {"copy", "bump", "won"}
  BY <1>6 DEF OneCallInv, AnswerInv, Holders
<1>8. size[b] + left[t] <= MaxIp
  BY <1>3 DEF OneCallInv, ListInv
<1>9. /\ size[b] \in 0..MaxIp-1
      /\ v6_addr'[b][size[b]] = a
      /\ \A i \in 0..MaxIp-1 : i # size[b] => v6_addr'[b][i] = v6_addr[b][i]
  <2>1. size[b] \in 0..MaxIp-1
    BY <1>1, <1>4, <1>8
  <2>2. DOMAIN v6_addr[b] = 0..MaxIp-1
    BY <1>1
  <2>3. v6_addr'[b] = [v6_addr[b] EXCEPT ![size[b]] = a]
    BY <1>1, <1>5
  <2> QED
    BY <2>1, <2>2, <2>3
<1>10. CallerInv'
  BY <1>2, <1>6 DEF OneCallInv, CallerInv
<1>11. CountInv'
  BY <1>2, <1>6 DEF OneCallInv, CountInv
<1>12. AnswerInv'
  BY <1>2, <1>3, <1>6 DEF OneCallInv, AnswerInv
<1>13. ListInv'
  <2>1. \A i \in 0..MaxIp-1 : i < size[b] => v6_addr[b][i].kind # "none"
    BY DEF OneCallInv, ListInv
  <2>2. \A i \in 0..MaxIp-1 : i <= seen'[t] => v6_addr'[b][i].kind # "none"
    <3>1. a.kind = "dns"
      OBVIOUS
    <3>2. size[b] \in 0..MaxIp-1 /\ seen'[t] = size[b]
      BY <1>1, <1>4, <1>9
    <3>3. ASSUME NEW i \in 0..MaxIp-1, i <= size[b]
          PROVE  i < size[b] \/ i = size[b]
      BY <3>2, <3>3
    <3>4. v6_addr'[b][size[b]].kind # "none"
      BY <3>1, <1>9
    <3>5. ASSUME NEW i \in 0..MaxIp-1, i < size[b]
          PROVE  v6_addr'[b][i].kind # "none"
      <4>1. i # size[b]
        BY <3>2, <3>5
      <4>2. v6_addr'[b][i] = v6_addr[b][i]
        BY <4>1, <1>9
      <4> QED
        BY <4>2, <2>1, <3>5
    <3> HIDE DEF a
    <3> QED
      BY <3>2, <3>3, <3>4, <3>5
  <2>3. \A i \in 0..MaxIp-1 : i < size[b] => v6_addr'[b][i].kind # "none"
    BY <2>2, <1>1, <1>4
  <2>4. size[b] <= seen'[t] /\ seen'[t] + 1 + left'[t] <= MaxIp
    BY <1>1, <1>4, <1>8
  <2>5. \A c \in Bufs : c # b => size'[c] = 0
    BY <1>2 DEF OneCallInv, ListInv
  <2> QED
    <3>1. \A u \in Threads : pc'[u] # "copy"
      BY <1>3, <1>7
    <3>2. \A u \in Threads : pc'[u] = "bump" => u = t
      BY <1>3, <1>7
    <3>3. size[b] <= MaxIp /\ (seen'[t] > 0 => size[b] > 0)
      BY <1>4 DEF OneCallInv, ListInv
    <3> QED
      BY <1>2, <3>1, <3>2, <3>3, <2>2, <2>3, <2>4, <2>5 DEF ListInv
<1>14. WriterInv'
  BY <1>2, <1>3, <1>6, <1>7, <1>9 DEF OneCallInv, WriterInv, Holders
<1> QED
  BY <1>10, <1>11, <1>12, <1>13, <1>14 DEF OneCallInv

\* size becomes at most seen + 1; everything up to slot seen has been written.
LEMMA BumpSizeStep ==
  ASSUME MaxCalls = 1, TypeOK, OneCallInv, NEW t \in Threads, BumpSize(t)
  PROVE  OneCallInv'
<1> DEFINE b == buf[1]
<1>1. /\ pc \in [Threads -> ThreadPcs]
      /\ left \in [Threads -> 0..MaxIp]
      /\ seen \in [Threads -> Nat]
      /\ b \in Bufs /\ size[b] \in Nat
      /\ v6_addr \in [Bufs -> [0..MaxIp-1 -> Address]]
      /\ size \in [Bufs -> Nat]
  BY OneCall DEF TypeOK, MainOK, ListsOK, ThreadsOK
<1>2. UNCHANGED <<mpc, call, created, buf, re, ret, dead, locked, failcount, serverNum,
                  left>>
  BY DEF BumpSize, mainVars, globals
<1>3. /\ \A u \in Threads : u # t => pc'[u] = pc[u] /\ seen'[u] = seen[u]
      /\ pc[t] = "bump" /\ pc'[t] = "copy"
  BY <1>1 DEF BumpSize, At, Goto
<1>4. Started' = Started /\ Failed' = Failed /\ Holders' = Holders /\ t \in Holders
  BY <1>3 DEF Started, Failed, Holders
<1>5. \A u \in Threads : u # t => pc[u] \notin {"copy", "bump", "won"}
  BY <1>4 DEF OneCallInv, AnswerInv, Holders
<1>6. ~Rival(t)
  BY <1>5 DEF Rival
<1>7. PICK s \in {seen[t], size[b]} :
        /\ size' = [size EXCEPT ![b] = s + 1]
        /\ \/ v6_addr' = v6_addr
           \/ v6_addr' = [v6_addr EXCEPT ![b][s] = Torn(t)]
  BY <1>6, OneRequest DEF BumpSize, Put
<1>8. /\ size[b] <= seen[t] /\ seen[t] + 1 + left[t] <= MaxIp
      /\ \A i \in 0..MaxIp-1 : i <= seen[t] => v6_addr[b][i].kind # "none"
  BY <1>3 DEF OneCallInv, ListInv
<1>9. /\ s \in 0..MaxIp-1 /\ s <= seen[t]
      /\ size'[b] = s + 1
      /\ \A c \in Bufs : c # b => size'[c] = size[c]
  BY <1>1, <1>7, <1>8
<1>10. \A i \in 0..MaxIp-1 : v6_addr'[b][i] = v6_addr[b][i] \/ v6_addr'[b][i] = Torn(t)
  <2>1. CASE v6_addr' = v6_addr
    BY <2>1
  <2>2. CASE v6_addr' = [v6_addr EXCEPT ![b][s] = Torn(t)]
    <3>1. v6_addr'[b] = [v6_addr[b] EXCEPT ![s] = Torn(t)]
      BY <1>1, <2>2
    <3>2. DOMAIN v6_addr[b] = 0..MaxIp-1
      BY <1>1
    <3> QED
      BY <3>1, <3>2
  <2> QED
    BY <1>7, <2>1, <2>2
<1>11. Torn(t).kind = "torn" /\ Torn(t).by = IndexOf(t)
  BY DEF Torn
<1>12. CallerInv'
  BY <1>2, <1>4 DEF OneCallInv, CallerInv
<1>13. CountInv'
  BY <1>2, <1>4 DEF OneCallInv, CountInv
<1>14. size'[b] > 0
  BY <1>9
<1>15. AnswerInv'
  BY <1>2, <1>3, <1>4, <1>14 DEF OneCallInv, AnswerInv, CallerInv, Holders, Started, Failed
<1>16. ListInv'
  <2>1. \A i \in 0..MaxIp-1 : i <= seen[t] => v6_addr'[b][i].kind # "none"
    BY <1>8, <1>10, <1>11
  <2>2. size'[b] + left[t] <= MaxIp /\ size'[b] <= MaxIp
    BY <1>1, <1>8, <1>9
  <2>3. \A i \in 0..MaxIp-1 : i < size'[b] => v6_addr'[b][i].kind # "none"
    BY <2>1, <1>1, <1>9
  <2> QED
    BY <2>2, <2>3, <1>2, <1>3, <1>5, <1>9 DEF OneCallInv, ListInv
<1>17. WriterInv'
  <2>1. \A i \in 0..MaxIp-1 : v6_addr'[b][i].by # 0 => v6_addr'[b][i].by = IndexOf(t)
    BY <1>5, <1>10, <1>11 DEF OneCallInv, WriterInv, Holders
  <2> QED
    BY <2>1, <1>2, <1>4, <1>14 DEF WriterInv
<1> QED
  BY <1>12, <1>13, <1>15, <1>16, <1>17 DEF OneCallInv

\* The holder gives the mutex back only if the list is still empty.
LEMMA CheckSizeStep ==
  ASSUME MaxCalls = 1, TypeOK, OneCallInv, NEW t \in Threads, CheckSize(t)
  PROVE  OneCallInv'
<1> DEFINE b == buf[1]
<1>1. /\ pc \in [Threads -> ThreadPcs]
      /\ b \in Bufs /\ size[b] \in Nat
  BY OneCall DEF TypeOK, MainOK, ListsOK, ThreadsOK
<1>2. UNCHANGED <<mpc, call, created, buf, re, ret, dead, failcount, serverNum,
                  v6_addr, size, left, seen>>
  BY DEF CheckSize, mainVars, lists
<1>3. /\ \A u \in Threads : u # t => pc'[u] = pc[u]
      /\ pc[t] = "copy"
      /\ \/ size[b] = 0 /\ pc'[t] = "fail" /\ ~locked'
         \/ size[b] > 0 /\ pc'[t] = "won" /\ locked' = locked
  BY <1>1, OneRequest DEF CheckSize, At, Goto
<1>4. Started' = Started /\ Failed' = Failed /\ t \in Holders
  BY <1>3 DEF Started, Failed, Holders
<1>5. \A u \in Threads : u # t => pc[u] \notin {"copy", "bump", "won"}
  BY <1>4 DEF OneCallInv, AnswerInv, Holders
<1>6. IF size[b] = 0 THEN Holders' = {} ELSE Holders' = Holders
  BY <1>3, <1>5 DEF Holders
<1>7. CallerInv'
  BY <1>2, <1>4 DEF OneCallInv, CallerInv
<1>8. CountInv'
  BY <1>2, <1>4 DEF OneCallInv, CountInv
<1>9. AnswerInv'
  BY <1>1, <1>2, <1>3, <1>4, <1>5, <1>6 DEF OneCallInv, AnswerInv
<1>10. ListInv'
  BY <1>2, <1>3, <1>5 DEF OneCallInv, ListInv
<1>11. WriterInv'
  BY <1>1, <1>2, <1>3, <1>4, <1>5, <1>6 DEF OneCallInv, WriterInv, Holders
<1> QED
  BY <1>7, <1>8, <1>9, <1>10, <1>11 DEF OneCallInv

\* dnsquery_failcount counts the threads that have failed, one by one.
LEMMA CountFailureStep ==
  ASSUME MaxCalls = 1, TypeOK, OneCallInv, NEW t \in Threads, CountFailure(t)
  PROVE  OneCallInv'
<1>1. pc \in [Threads -> ThreadPcs]
  BY DEF TypeOK, ThreadsOK
<1>2. UNCHANGED <<mpc, call, created, buf, re, ret, dead, locked, serverNum,
                  v6_addr, size, left, seen>>
  BY DEF CountFailure, mainVars, lists
<1>3. /\ \A u \in Threads : u # t => pc'[u] = pc[u]
      /\ pc[t] = "fail" /\ pc'[t] = "lost"
  BY <1>1 DEF CountFailure, At, Goto
<1>4. /\ Started' = Started /\ Holders' = Holders
      /\ Failed' = Failed \cup {t} /\ t \notin Failed /\ t \in Started
  BY <1>3 DEF Started, Failed, Holders
<1>5. CallerInv'
  BY <1>2, <1>4 DEF OneCallInv, CallerInv
<1>6. CountInv'
  <2>1. Cardinality(Failed') = Cardinality(Failed) + 1
    BY <1>4, FiniteThreads, FS_AddElement
  <2> QED
    BY <2>1, <1>2, <1>4 DEF OneCallInv, CountInv, CountFailure
<1>7. AnswerInv'
  BY <1>2, <1>3, <1>4 DEF OneCallInv, AnswerInv
<1>8. ListInv'
  BY <1>2, <1>3 DEF OneCallInv, ListInv
<1>9. WriterInv'
  BY <1>2, <1>3, <1>4 DEF OneCallInv, WriterInv, Holders
<1> QED
  BY <1>5, <1>6, <1>7, <1>8, <1>9 DEF OneCallInv

LEMMA ThreadStep ==
  ASSUME MaxCalls = 1, TypeOK, OneCallInv, NEW t \in Threads, Thread(t)
  PROVE  OneCallInv'
BY QueryStep, UseAfterFreeStep, LockStep, CopyAddressStep, BumpSizeStep, CheckSizeStep,
   CountFailureStep DEF Thread

\* A step of the caller that leaves the threads alone.
LEMMA SameThreads ==
  ASSUME UNCHANGED pc
  PROVE  Started' = Started /\ Failed' = Failed /\ Holders' = Holders
BY DEF Started, Failed, Holders

\* Where no thread has been started, none holds the mutex or is past it.
LEMMA NothingStarted ==
  ASSUME Started = {}
  PROVE  /\ Holders = {} /\ Failed = {}
         /\ \A t \in Threads : pc[t] = "none"
BY DEF Started, Holders, Failed

LEMMA EnterCallStep ==
  ASSUME MaxCalls = 1, TypeOK, OneCallInv, NEW k, EnterCall(k)
  PROVE  OneCallInv'
<1>1. call = 0 /\ call' = 1 /\ mpc = "idle" /\ mpc' = "init"
  BY DEF EnterCall, TypeOK, MainOK
<1>2. UNCHANGED <<created, buf, re, ret, dead, locked, failcount, serverNum, v6_addr,
                  pc, left, seen>>
  BY DEF EnterCall, globals, threadVars
<1>3. Started = {} /\ created = 0 /\ re[1] = "none" /\ ret[1] = "none"
  BY <1>1 DEF OneCallInv, CallerInv
<1>4. size' = [size EXCEPT ![buf[1]] = 0]
  BY <1>1 DEF EnterCall
<1>5. /\ size \in [Bufs -> Nat] /\ buf[1] \in Bufs
  BY OneCall DEF TypeOK, MainOK, ListsOK
<1>6. CallerInv'
  BY <1>1, <1>2, <1>3, SameThreads DEF CallerInv
<1>7. CountInv'
  BY <1>2, SameThreads DEF OneCallInv, CountInv
<1>8. AnswerInv'
  BY <1>1, <1>2, <1>3, <1>4, <1>5, SameThreads, NothingStarted DEF OneCallInv, AnswerInv
<1>9. ListInv'
  BY <1>2, <1>3, <1>4, <1>5, NothingStarted DEF OneCallInv, ListInv
<1>10. WriterInv'
  BY <1>2, <1>3, SameThreads, NothingStarted DEF OneCallInv, WriterInv
<1> QED
  BY <1>6, <1>7, <1>8, <1>9, <1>10 DEF OneCallInv

LEMMA InitRequestStep ==
  ASSUME MaxCalls = 1, TypeOK, OneCallInv, InitRequest
  PROVE  OneCallInv'
<1>1. mpc = "init" /\ mpc' = "create" /\ created' = 0 /\ ~locked'
  BY DEF InitRequest
<1>2. UNCHANGED <<call, buf, re, ret, dead, failcount, serverNum, v6_addr, size,
                  pc, left, seen>>
  BY DEF InitRequest, lists, threadVars
<1>3. Started = {} /\ created = 0
  BY <1>1 DEF OneCallInv, CallerInv
<1>4. CallerInv'
  BY <1>1, <1>2, <1>3, SameThreads DEF OneCallInv, CallerInv
<1>5. CountInv'
  BY <1>1, <1>2, <1>3, SameThreads DEF OneCallInv, CountInv
<1>6. AnswerInv'
  BY <1>1, <1>2, <1>3, SameThreads, NothingStarted DEF OneCallInv, AnswerInv
<1>7. ListInv'
  BY <1>2 DEF OneCallInv, ListInv
<1>8. WriterInv'
  BY <1>2, SameThreads DEF OneCallInv, WriterInv
<1> QED
  BY <1>4, <1>5, <1>6, <1>7, <1>8 DEF OneCallInv

\* A thread that is created is one more in Started; one that is not is one less
\* in DNS64SERVERNUM.
LEMMA CreateThreadStep ==
  ASSUME MaxCalls = 1, TypeOK, OneCallInv, NEW ok \in BOOLEAN, CreateThread(ok)
  PROVE  OneCallInv'
<1> DEFINE t == <<call, created + 1>>
<1>1. /\ mpc = "create" /\ created < NumServers /\ created' = created + 1
      /\ mpc' = IF created + 1 = NumServers THEN "poll" ELSE "create"
      /\ created \in Nat /\ serverNum \in Int
  BY DEF CreateThread, TypeOK, MainOK, SharedOK
<1>2. UNCHANGED <<call, buf, re, ret, dead, locked, failcount, v6_addr, size, left, seen>>
  BY DEF CreateThread, lists
<1>3. call = 1 /\ re[1] = "none" /\ ret[1] = "none"
  BY <1>1 DEF OneCallInv, CallerInv, TypeOK, MainOK
<1>4. t \in Threads /\ IndexOf(t) = created + 1
  BY <1>1, <1>3 DEF Threads, Calls, Servers, IndexOf
<1>5. t \notin Started
  BY <1>1, <1>4 DEF OneCallInv, CallerInv
<1>6. pc[t] = "none"
  BY <1>4, <1>5 DEF Started
<1>7. pc \in [Threads -> ThreadPcs]
  BY DEF TypeOK, ThreadsOK
<1>8. CASE ok
  <2>1. /\ \A u \in Threads : u # t => pc'[u] = pc[u]
        /\ pc'[t] = "start"
    BY <1>4, <1>7, <1>8 DEF CreateThread, Goto
  <2>2. /\ Started' = Started \cup {t} /\ Failed' = Failed /\ Holders' = Holders
    BY <1>4, <1>6, <2>1 DEF Started, Failed, Holders
  <2>3. Cardinality(Started') = Cardinality(Started) + 1
    BY <1>5, <2>2, FiniteThreads, FS_AddElement
  <2>4. serverNum' = serverNum
    BY <1>8 DEF CreateThread
  <2>5. CallerInv'
    <3> HIDE DEF t
    <3>1. \A u \in Started' : IndexOf(u) <= created'
      BY <1>1, <1>4, <2>2, OneCall DEF OneCallInv, CallerInv, Started, Servers
    <3> QED
      BY <1>1, <1>2, <1>3, <3>1 DEF OneCallInv, CallerInv
  <2>6. CountInv'
    BY <1>1, <1>2, <2>2, <2>3, <2>4, FiniteThreads DEF OneCallInv, CountInv
  <2>7. AnswerInv'
    BY <1>1, <1>2, <1>3, <2>1, <2>2 DEF OneCallInv, AnswerInv
  <2>8. ListInv'
    BY <1>2, <2>1 DEF OneCallInv, ListInv
  <2>9. WriterInv'
    BY <1>2, <1>6, <2>1, <2>2 DEF OneCallInv, WriterInv, Holders
  <2> QED
    BY <2>5, <2>6, <2>7, <2>8, <2>9 DEF OneCallInv
<1>9. CASE ~ok
  <2>1. pc' = pc /\ serverNum' = serverNum - 1
    BY <1>9 DEF CreateThread
  <2>2. CallerInv'
    <3>1. \A u \in Started' : IndexOf(u) <= created'
      BY <1>1, <2>1, SameThreads, OneCall DEF OneCallInv, CallerInv, Started, Servers
    <3> QED
      BY <1>1, <1>2, <1>3, <3>1 DEF OneCallInv, CallerInv
  <2>3. CountInv'
    BY <1>1, <1>2, <2>1, SameThreads, FiniteThreads DEF OneCallInv, CountInv
  <2>4. AnswerInv'
    BY <1>1, <1>2, <1>3, <2>1, SameThreads DEF OneCallInv, AnswerInv
  <2>5. ListInv'
    BY <1>2, <2>1 DEF OneCallInv, ListInv
  <2>6. WriterInv'
    BY <1>2, <2>1, SameThreads DEF OneCallInv, WriterInv
  <2> QED
    BY <2>2, <2>3, <2>4, <2>5, <2>6 DEF OneCallInv
<1> QED
  BY <1>8, <1>9

\* The caller's call is the first one, as long as it is in it.
LEMMA InFirstCall ==
  ASSUME MaxCalls = 1, TypeOK, OneCallInv, mpc # "idle"
  PROVE  call = 1 /\ ret[1] = "none" /\ MyBuf = buf[1]
BY DEF TypeOK, MainOK, OneCallInv, CallerInv, MyBuf

LEMMA PollSizeStep ==
  ASSUME MaxCalls = 1, TypeOK, OneCallInv, PollSize
  PROVE  OneCallInv'
<1>1. mpc = "poll" /\ call = 1 /\ ret[1] = "none" /\ MyBuf = buf[1] /\ re[1] = "none"
  BY InFirstCall DEF PollSize, OneCallInv, CallerInv
<1>2. UNCHANGED <<call, created, buf, dead, locked, failcount, serverNum, v6_addr, size,
                  pc, left, seen>>
  BY DEF PollSize, globals, lists, threadVars
<1>3. re \in [Calls -> {"none", "0", "-1"}] /\ ret \in [Calls -> {"none", "0", "-1"}]
  BY DEF TypeOK, MainOK
<1>4. \/ /\ size[buf[1]] > 0 /\ re'[1] = "0"
         /\ \/ mpc' = "trim" /\ ret' = ret
            \/ mpc' = "idle" /\ ret'[1] = "0"
      \/ mpc' = "count" /\ re' = re /\ ret' = ret
  BY <1>1, <1>3, OneCall DEF PollSize, Return
<1>5. CallerInv'
  BY <1>1, <1>2, <1>4, SameThreads DEF OneCallInv, CallerInv
<1>6. CountInv'
  BY <1>2, SameThreads DEF OneCallInv, CountInv
<1>7. AnswerInv'
  BY <1>1, <1>2, <1>4, SameThreads DEF OneCallInv, AnswerInv
<1>8. ListInv'
  BY <1>2 DEF OneCallInv, ListInv
<1>9. WriterInv'
  BY <1>2, SameThreads DEF OneCallInv, WriterInv
<1> QED
  BY <1>5, <1>6, <1>7, <1>8, <1>9 DEF OneCallInv

\* The counters are equal only when every thread that was started has failed.
LEMMA EqualCounts ==
  ASSUME OneCallInv, mpc = "count", failcount = serverNum
  PROVE  Started = Failed
<1>1. created = NumServers
  BY DEF OneCallInv, CallerInv
<1>2. Cardinality(Failed) = Cardinality(Started)
  BY <1>1, FiniteThreads DEF OneCallInv, CountInv
<1> QED
  BY <1>2, FiniteThreads, FS_Subset

LEMMA PollCountStep ==
  ASSUME MaxCalls = 1, TypeOK, OneCallInv, PollCount
  PROVE  OneCallInv'
<1>1. mpc = "count" /\ call = 1 /\ ret[1] = "none" /\ re[1] = "none"
  BY InFirstCall DEF PollCount, OneCallInv, CallerInv
<1>2. UNCHANGED <<call, created, buf, dead, locked, failcount, serverNum, v6_addr, size,
                  pc, left, seen>>
  BY DEF PollCount, globals, lists, threadVars
<1>3. /\ re \in [Calls -> {"none", "0", "-1"}] /\ ret \in [Calls -> {"none", "0", "-1"}]
      /\ size[buf[1]] \in Nat
  BY OneCall DEF TypeOK, MainOK, ListsOK
<1>4. \/ /\ failcount = serverNum /\ re'[1] = "-1"
         /\ \/ mpc' = "api" /\ ret' = ret
            \/ mpc' = "idle" /\ ret'[1] = "-1"
      \/ mpc' = "poll" /\ re' = re /\ ret' = ret
  BY <1>1, <1>3, OneCall DEF PollCount, Return
<1>5. failcount = serverNum => Started = Failed
  BY <1>1, EqualCounts
<1>6. Started = Failed => Holders = {}
  BY DEF Started, Failed, Holders
<1>7. failcount = serverNum => size[buf[1]] = 0
  BY <1>1, <1>3, <1>5, <1>6 DEF OneCallInv, AnswerInv
<1>8. CallerInv'
  BY <1>1, <1>2, <1>4, SameThreads DEF OneCallInv, CallerInv
<1>9. CountInv'
  BY <1>2, SameThreads DEF OneCallInv, CountInv
<1>10. AnswerInv'
  BY <1>1, <1>2, <1>4, <1>5, <1>7, SameThreads DEF OneCallInv, AnswerInv
<1>11. ListInv'
  BY <1>2 DEF OneCallInv, ListInv
<1>12. WriterInv'
  BY <1>2, SameThreads DEF OneCallInv, WriterInv
<1> QED
  BY <1>8, <1>9, <1>10, <1>11, <1>12 DEF OneCallInv

\* The caller sets size back to 1 while the holder may be adding to the list.
LEMMA TrimListStep ==
  ASSUME MaxCalls = 1, TypeOK, OneCallInv, TrimList
  PROVE  OneCallInv'
<1> DEFINE b == buf[1]
<1>1. /\ mpc = "trim" /\ mpc' = "embed" /\ call = 1 /\ re[1] = "0" /\ MyBuf = b
  BY InFirstCall DEF TrimList, OneCallInv, CallerInv
<1>2. UNCHANGED <<call, created, buf, re, ret, dead, locked, failcount, serverNum, v6_addr,
                  pc, left, seen>>
  BY DEF TrimList, globals, threadVars
<1>3. /\ size \in [Bufs -> Nat] /\ b \in Bufs
      /\ left \in [Threads -> 0..MaxIp] /\ seen \in [Threads -> Nat]
  BY OneCall DEF TypeOK, MainOK, ListsOK, ThreadsOK
<1>4. size[b] > 0
  BY <1>1 DEF OneCallInv, AnswerInv
<1>5. size'[b] = 1 /\ \A c \in Bufs : c # b => size'[c] = size[c]
  BY <1>1, <1>3 DEF TrimList
<1>6. CallerInv'
  BY <1>1, <1>2, SameThreads DEF OneCallInv, CallerInv
<1>7. CountInv'
  BY <1>2, SameThreads DEF OneCallInv, CountInv
<1>8. AnswerInv'
  BY <1>1, <1>2, <1>4, <1>5, SameThreads DEF OneCallInv, AnswerInv
<1>9. ListInv'
  BY <1>2, <1>3, <1>4, <1>5 DEF OneCallInv, ListInv
<1>10. WriterInv'
  BY <1>2, <1>4, <1>5, SameThreads DEF OneCallInv, WriterInv
<1> QED
  BY <1>6, <1>7, <1>8, <1>9, <1>10 DEF OneCallInv

LEMMA EmbedIpv4Step ==
  ASSUME MaxCalls = 1, TypeOK, OneCallInv, EmbedIpv4
  PROVE  OneCallInv'
<1> DEFINE b == buf[1]
<1> DEFINE a == [kind |-> "synth", call |-> call, by |-> 0]
<1>1. /\ mpc = "embed" /\ mpc' = "idle" /\ call = 1 /\ re[1] = "0" /\ MyBuf = b
  BY InFirstCall DEF EmbedIpv4, Return, OneCallInv, CallerInv
<1>2. UNCHANGED <<call, created, buf, re, dead, locked, failcount, serverNum, size,
                  pc, left, seen>>
  BY DEF EmbedIpv4, globals, threadVars
<1>3. /\ ret \in [Calls -> {"none", "0", "-1"}] /\ b \in Bufs
      /\ v6_addr \in [Bufs -> [0..MaxIp-1 -> Address]]
  BY OneCall DEF TypeOK, MainOK, ListsOK
<1>4. ret'[1] = "0"
  BY <1>1, <1>3, OneCall DEF EmbedIpv4, Return
<1>5. \A i \in 0..MaxIp-1 : v6_addr'[b][i] = v6_addr[b][i] \/ v6_addr'[b][i] = a
  <2>1. v6_addr'[b] = [v6_addr[b] EXCEPT ![0] = a]
    BY <1>1, <1>3 DEF EmbedIpv4, Put
  <2>2. DOMAIN v6_addr[b] = 0..MaxIp-1
    BY <1>3
  <2> QED
    BY <2>1, <2>2
<1>6. a.kind = "synth" /\ a.by = 0
  OBVIOUS
<1> HIDE DEF a
<1>7. CallerInv'
  BY <1>1, <1>2, <1>4, SameThreads DEF OneCallInv, CallerInv
<1>8. CountInv'
  BY <1>2, SameThreads DEF OneCallInv, CountInv
<1>9. AnswerInv'
  BY <1>1, <1>2, SameThreads DEF OneCallInv, AnswerInv
<1>10. ListInv'
  BY <1>2, <1>5, <1>6 DEF OneCallInv, ListInv
<1>11. WriterInv'
  BY <1>2, <1>5, <1>6, SameThreads DEF OneCallInv, WriterInv
<1> QED
  BY <1>7, <1>8, <1>9, <1>10, <1>11 DEF OneCallInv

LEMMA SystemLookupStep ==
  ASSUME MaxCalls = 1, TypeOK, OneCallInv, NEW found \in BOOLEAN, SystemLookup(found)
  PROVE  OneCallInv'
<1> DEFINE b == buf[1]
<1> DEFINE a == [kind |-> "api", call |-> call, by |-> 0]
<1>1. /\ mpc = "api" /\ mpc' = "idle" /\ call = 1 /\ re[1] = "-1" /\ MyBuf = b
  BY InFirstCall DEF SystemLookup, Return, OneCallInv, CallerInv
<1>2. UNCHANGED <<call, created, buf, re, dead, locked, failcount, serverNum,
                  pc, left, seen>>
  BY DEF SystemLookup, globals, threadVars
<1>3. /\ ret \in [Calls -> {"none", "0", "-1"}] /\ b \in Bufs
      /\ v6_addr \in [Bufs -> [0..MaxIp-1 -> Address]]
      /\ size \in [Bufs -> Nat]
  BY OneCall DEF TypeOK, MainOK, ListsOK
<1>4. ret'[1] # "none"
  BY <1>1, <1>3, OneCall DEF SystemLookup, Return
<1>5. Started = Failed /\ size[b] = 0
  BY <1>1 DEF OneCallInv, AnswerInv
<1>6. \/ UNCHANGED <<v6_addr, size>>
      \/ /\ v6_addr' = [v6_addr EXCEPT ![b][0] = a]
         /\ size' = [size EXCEPT ![b] = 1]
  BY <1>1, <1>3, <1>5 DEF SystemLookup, Put, lists
<1>7. a.kind = "api" /\ a.by = 0
  OBVIOUS
<1> HIDE DEF a
<1>8. /\ size'[b] \in {0, 1} /\ \A c \in Bufs : c # b => size'[c] = size[c]
      /\ size'[b] = 1 => v6_addr'[b][0] = a
      /\ \A i \in 0..MaxIp-1 : v6_addr'[b][i] = v6_addr[b][i] \/ v6_addr'[b][i] = a
  <2>1. CASE UNCHANGED <<v6_addr, size>>
    BY <2>1, <1>5
  <2>2. CASE /\ v6_addr' = [v6_addr EXCEPT ![b][0] = a]
             /\ size' = [size EXCEPT ![b] = 1]
    <3>1. v6_addr'[b] = [v6_addr[b] EXCEPT ![0] = a]
      BY <1>3, <2>2
    <3>2. DOMAIN v6_addr[b] = 0..MaxIp-1 /\ 0 \in 0..MaxIp-1
      BY <1>3
    <3> QED
      BY <3>1, <3>2, <2>2, <1>3
  <2> QED
    BY <1>6, <2>1, <2>2
<1>9. \A t \in Threads : pc[t] \notin {"copy", "bump", "won"}
  BY <1>5 DEF Started, Failed
<1>10. CallerInv'
  BY <1>1, <1>2, <1>4, SameThreads DEF OneCallInv, CallerInv
<1>11. CountInv'
  BY <1>2, SameThreads DEF OneCallInv, CountInv
<1>12. AnswerInv'
  BY <1>1, <1>2, <1>9, SameThreads DEF OneCallInv, AnswerInv
<1>13. ListInv'
  BY <1>2, <1>3, <1>7, <1>8, <1>9 DEF OneCallInv, ListInv
<1>14. WriterInv'
  BY <1>2, <1>7, <1>8, <1>9, SameThreads DEF OneCallInv, WriterInv, Holders
<1> QED
  BY <1>10, <1>11, <1>12, <1>13, <1>14 DEF OneCallInv

LEMMA MainStep ==
  ASSUME MaxCalls = 1, TypeOK, OneCallInv, Main
  PROVE  OneCallInv'
BY InitRequestStep, CreateThreadStep, PollSizeStep, PollCountStep, TrimListStep,
   EmbedIpv4Step, SystemLookupStep, CreatedAssumption DEF Main

LEMMA StutterStep ==
  ASSUME OneCallInv, UNCHANGED vars
  PROVE  OneCallInv'
<1>1. UNCHANGED <<mpc, call, created, buf, re, ret, dead, locked, failcount, serverNum,
                  v6_addr, size, pc, left, seen>>
  BY DEF vars, mainVars, globals, lists, threadVars
<1>2. CallerInv' /\ CountInv' /\ WriterInv'
  BY <1>1, SameThreads DEF OneCallInv, CallerInv, CountInv, WriterInv
<1>3. AnswerInv' /\ ListInv'
  BY <1>1, SameThreads DEF OneCallInv, AnswerInv, ListInv
<1> QED
  BY <1>2, <1>3 DEF OneCallInv

\* OneCallInv holds all through a first call, however many servers there are.
THEOREM OneCallInvariant ==
  ASSUME MaxCalls = 1
  PROVE  Spec => []OneCallInv
<1>1. Init => OneCallInv
  <2> SUFFICES ASSUME Init PROVE OneCallInv
    OBVIOUS
  <2>1. /\ mpc = "idle" /\ call = 0 /\ created = 0 /\ re[1] = "none" /\ ret[1] = "none"
        /\ dead = FALSE /\ locked = FALSE /\ failcount = 0 /\ serverNum = NumServers
        /\ \A t \in Threads : pc[t] = "none"
        /\ \A c \in Bufs : size[c] = 0
        /\ buf[1] \in Bufs
    BY OneCall DEF Init
  <2>2. Started = {} /\ Failed = {} /\ Holders = {}
    BY <2>1 DEF Started, Failed, Holders
  <2>3. \A i \in 0..MaxIp-1 : v6_addr[buf[1]][i].by = 0
    BY <2>1 DEF Init, NoAddress
  <2>4. CallerInv
    BY <2>1, <2>2 DEF CallerInv
  <2>5. CountInv
    BY <2>1, <2>2, FS_EmptySet DEF CountInv
  <2>6. AnswerInv
    BY <2>1, <2>2 DEF AnswerInv
  <2>7. ListInv
    BY <2>1 DEF ListInv
  <2>8. WriterInv
    BY <2>3 DEF WriterInv
  <2> QED
    BY <2>4, <2>5, <2>6, <2>7, <2>8 DEF OneCallInv
<1>2. TypeOK /\ OneCallInv /\ [Next]_vars => OneCallInv'
  BY EnterCallStep, MainStep, ThreadStep, StutterStep DEF Next
<1> QED
  BY <1>1, <1>2, TypeCorrect, PTL DEF Spec

\* th_gethostbyname says -1 only when every thread it started has failed.
THEOREM FailureIsRight ==
  ASSUME MaxCalls = 1
  PROVE  Spec => []FailureMeansAllFailed
<1>1. OneCallInv => FailureMeansAllFailed
  BY OneCall DEF OneCallInv, AnswerInv, FailureMeansAllFailed, ThreadsOf, Started, Failed
<1> QED
  BY <1>1, OneCallInvariant, PTL

\* A late thread crashes the process only when another one has an answer listed.
THEOREM DeathIsLate ==
  ASSUME MaxCalls = 1
  PROVE  Spec => []DeathOnlyAfterAnswer
<1>1. TypeOK /\ OneCallInv => DeathOnlyAfterAnswer
  <2> SUFFICES ASSUME TypeOK, OneCallInv, dead
               PROVE  \E t \in Threads : /\ pc[t] \in {"copy", "bump", "won"}
                                         /\ size[buf[data[t]]] > 0
    BY DEF DeathOnlyAfterAnswer
  <2>1. re[1] = "0" /\ size[buf[1]] > 0 /\ Holders # {}
    BY DEF OneCallInv, AnswerInv
  <2> QED
    BY <2>1, OneRequest DEF Holders
<1> QED
  BY <1>1, TypeCorrect, OneCallInvariant, PTL

\* size stays within the array and counts only slots that have been written.
THEOREM SizeIsRight ==
  ASSUME MaxCalls = 1
  PROVE  Spec => []SizeCountsWrittenSlots
<1>1. OneCallInv => SizeCountsWrittenSlots
  BY DEF OneCallInv, ListInv, SizeCountsWrittenSlots, Listed
<1> QED
  BY <1>1, OneCallInvariant, PTL

\* The addresses that threads put in the list are those of a single thread.
THEOREM OneThreadsList ==
  ASSUME MaxCalls = 1
  PROVE  Spec => []ListFromOneThread
<1>1. OneCallInv => ListFromOneThread
  BY DEF OneCallInv, ListInv, WriterInv, AnswerInv, ListFromOneThread, Listed
<1> QED
  BY <1>1, OneCallInvariant, PTL
-----------------------------------------------------------------------------
(* What the call has returned stays, and what it says keeps the promise.     *)

\* Once the call has returned, only its threads take steps.
LEMMA AfterReturn ==
  ASSUME MaxCalls = 1, TypeOK, OneCallInv, Next, ret[1] # "none"
  PROVE  \E t \in Threads : Thread(t)
<1>1. mpc = "idle" /\ call = 1
  BY DEF OneCallInv, CallerInv, TypeOK, MainOK
<1>2. ~Main
  BY <1>1 DEF Main, InitRequest, CreateThread, PollSize, PollCount, TrimList, EmbedIpv4,
              SystemLookup
<1>3. ~\E k \in {"name", "ipv4"} : EnterCall(k)
  BY <1>1 DEF EnterCall
<1> QED
  BY <1>2, <1>3 DEF Next

\* A thread's step never makes the list shorter and changes no listed slot.
LEMMA ThreadsOnlyAdd ==
  ASSUME MaxCalls = 1, TypeOK, OneCallInv, NEW t \in Threads, Thread(t)
  PROVE  /\ size'[buf[1]] >= size[buf[1]]
         /\ \A i \in Listed(buf[1]) : v6_addr'[buf[1]][i] = v6_addr[buf[1]][i]
<1> DEFINE b == buf[1]
<1>1. /\ b \in Bufs /\ size[b] \in Nat /\ size \in [Bufs -> Nat]
      /\ v6_addr \in [Bufs -> [0..MaxIp-1 -> Address]]
      /\ seen[t] \in Nat /\ data[t] = 1
      /\ \A i \in Listed(b) : i \in 0..MaxIp-1 /\ i < size[b]
  BY OneCall DEF TypeOK, MainOK, ListsOK, ThreadsOK, Listed
<1>2. CASE CopyAddress(t)
  <2>1. v6_addr'[b] = [v6_addr[b] EXCEPT ![size[b]] =
                         [kind |-> "dns", call |-> data[t], by |-> IndexOf(t)]]
    BY <1>1, <1>2 DEF CopyAddress, Put
  <2>2. size' = size
    BY <1>2 DEF CopyAddress
  <2> QED
    BY <1>1, <2>1, <2>2
<1>3. CASE BumpSize(t)
  <2>1. t \in Holders /\ pc[t] = "bump"
    BY <1>3 DEF BumpSize, At, Holders
  <2>2. ~Rival(t)
    BY <2>1 DEF OneCallInv, AnswerInv, Holders, Rival
  <2>3. size[b] <= seen[t]
    BY <2>1 DEF OneCallInv, ListInv
  <2>4. PICK s \in {seen[t], size[b]} :
          /\ size' = [size EXCEPT ![b] = s + 1]
          /\ \/ v6_addr' = v6_addr
             \/ s # seen[t] /\ v6_addr' = [v6_addr EXCEPT ![b][s] = Torn(t)]
    BY <1>1, <1>3, <2>2 DEF BumpSize, Put
  <2>5. size'[b] = s + 1 /\ s >= size[b]
    BY <1>1, <2>3, <2>4
  <2>6. \A i \in Listed(b) : i # s
    BY <1>1, <2>5, <2>4
  <2>7. \A i \in Listed(b) : v6_addr'[b][i] = v6_addr[b][i]
    <3>1. CASE v6_addr' = v6_addr
      BY <3>1
    <3>2. CASE v6_addr' = [v6_addr EXCEPT ![b][s] = Torn(t)]
      <4>1. v6_addr'[b] = [v6_addr[b] EXCEPT ![s] = Torn(t)]
        BY <1>1, <3>2
      <4> QED
        BY <1>1, <2>6, <4>1
    <3> QED
      BY <2>4, <3>1, <3>2
  <2> QED
    BY <1>1, <2>4, <2>5, <2>7
<1>4. CASE UNCHANGED lists
  BY <1>1, <1>4 DEF lists
<1>5. CopyAddress(t) \/ BumpSize(t) \/ UNCHANGED lists
  BY DEF Thread, ReadRequest, FindEnd, WriteDot, UseAfterFree, SendFails, Send, Timeout,
         Receive, Lock, CheckSize, CountFailure
<1> QED
  BY <1>2, <1>3, <1>4, <1>5

\* What the call has listed for a name when it returns 0 stays listed, whatever
\* its late threads do (StableAnswer; 334-340, 484-503).
THEOREM AnswerStays ==
  ASSUME MaxCalls = 1
  PROVE  Spec => StableAnswer
<1> DEFINE Stays ==
      \A c \in Calls : ret[c] = "0" /\ kind[c] = "name" =>
        LET b == buf[c] IN
        /\ size'[b] >= size[b]
        /\ \A i \in Listed(b) : v6_addr'[b][i] = v6_addr[b][i]
<1>1. TypeOK /\ OneCallInv /\ Next => Stays
  <2> SUFFICES ASSUME TypeOK, OneCallInv, Next, ret[1] = "0"
               PROVE  /\ size'[buf[1]] >= size[buf[1]]
                      /\ \A i \in Listed(buf[1]) : v6_addr'[buf[1]][i] = v6_addr[buf[1]][i]
    BY OneCall
  <2> QED
    BY AfterReturn, ThreadsOnlyAdd
<1>2. TypeOK /\ OneCallInv /\ [Next]_vars => [Stays]_vars
  BY <1>1
<1> HIDE DEF Stays
<1>3. Spec => [][Stays]_vars
  BY <1>2, TypeCorrect, OneCallInvariant, PTL DEF Spec
<1> QED
  BY <1>3 DEF StableAnswer, Stays
-----------------------------------------------------------------------------
(* MultiDns implements the safety part of ResolverPromise: a step of the call *)
(* is a step of the promise or leaves the verdicts and the outcome alone.     *)

Won(t) == pc[t] \in {"copy", "bump", "won"} /\ size[buf[1]] > 0

\* Verdict, case by case, before and after a step.
LEMMA VerdictIs ==
  ASSUME MaxCalls = 1, TypeOK, TypeOK', NEW t \in Threads
  PROVE  /\ /\ pc[t] = "none" => verdicts[t] = "idle"
            /\ pc[t] = "lost" => verdicts[t] = "lost"
            /\ Won(t) => verdicts[t] = "won"
            /\ pc[t] \notin {"none", "lost"} /\ ~Won(t) => verdicts[t] = "asking"
         /\ /\ pc'[t] = "none" => verdicts'[t] = "idle"
            /\ pc'[t] = "lost" => verdicts'[t] = "lost"
            /\ Won(t)' => verdicts'[t] = "won"
            /\ pc'[t] \notin {"none", "lost"} /\ ~Won(t)' => verdicts'[t] = "asking"
<1>1. data[t] = 1 /\ data'[t] = 1
  BY OneCall DEF TypeOK, ThreadsOK
<1>2. verdicts[t] = Verdict(t) /\ verdicts'[t] = Verdict(t)'
  BY DEF verdicts
<1> QED
  BY <1>1, <1>2 DEF Verdict, Won

\* Two tables of verdicts are the same when they agree on every thread.
LEMMA SameVerdicts ==
  ASSUME \A t \in Threads : verdicts'[t] = verdicts[t]
  PROVE  verdicts' = verdicts
BY DEF verdicts

LEMMA OneVerdictChanges ==
  ASSUME NEW t \in Threads, NEW v,
         verdicts'[t] = v, \A u \in Threads : u # t => verdicts'[u] = verdicts[u]
  PROVE  verdicts' = [verdicts EXCEPT ![t] = v]
BY DEF verdicts

\* The verdicts are the same when no thread moves and the list is as empty as
\* it was, or nobody holds the mutex.
LEMMA VerdictsFrame ==
  ASSUME MaxCalls = 1, TypeOK, TypeOK', UNCHANGED pc,
         Holders = {} \/ (size'[buf'[1]] > 0 <=> size[buf[1]] > 0)
  PROVE  verdicts' = verdicts
<1>1. ASSUME NEW t \in Threads PROVE Won(t)' <=> Won(t)
  BY <1>1 DEF Won, Holders
<1> QED
  BY <1>1, VerdictIs, SameVerdicts, Zenon

\* What the caller has been told, in its first call.
LEMMA OutcomeIs ==
  ASSUME MaxCalls = 1, TypeOK, TypeOK'
  PROVE  /\ Outcome(1) = IF call = 0 THEN "idle" ELSE
              IF re[1] = "0" THEN "ok" ELSE IF re[1] = "-1" THEN "failed" ELSE "pending"
         /\ Outcome(1)' = IF call' = 0 THEN "idle" ELSE
              IF re'[1] = "0" THEN "ok" ELSE IF re'[1] = "-1" THEN "failed" ELSE "pending"
<1>1. /\ call \in {0, 1} /\ re[1] \in {"none", "0", "-1"}
      /\ call' \in {0, 1} /\ re'[1] \in {"none", "0", "-1"}
  BY OneCall DEF TypeOK, MainOK
<1>2. (call < 1 <=> call = 0) /\ (call' < 1 <=> call' = 0)
  BY <1>1
<1> QED
  BY <1>1, <1>2 DEF Outcome

\* A step of the caller is Begin, Launch, Succeed, GiveUp or none.
LEMMA CallerImplements ==
  ASSUME MaxCalls = 1, TypeOK, TypeOK', OneCallInv,
         (\E k \in {"name", "ipv4"} : EnterCall(k)) \/ Main
  PROVE  Promise!Next \/ UNCHANGED Promise!vars
<1> USE DEF Promise!Next, Promise!vars
<1>0. /\ re \in [Calls -> {"none", "0", "-1"}] /\ buf[1] \in Bufs /\ 1 \in Calls
      /\ size \in [Bufs -> Nat] /\ pc \in [Threads -> ThreadPcs]
  BY OneCall DEF TypeOK, MainOK, ListsOK, ThreadsOK
<1>1. ASSUME NEW k, EnterCall(k) PROVE Promise!Begin
  <2>1. call = 0 /\ call' = 1 /\ re' = re /\ pc' = pc
    BY <1>1 DEF EnterCall, TypeOK, MainOK, threadVars
  <2>2. Started = {} /\ re[1] = "none"
    BY <2>1 DEF OneCallInv, CallerInv
  <2>3. verdicts' = verdicts
    BY <2>1, <2>2, NothingStarted, VerdictsFrame
  <2>4. Outcome(1) = "idle" /\ Outcome(1)' = "pending"
    BY <2>1, <2>2, OutcomeIs
  <2> QED
    BY <2>3, <2>4 DEF Promise!Begin
<1>2. CASE InitRequest
  <2>1. UNCHANGED <<call, re, pc, buf, size>>
    BY <1>2 DEF InitRequest, lists, threadVars
  <2> QED
    BY <2>1, VerdictsFrame, OutcomeIs
<1>3. ASSUME NEW ok \in BOOLEAN, CreateThread(ok)
      PROVE  Promise!Next \/ UNCHANGED Promise!vars
  <2>1. /\ mpc = "create" /\ created < NumServers /\ created \in Nat /\ call = 1
        /\ re[1] = "none"
    BY <1>3, InFirstCall DEF CreateThread, OneCallInv, CallerInv, TypeOK, MainOK
  <2>2. UNCHANGED <<call, re, buf, size>>
    BY <1>3 DEF CreateThread, lists
  <2>3. Outcome(1) = "pending" /\ Outcome(1)' = "pending"
    BY <2>1, <2>2, OutcomeIs
  <2>4. PICK t \in Threads : t = <<1, created + 1>> /\ pc[t] = "none"
    <3>1. <<1, created + 1>> \in Threads
      BY <2>1 DEF Threads, Calls, Servers
    <3>2. <<1, created + 1>> \notin Started
      BY <2>1 DEF OneCallInv, CallerInv, IndexOf
    <3> QED
      BY <3>1, <3>2 DEF Started
  <2>5. CASE ok
    <3>1. /\ pc'[t] = "start"
          /\ \A u \in Threads : u # t => pc'[u] = pc[u]
      BY <1>0, <1>3, <2>1, <2>4, <2>5 DEF CreateThread, Goto
    <3>2. ~Won(t)'
      BY <3>1 DEF Won
    <3>3. \A u \in Threads : u # t => (Won(u)' <=> Won(u))
      BY <2>2, <3>1 DEF Won
    <3>4. \A u \in Threads : u # t => verdicts'[u] = verdicts[u]
      BY <3>1, <3>3, VerdictIs, Zenon
    <3>5. verdicts[t] = "idle" /\ verdicts'[t] = "asking"
      BY <2>4, <3>1, <3>2, VerdictIs
    <3>6. Promise!Launch(t)
      BY <2>3, <2>4, <3>4, <3>5, OneVerdictChanges DEF Promise!Launch
    <3> QED
      BY <2>4, <3>6
  <2>6. CASE ~ok
    BY <1>3, <2>2, <2>3, <2>6, VerdictsFrame DEF CreateThread
  <2> QED
    BY <2>5, <2>6
<1>4. CASE PollSize
  <2>1. mpc = "poll" /\ call = 1 /\ MyBuf = buf[1] /\ re[1] = "none"
    BY <1>4, InFirstCall DEF PollSize, OneCallInv, CallerInv
  <2>2. UNCHANGED <<call, pc, buf, size>>
    BY <1>4 DEF PollSize, lists, threadVars
  <2>3. verdicts' = verdicts
    BY <2>2, VerdictsFrame
  <2>4. CASE size[buf[1]] > 0
    <3>1. Outcome(1) = "pending" /\ Outcome(1)' = "ok"
      BY <1>0, <1>4, <2>1, <2>2, <2>4, OutcomeIs DEF PollSize
    <3>2. PICK t \in Threads : Won(t)
      BY <2>1, <2>4 DEF OneCallInv, AnswerInv, Holders, Won
    <3>3. verdicts[t] = "won"
      BY <3>2, VerdictIs
    <3> QED
      BY <2>3, <3>1, <3>3 DEF Promise!Succeed
  <2>5. CASE ~(size[buf[1]] > 0)
    BY <1>4, <2>1, <2>2, <2>3, <2>5, OutcomeIs DEF PollSize
  <2> QED
    BY <2>4, <2>5
<1>5. CASE PollCount
  <2>1. mpc = "count" /\ call = 1 /\ re[1] = "none"
    BY <1>5, InFirstCall DEF PollCount, OneCallInv, CallerInv
  <2>2. UNCHANGED <<call, pc, buf, size>>
    BY <1>5 DEF PollCount, lists, threadVars
  <2>3. verdicts' = verdicts
    BY <2>2, VerdictsFrame
  <2>4. CASE failcount = serverNum
    <3>1. Outcome(1) = "pending" /\ Outcome(1)' = "failed"
      BY <1>0, <1>5, <2>1, <2>2, <2>4, OutcomeIs DEF PollCount
    <3>2. \A t \in Threads : pc[t] \in {"none", "lost"}
      BY <2>1, <2>4, EqualCounts DEF Started, Failed
    <3>3. \A t \in Threads : verdicts[t] \in {"idle", "lost"}
      BY <3>2, VerdictIs
    <3> QED
      BY <2>3, <3>1, <3>3 DEF Promise!GiveUp
  <2>5. CASE failcount # serverNum
    BY <1>5, <2>1, <2>2, <2>3, <2>5, OutcomeIs DEF PollCount
  <2> QED
    BY <2>4, <2>5
<1>6. CASE TrimList
  <2>1. mpc = "trim" /\ MyBuf = buf[1] /\ size[buf[1]] > 0
    BY <1>6, InFirstCall DEF TrimList, OneCallInv, CallerInv, AnswerInv
  <2>2. UNCHANGED <<call, re, pc, buf>> /\ size'[buf[1]] = 1
    BY <1>0, <1>6, <2>1 DEF TrimList, threadVars
  <2> QED
    BY <2>1, <2>2, VerdictsFrame, OutcomeIs
<1>7. CASE EmbedIpv4
  <2>1. UNCHANGED <<call, re, pc, buf, size>>
    BY <1>7 DEF EmbedIpv4, threadVars
  <2> QED
    BY <2>1, VerdictsFrame, OutcomeIs
<1>8. ASSUME NEW found \in BOOLEAN, SystemLookup(found) PROVE UNCHANGED Promise!vars
  <2>1. Started = Failed
    BY <1>8 DEF SystemLookup, OneCallInv, CallerInv, AnswerInv
  <2>2. Holders = {}
    BY <2>1 DEF Started, Failed, Holders
  <2>3. UNCHANGED <<call, re, pc>>
    BY <1>8 DEF SystemLookup, threadVars
  <2> QED
    BY <2>2, <2>3, VerdictsFrame, OutcomeIs
<1> QED
  BY <1>1, <1>2, <1>3, <1>4, <1>5, <1>6, <1>7, <1>8, CreatedAssumption DEF Main

\* A step of a thread is Win, Lose or none.
LEMMA ThreadImplements ==
  ASSUME MaxCalls = 1, TypeOK, TypeOK', OneCallInv, NEW t \in Threads, Thread(t)
  PROVE  Promise!Next \/ UNCHANGED Promise!vars
<1> USE DEF Promise!Next, Promise!vars
<1>0. /\ buf[1] \in Bufs /\ size \in [Bufs -> Nat] /\ pc \in [Threads -> ThreadPcs]
      /\ seen[t] \in Nat
      /\ data[t] = 1
  BY OneCall DEF TypeOK, MainOK, ListsOK, ThreadsOK
<1>1. UNCHANGED mainVars \/ UseAfterFree(t)
  BY DEF Thread, ReadRequest, FindEnd, WriteDot, SendFails, Send, Timeout,
         Receive, Lock, CheckSize, CountFailure, BumpSize, CopyAddress
<1>2. UNCHANGED <<call, re, buf>>
  BY <1>1 DEF mainVars, UseAfterFree
<1>3. Outcome(1)' = Outcome(1)
  BY <1>2, OutcomeIs
<1>4. CASE UNCHANGED size /\ pc[t] \in Quiet /\ \E q \in Quiet : pc' = [pc EXCEPT ![t] = q]
  <2>1. ASSUME NEW u \in Threads PROVE verdicts'[u] = verdicts[u]
    <3>1. pc'[u] = pc[u] \/ (pc[u] \in Quiet /\ pc'[u] \in Quiet)
      BY <1>0, <1>4
    <3>2. Won(u)' <=> Won(u)
      BY <1>2, <1>4, <3>1 DEF Won, Quiet
    <3> QED
      BY <3>1, <3>2, VerdictIs DEF Quiet
  <2> QED
    BY <1>3, <2>1, SameVerdicts
<1>5. CASE UseAfterFree(t)
  BY <1>3, <1>5, VerdictsFrame DEF UseAfterFree, threadVars, lists
<1>6. CASE Lock(t)
  <2>1. /\ pc[t] = "lock" /\ pc'[t] = "copy"
        /\ \A u \in Threads : u # t => pc'[u] = pc[u]
        /\ UNCHANGED size
    BY <1>0, <1>6 DEF Lock, At, Goto, lists
  <2>2. size[buf[1]] = 0
    <3>1. t \in Started /\ t \notin Failed
      BY <2>1 DEF Started, Failed
    <3>2. Holders = {} /\ re[1] # "-1"
      BY <1>6, <3>1 DEF Lock, OneCallInv, AnswerInv
    <3> QED
      BY <1>0, <3>2 DEF OneCallInv, AnswerInv
  <2>3. ASSUME NEW u \in Threads PROVE verdicts'[u] = verdicts[u]
    <3>1. ~Won(u) /\ ~Won(u)'
      BY <1>2, <2>1, <2>2 DEF Won
    <3> QED
      BY <2>1, <3>1, VerdictIs
  <2> QED
    BY <1>3, <2>3, SameVerdicts
<1>7. CASE CopyAddress(t)
  <2>1. /\ pc[t] = "copy" /\ pc'[t] = "bump"
        /\ \A u \in Threads : u # t => pc'[u] = pc[u]
        /\ UNCHANGED size
    BY <1>0, <1>7 DEF CopyAddress, At, Goto
  <2>2. ASSUME NEW u \in Threads PROVE verdicts'[u] = verdicts[u]
    <3>1. Won(u)' <=> Won(u)
      BY <1>2, <2>1 DEF Won
    <3> QED
      BY <2>1, <3>1, VerdictIs
  <2> QED
    BY <1>3, <2>2, SameVerdicts
<1>8. CASE BumpSize(t)
  <2>1. /\ pc[t] = "bump" /\ pc'[t] = "copy"
        /\ \A u \in Threads : u # t => pc'[u] = pc[u]
        /\ size'[buf[1]] > 0
    BY <1>0, <1>8 DEF BumpSize, At, Goto
  <2>2. \A u \in Threads : u # t => pc[u] \notin {"copy", "bump", "won"}
    BY <2>1 DEF OneCallInv, AnswerInv, Holders
  <2>3. ASSUME NEW u \in Threads, u # t
        PROVE  verdicts'[u] = verdicts[u] /\ verdicts[u] # "won"
    <3>1. ~Won(u) /\ ~Won(u)'
      BY <2>1, <2>2, <2>3 DEF Won
    <3> QED
      BY <2>1, <2>3, <3>1, VerdictIs
  <2>4. verdicts'[t] = "won"
    BY <1>2, <2>1, VerdictIs DEF Won
  <2>5. CASE Won(t)
    <3>1. verdicts[t] = "won"
      BY <2>5, VerdictIs
    <3> QED
      BY <1>3, <2>3, <2>4, <3>1, SameVerdicts
  <2>6. CASE ~Won(t)
    <3>1. verdicts[t] = "asking"
      BY <2>1, <2>6, VerdictIs
    <3>2. Promise!Win(t)
      BY <1>3, <2>3, <2>4, <3>1, OneVerdictChanges DEF Promise!Win
    <3> QED
      BY <3>2
  <2> QED
    BY <2>5, <2>6
<1>9. CASE CheckSize(t)
  <2>1. /\ pc[t] = "copy"
        /\ pc'[t] = IF size[buf[1]] = 0 THEN "fail" ELSE "won"
        /\ \A u \in Threads : u # t => pc'[u] = pc[u]
        /\ UNCHANGED size
    BY <1>0, <1>9 DEF CheckSize, At, Goto, lists
  <2>2. ASSUME NEW u \in Threads PROVE verdicts'[u] = verdicts[u]
    <3>1. Won(u)' <=> Won(u)
      BY <1>0, <1>2, <2>1 DEF Won
    <3> QED
      BY <2>1, <3>1, VerdictIs
  <2> QED
    BY <1>3, <2>2, SameVerdicts
<1>10. CASE CountFailure(t)
  <2>1. /\ pc[t] = "fail" /\ pc'[t] = "lost"
        /\ \A u \in Threads : u # t => pc'[u] = pc[u]
        /\ UNCHANGED size
    BY <1>0, <1>10 DEF CountFailure, At, Goto, lists
  <2>2. \A u \in Threads : u # t => verdicts'[u] = verdicts[u]
    <3>1. \A u \in Threads : u # t => (Won(u)' <=> Won(u))
      BY <1>2, <2>1 DEF Won
    <3> QED
      BY <2>1, <3>1, VerdictIs, Zenon
  <2>3. verdicts[t] = "asking" /\ verdicts'[t] = "lost"
    BY <2>1, VerdictIs DEF Won
  <2>4. Promise!Lose(t)
    BY <1>3, <2>2, <2>3, OneVerdictChanges DEF Promise!Lose
  <2> QED
    BY <2>4
<1>11. \/ UNCHANGED size /\ pc[t] \in Quiet /\ \E q \in Quiet : pc' = [pc EXCEPT ![t] = q]
       \/ UseAfterFree(t) \/ Lock(t) \/ CopyAddress(t) \/ BumpSize(t) \/ CheckSize(t)
       \/ CountFailure(t)
  BY DEF Thread, ReadRequest, FindEnd, WriteDot, SendFails, Send, Timeout, Receive,
         LeaveLoop, At, Goto, Quiet, lists
<1> QED
  BY <1>4, <1>5, <1>6, <1>7, <1>8, <1>9, <1>10, <1>11

\* What a first call tells its caller is never wrong: MultiDns implements the
\* safety part of ResolverPromise, for any number of servers (290-352, 363-408,
\* 484-503).
THEOREM KeepsPromise ==
  ASSUME MaxCalls = 1
  PROVE  Spec => Promise!Safety
<1>1. Init => Promise!Init
  <2> SUFFICES ASSUME Init PROVE Promise!Init
    OBVIOUS
  <2>1. \A t \in Threads : Verdict(t) = "idle"
    BY DEF Init, Verdict
  <2>2. call = 0
    BY DEF Init
  <2>3. Outcome(1) = "idle"
    BY <2>2 DEF Outcome
  <2> QED
    BY <2>1, <2>3 DEF Promise!Init, verdicts
<1>2. TypeOK /\ TypeOK' /\ OneCallInv /\ [Next]_vars => [Promise!Next]_(Promise!vars)
  <2> SUFFICES ASSUME TypeOK, TypeOK', OneCallInv, [Next]_vars
               PROVE  Promise!Next \/ UNCHANGED Promise!vars
    OBVIOUS
  <2>1. CASE UNCHANGED vars
    <3>1. UNCHANGED <<pc, call, re, buf, size>>
      BY <2>1 DEF vars, mainVars, lists, threadVars
    <3> QED
      BY <3>1, VerdictsFrame, OutcomeIs DEF Promise!vars
  <2> QED
    BY <2>1, CallerImplements, ThreadImplements DEF Next
<1> QED
  BY <1>1, <1>2, TypeCorrect, OneCallInvariant, PTL DEF Spec, Promise!Safety
-----------------------------------------------------------------------------
(* Why the call returns: a thread makes so many steps and no more, the caller *)
(* too but for its polling, and when every thread has come to rest what the   *)
(* caller polls ends the polling. The first part holds in any number of       *)
(* calls, the last in a first call: in a later one the counters are wrong and *)
(* the caller may poll for ever.                                              *)

\* How many steps a thread has at most before it: two per try, two per address, and
\* those of its creation, its request, the dot, the mutex and its verdict.
WorkLeft(t) ==
  CASE pc[t] = "none"   -> 2 * Tries + 2 * MaxIp + 7
    [] pc[t] = "start"  -> 2 * Tries + 2 * MaxIp + 6
    [] pc[t] = "append" -> 2 * Tries + 2 * MaxIp + 5
    [] pc[t] = "dot"    -> 2 * Tries + 2 * MaxIp + 4
    [] pc[t] = "send"   -> 2 * (Tries - try[t]) + 2 * MaxIp + 3
    [] pc[t] = "wait"   -> 2 * (Tries - try[t]) + 2 * MaxIp + 2
    [] pc[t] = "lock"   -> 2 * left[t] + 3
    [] pc[t] = "bump"   -> 2 * left[t] + 3
    [] pc[t] = "copy"   -> 2 * left[t] + 2
    [] pc[t] = "fail"   -> 1
    [] pc[t] \in {"won", "lost"} -> 0

\* The caller's steps within a call, without its polling.
CallerLeft ==
  CASE mpc = "init"   -> NumServers + 4
    [] mpc = "create" -> (NumServers - created) + 3
    [] mpc \in {"poll", "count"} -> 3
    [] mpc = "trim"   -> 2
    [] mpc \in {"embed", "api"} -> 1
    [] mpc = "idle"   -> 0

\* A thread's step leaves it fewer or crashes the process, a caller's step leaves it fewer
\* or is one of the two it polls with, and no step gives a thread more.
StepAdvances ==
  /\ \A t \in Threads : WorkLeft(t)' <= WorkLeft(t)
  /\ \A t \in Threads : Thread(t) => WorkLeft(t)' < WorkLeft(t) \/ dead'
  /\ Main => CallerLeft' < CallerLeft \/ {mpc, mpc'} = {"poll", "count"}

\* What is left is a natural number.
LEMMA WorkBounded ==
  ASSUME TypeOK, NEW t \in Threads
  PROVE  WorkLeft(t) \in 0..2 * Tries + 2 * MaxIp + 7
<1>1. /\ pc[t] \in ThreadPcs /\ try[t] \in 0..Tries-1 /\ left[t] \in 0..MaxIp
      /\ Tries \in Nat \ {0} /\ MaxIp \in Nat \ {0}
  BY TriesAssumption, MaxIpAssumption DEF TypeOK, ThreadsOK
<1>2. CASE pc[t] \in {"none", "start", "append", "dot"}
  <2>1. \E n \in 4..7 : WorkLeft(t) = 2 * Tries + 2 * MaxIp + n
    BY <1>2 DEF WorkLeft
  <2> QED
    BY <1>1, <2>1
<1>3. CASE pc[t] \in {"send", "wait"}
  <2>1. \E n \in 2..3 : WorkLeft(t) = 2 * (Tries - try[t]) + 2 * MaxIp + n
    BY <1>3 DEF WorkLeft
  <2> QED
    BY <1>1, <2>1
<1>4. CASE pc[t] \in {"lock", "bump", "copy"}
  <2>1. \E n \in 2..3 : WorkLeft(t) = 2 * left[t] + n
    BY <1>4 DEF WorkLeft
  <2> QED
    BY <1>1, <2>1
<1>5. CASE pc[t] \in {"fail", "won", "lost"}
  <2>1. WorkLeft(t) \in 0..1
    BY <1>5 DEF WorkLeft
  <2> QED
    BY <1>1, <2>1
<1> QED
  BY <1>1, <1>2, <1>3, <1>4, <1>5 DEF ThreadPcs

\* Where a thread's step takes it: on through the query, to the lock, through the list,
\* to its verdict.
Moves(t) ==
  \/ pc[t] = "start" /\ pc'[t] \in {"append", "fail"}
  \/ pc[t] = "append" /\ pc'[t] = "dot"
  \/ pc[t] = "dot" /\ pc'[t] = "send" /\ try'[t] = try[t]
  \/ pc[t] = "send" /\ pc'[t] = "wait" /\ try'[t] = try[t]
  \/ pc[t] = "wait" /\ pc'[t] = "send" /\ try'[t] = try[t] + 1
  \/ pc[t] \in {"send", "wait"} /\ pc'[t] = "lock" /\ left'[t] \in 0..MaxIp
  \/ pc[t] = "lock" /\ pc'[t] = "copy" /\ left'[t] = left[t]
  \/ pc[t] = "copy" /\ pc'[t] = "bump" /\ left[t] > 0 /\ left'[t] = left[t] - 1
  \/ pc[t] = "bump" /\ pc'[t] = "copy" /\ left'[t] = left[t]
  \/ pc[t] = "copy" /\ pc'[t] \in {"fail", "won"}
  \/ pc[t] = "fail" /\ pc'[t] = "lost"

Stays(t) == pc'[t] = pc[t] /\ try'[t] = try[t] /\ left'[t] = left[t]

\* A thread's step moves it or is its last, and leaves the other threads where they are.
LEMMA ThreadMoves ==
  ASSUME TypeOK, NEW t \in Threads, Thread(t)
  PROVE  /\ Moves(t) \/ (dead' /\ Stays(t))
         /\ \A u \in Threads : u # t => Stays(u)
<1> USE DEF TypeOK, ThreadsOK, At, Goto, Stays
<1>1. ASSUME NEW opened \in BOOLEAN, ReadRequest(t, opened)
      PROVE  Moves(t) /\ \A u \in Threads : u # t => Stays(u)
  BY <1>1 DEF ReadRequest, Moves
<1>2. CASE FindEnd(t)
  BY <1>2 DEF FindEnd, Moves
<1>3. CASE WriteDot(t)
  BY <1>3 DEF WriteDot, Moves
<1>4. CASE UseAfterFree(t)
  BY <1>4 DEF UseAfterFree, threadVars
<1>5. CASE SendFails(t)
  BY <1>5, MaxIpAssumption DEF SendFails, LeaveLoop, Moves
<1>6. CASE Send(t)
  BY <1>6 DEF Send, Moves
<1>7. CASE Timeout(t)
  BY <1>7, MaxIpAssumption DEF Timeout, LeaveLoop, Moves
<1>8. ASSUME NEW n \in 0..MaxIp, Receive(t, n)
      PROVE  Moves(t) /\ \A u \in Threads : u # t => Stays(u)
  BY <1>8 DEF Receive, LeaveLoop, Moves
<1>9. CASE Lock(t)
  BY <1>9 DEF Lock, Moves
<1>10. CASE CopyAddress(t)
  BY <1>10 DEF CopyAddress, Moves
<1>11. CASE BumpSize(t)
  BY <1>11 DEF BumpSize, Moves
<1>12. CASE CheckSize(t)
  BY <1>12 DEF CheckSize, Moves
<1>13. CASE CountFailure(t)
  BY <1>13 DEF CountFailure, Moves
<1> QED
  BY <1>1, <1>2, <1>3, <1>4, <1>5, <1>6, <1>7, <1>8, <1>9, <1>10, <1>11, <1>12, <1>13
     DEF Thread

\* A move leaves fewer steps.
LEMMA MoveAdvances ==
  ASSUME TypeOK, NEW t \in Threads
  PROVE  /\ Moves(t) => WorkLeft(t)' < WorkLeft(t)
         /\ Stays(t) => WorkLeft(t)' = WorkLeft(t)
<1>1. /\ try[t] \in 0..Tries-1 /\ left[t] \in 0..MaxIp
      /\ Tries \in Nat \ {0} /\ MaxIp \in Nat \ {0}
  BY TriesAssumption, MaxIpAssumption DEF TypeOK, ThreadsOK
<1>2. ASSUME Moves(t) PROVE WorkLeft(t)' < WorkLeft(t)
  <2>1. CASE pc[t] \in {"start", "append", "dot"}
    BY <1>1, <1>2, <2>1 DEF Moves, WorkLeft
  <2>2. CASE pc[t] \in {"send", "wait"}
    BY <1>1, <1>2, <2>2 DEF Moves, WorkLeft
  <2>3. CASE pc[t] \in {"lock", "copy", "bump", "fail"}
    BY <1>1, <1>2, <2>3 DEF Moves, WorkLeft
  <2> QED
    BY <1>2, <2>1, <2>2, <2>3 DEF Moves
<1>3. ASSUME Stays(t) PROVE WorkLeft(t)' = WorkLeft(t)
  BY <1>3 DEF Stays, WorkLeft
<1> QED
  BY <1>2, <1>3

\* The caller creates thread t.
Begins(t) ==
  /\ mpc = "create" /\ t = <<call, created + 1>> /\ pc'[t] = "start"
  /\ try'[t] = try[t] /\ left'[t] = left[t]

\* The caller goes on, or polls; a thread it creates has one step behind it.
LEMMA MainMoves ==
  ASSUME TypeOK, Main
  PROVE  /\ CallerLeft' < CallerLeft \/ {mpc, mpc'} = {"poll", "count"}
         /\ \A t \in Threads : Stays(t) \/ Begins(t)
<1> USE DEF TypeOK, MainOK, ThreadsOK, Stays, threadVars
<1>0. created \in 0..NumServers /\ NumServers \in Nat \ {0}
  BY NumServersAssumption
<1>1. CASE InitRequest
  BY <1>0, <1>1 DEF InitRequest, CallerLeft
<1>2. ASSUME NEW ok \in Created, CreateThread(ok)
      PROVE  /\ CallerLeft' < CallerLeft
             /\ \A t \in Threads : Stays(t) \/ Begins(t)
  <2>1. CallerLeft' < CallerLeft
    BY <1>0, <1>2 DEF CreateThread, CallerLeft
  <2>2. \A t \in Threads : pc'[t] = pc[t] \/ (t = <<call, created + 1>> /\ pc'[t] = "start")
    BY <1>2 DEF CreateThread, Goto
  <2> QED
    BY <1>2, <2>1, <2>2 DEF CreateThread, Begins
<1>3. CASE PollSize
  <2>1. mpc = "poll" /\ mpc' \in {"trim", "idle", "count"}
    BY <1>3 DEF PollSize, Return
  <2> QED
    BY <1>3, <2>1 DEF PollSize, CallerLeft
<1>4. CASE PollCount
  <2>1. mpc = "count" /\ mpc' \in {"api", "idle", "poll"}
    BY <1>4 DEF PollCount, Return
  <2> QED
    BY <1>4, <2>1 DEF PollCount, CallerLeft
<1>5. CASE TrimList
  BY <1>5 DEF TrimList, CallerLeft
<1>6. CASE EmbedIpv4
  BY <1>6 DEF EmbedIpv4, Return, CallerLeft
<1>7. ASSUME NEW found, SystemLookup(found)
      PROVE  /\ CallerLeft' < CallerLeft
             /\ \A t \in Threads : Stays(t)
  BY <1>7 DEF SystemLookup, Return, CallerLeft
<1> QED
  BY <1>1, <1>2, <1>3, <1>4, <1>5, <1>6, <1>7 DEF Main

\* The thread the caller creates had not begun.
LEMMA BeginAdvances ==
  ASSUME TypeOK, OrderInv, NEW t \in Threads, Begins(t)
  PROVE  WorkLeft(t)' < WorkLeft(t)
<1>1. created \in Nat /\ CallOf(t) = call /\ IndexOf(t) = created + 1
  BY DEF TypeOK, MainOK, Begins, CallOf, IndexOf
<1>2. pc[t] = "none" /\ pc'[t] = "start"
  BY <1>1 DEF OrderInv, MadeInOrder, Begins
<1>3. /\ WorkLeft(t) = 2 * Tries + 2 * MaxIp + 7
      /\ WorkLeft(t)' = 2 * Tries + 2 * MaxIp + 6
  BY <1>2 DEF WorkLeft
<1> QED
  BY <1>3, TriesAssumption, MaxIpAssumption

LEMMA Advances == TypeOK /\ TypeOK' /\ OrderInv /\ [Next]_vars => [StepAdvances]_vars
<1> SUFFICES ASSUME TypeOK, TypeOK', OrderInv, Next PROVE StepAdvances
  OBVIOUS
<1>0. \A t \in Threads : WorkLeft(t) \in Nat /\ WorkLeft(t)' \in Nat
  <2>1. ASSUME NEW t \in Threads PROVE WorkLeft(t) \in Nat
    BY WorkBounded, TriesAssumption, MaxIpAssumption
  <2>2. ASSUME NEW t \in Threads PROVE WorkLeft(t)' \in Nat
    <3>1. (WorkLeft(t) \in 0..2 * Tries + 2 * MaxIp + 7)'
      BY WorkBounded, PTL
    <3> QED
      BY <3>1, TriesAssumption, MaxIpAssumption
  <2> QED
    BY <2>1, <2>2
<1>1. \A t \in Threads : WorkLeft(t)' <= WorkLeft(t)
  <2>1. \A t \in Threads : Stays(t) \/ Moves(t) \/ Begins(t)
    <3>1. ASSUME NEW k \in {"name", "ipv4"}, EnterCall(k)
          PROVE  \A t \in Threads : Stays(t)
      BY <3>1 DEF EnterCall, threadVars, Stays
    <3>2. ASSUME NEW u \in Threads, Thread(u)
          PROVE  \A t \in Threads : Stays(t) \/ Moves(t)
      BY <3>2, ThreadMoves
    <3> QED
      BY <3>1, <3>2, MainMoves DEF Next
  <2>2. ASSUME NEW t \in Threads PROVE WorkLeft(t)' <= WorkLeft(t)
    BY <1>0, <2>1, MoveAdvances, BeginAdvances
  <2> QED
    BY <2>2
<1>2. \A t \in Threads : Thread(t) => WorkLeft(t)' < WorkLeft(t) \/ dead'
  BY ThreadMoves, MoveAdvances
<1>3. Main => CallerLeft' < CallerLeft \/ {mpc, mpc'} = {"poll", "count"}
  BY MainMoves
<1> QED
  BY <1>1, <1>2, <1>3 DEF StepAdvances

\* A thread ends after so many steps whatever the servers answer, and however many calls
\* there are; within a call the caller's steps are as many, but for those of its polling
\* (313-352, 449-516). With that, CallReturns is a matter of the scheduling and of what
\* the polling finds.
THEOREM WorkEnds ==
  Spec => /\ [][StepAdvances]_vars
          /\ [](\A t \in Threads : WorkLeft(t) \in 0..2 * Tries + 2 * MaxIp + 7)
<1>1. TypeOK => \A t \in Threads : WorkLeft(t) \in 0..2 * Tries + 2 * MaxIp + 7
  BY WorkBounded
<1> QED
  BY <1>1, Advances, TypeInit, TypeStep, OrderInit, OrderStep, PTL DEF Spec

\* Every thread has ended, succeeded, or waits for a mutex that is held.
AtRest == \A t \in Threads : pc[t] \in {"none", "lost", "won"} \/ (pc[t] = "lock" /\ locked)

\* What the caller polls ends its polling.
Decided == size[MyBuf] > 0 \/ failcount = serverNum

\* In a first call the caller never polls for what nobody will do: once the threads are
\* at rest, the list has an address or as many have failed as there are (331-343). So
\* the two counters, which are written without the mutex the caller ignores, agree.
THEOREM PollingIsNotInVain ==
  ASSUME MaxCalls = 1
  PROVE  Spec => [](mpc \in {"poll", "count"} /\ AtRest => Decided)
<1>1. TypeOK /\ OneCallInv => (mpc \in {"poll", "count"} /\ AtRest => Decided)
  <2> SUFFICES ASSUME TypeOK, OneCallInv, mpc \in {"poll", "count"}, AtRest
               PROVE  Decided
    OBVIOUS
  <2>1. MyBuf = buf[1] /\ created = NumServers
    BY InFirstCall DEF OneCallInv, CallerInv
  <2>2. CASE locked
    <3>1. PICK t \in Holders : TRUE
      BY <2>2 DEF OneCallInv, AnswerInv
    <3>2. t \in Threads /\ pc[t] = "won"
      BY <3>1 DEF Holders, AtRest
    <3> QED
      BY <2>1, <3>2 DEF OneCallInv, AnswerInv, Decided
  <2>3. CASE ~locked
    <3>1. Holders = {}
      BY <2>3 DEF OneCallInv, AnswerInv
    <3>2. Started = Failed
      BY <2>3, <3>1 DEF Started, Failed, Holders, AtRest
    <3> QED
      BY <2>1, <3>2, FiniteThreads DEF OneCallInv, CountInv, Decided
  <2> QED
    BY <2>2, <2>3
<1> QED
  BY <1>1, TypeCorrect, OneCallInvariant, PTL

\* What a thread that succeeds leaves behind.
Starving ==
  \A t \in Threads : pc[t] = "won" =>
    /\ pc'[t] = "won"
    /\ locked'
    /\ \A u \in Threads : pc[u] = "lock" => pc'[u] = "lock"

\* A thread that succeeds returns with the mutex (503): in a first call nobody gets it
\* any more, and every thread that waits for it, its socket open, waits for ever.
THEOREM WaitersStarve ==
  ASSUME MaxCalls = 1
  PROVE  Spec => [][Starving]_vars
<1>1. TypeOK /\ OneCallInv /\ [Next]_vars => [Starving]_vars
  <2> SUFFICES ASSUME TypeOK, OneCallInv, Next, NEW t \in Threads, pc[t] = "won"
               PROVE  /\ pc'[t] = "won"
                      /\ locked'
                      /\ \A u \in Threads : pc[u] = "lock" => pc'[u] = "lock"
    BY DEF Starving
  <2>1. /\ locked /\ t \in Started
        /\ \A u \in Threads : pc[u] \in {"copy", "bump", "won"} => u = t
    BY DEF OneCallInv, AnswerInv, Holders, Started
  <2>2. mpc # "init" /\ call = 1
    <3>1. mpc # "init" /\ call # 0
      BY <2>1 DEF OneCallInv, CallerInv
    <3> QED
      BY <3>1 DEF TypeOK, MainOK
  <2>3. CASE \E k \in {"name", "ipv4"} : EnterCall(k)
    BY <2>2, <2>3 DEF EnterCall
  <2>4. CASE Main
    <3>1. ASSUME NEW ok \in Created, CreateThread(ok)
          PROVE  /\ UNCHANGED locked
                 /\ \A u \in Threads : pc[u] # "none" => pc'[u] = pc[u]
      <4>1. \A u \in Threads : u # <<call, created + 1>> => pc'[u] = pc[u]
        BY <3>1 DEF CreateThread, TypeOK, ThreadsOK
      <4>2. \A u \in Threads : u = <<call, created + 1>> => pc[u] = "none"
        <5>1. \A u \in Started : IndexOf(u) <= created
          BY DEF OneCallInv, CallerInv
        <5> QED
          BY <5>1 DEF Started, IndexOf, TypeOK, MainOK
      <4> QED
        BY <3>1, <4>1, <4>2 DEF CreateThread
    <3>2. CASE \/ PollSize \/ PollCount \/ TrimList \/ EmbedIpv4
               \/ \E found \in BOOLEAN : SystemLookup(found)
      BY <2>1, <3>2 DEF PollSize, PollCount, TrimList, EmbedIpv4, SystemLookup,
                        globals, threadVars
    <3> QED
      BY <2>1, <2>2, <2>4, <3>1, <3>2 DEF Main, InitRequest
  <2>5. ASSUME NEW u \in Threads, Thread(u)
        PROVE  /\ pc'[t] = "won"
               /\ locked'
               /\ \A w \in Threads : pc[w] = "lock" => pc'[w] = "lock"
    <3>1. pc[u] \notin {"copy", "bump", "won", "lock"} \/ UNCHANGED <<pc, locked>>
      BY <2>1, <2>5 DEF Thread, ReadRequest, FindEnd, WriteDot, UseAfterFree, SendFails, Send,
                        Timeout, Receive, LeaveLoop, Lock, CopyAddress, BumpSize, CheckSize,
                        CountFailure, globals, threadVars
    <3>2. UNCHANGED locked
      BY <2>5, <3>1 DEF Thread, ReadRequest, FindEnd, WriteDot, UseAfterFree, SendFails, Send,
                        Timeout, Receive, LeaveLoop, Lock, CopyAddress, BumpSize, CheckSize,
                        CountFailure, globals, threadVars
    <3>3. \A w \in Threads : w # u => pc'[w] = pc[w]
      BY <2>5, ThreadMoves DEF Stays
    <3> QED
      BY <2>1, <3>1, <3>2, <3>3
  <2> QED
    BY <2>3, <2>4, <2>5 DEF Next
<1> QED
  BY <1>1, TypeCorrect, OneCallInvariant, PTL DEF Spec

===============================================================================
