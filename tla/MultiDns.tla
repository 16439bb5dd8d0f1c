------------------------------- MODULE MultiDns -------------------------------
(* getaddrinfo_v6 of dns64_query_c/dns_v6/dnsquery.c: a lookup that starts   *)
(* one thread per DNS64 server and returns when the first of them has put an *)
(* address into the caller's socket_ipinfo_t.                                *)
(*                                                                           *)
(* One caller makes its calls one after the other; the threads of a call may *)
(* still run when the call has returned, and share with the next call the    *)
(* file-scope variables dnsquery_mutex, dnsquery_failcount, DNS64SERVERNUM.  *)
(* A step of a thread is what it does between two accesses to shared state.  *)
(* A data race is a choice among the values the racing code can leave.       *)
EXTENDS Integers, FiniteSets

CONSTANTS
  MaxCalls,    \* how many calls the caller makes (a bound: it may make any number)
  NumServers,  \* how many DNS64 servers, and threads, a call has: 3
  Tries,       \* how often a thread sends its query: 3
  MaxIp,       \* SOCKET_MAX_IP_COUNT, the slots of v6_addr
  Bufs,        \* the socket_ipinfo_t structures the caller passes
  Created      \* what pthread_create may do: {TRUE, FALSE}, or {TRUE} where
               \* the system never runs out of threads

ASSUME MaxCallsAssumption == MaxCalls \in Nat \ {0}
ASSUME NumServersAssumption == NumServers \in Nat \ {0}
ASSUME TriesAssumption == Tries \in Nat \ {0}
ASSUME MaxIpAssumption == MaxIp \in Nat \ {0}
ASSUME CreatedAssumption == Created \subseteq BOOLEAN

Calls == 1..MaxCalls
Servers == 1..NumServers
Threads == Calls \X Servers     \* thread <<c, i>> is dnsserver<i> of call c
CallOf(t) == t[1]
IndexOf(t) == t[2]

\* A slot of a list by what was last written to it, in which call and by which
\* thread (0: the caller's). "synth" is an IPv4 literal in the NAT64 prefix of
\* the address that was there, "api" the answer of the system's resolver,
\* "torn" the bytes of more than one address.
Address == [kind : {"none", "dns", "synth", "api", "torn"},
            call : 0..MaxCalls, by : 0..NumServers]
NoAddress == [kind |-> "none", call |-> 0, by |-> 0]

MainPcs == {"idle", "init", "create", "poll", "count", "trim", "embed", "api"}
ThreadPcs == {"none", "start", "append", "dot", "send", "wait", "lock", "copy",
              "bump", "fail", "won", "lost"}

VARIABLES
  mpc, call, created,          \* the caller: where it is, in which call, threads tried
  kind, buf,                   \* of each call: what the host is, _ipinfo
  re, ret,                     \* of each call: what th_gethostbyname and
                               \* getaddrinfo_v6 returned
  server,                      \* of each call's struct multi_dns: _dnsserver
  dead,                        \* the process has crashed
  dots,                        \* of each call's host buffer: dots appended to the name
  locked, failcount, serverNum,\* dnsquery_mutex, dnsquery_failcount, DNS64SERVERNUM
  v6_addr, size,               \* of each socket_ipinfo_t
  pc,                          \* of each thread: where it is,
  data,                        \*   the call whose request it has read,
  asked,                       \*   the server it sends to (0: it is not sending),
  try,                         \*   failed tries of the send loop,
  left,                        \*   AAAA answers it has still to store,
  seen                         \*   what it read of dots or size before it writes it

mainVars == <<mpc, call, created, kind, buf, re, ret, dead>>
globals == <<locked, failcount, serverNum>>
lists == <<v6_addr, size>>
threadVars == <<pc, data, asked, try, left, seen>>
vars == <<mainVars, server, dots, globals, lists, threadVars>>

MainOK ==
  /\ mpc \in MainPcs
  /\ call \in 0..MaxCalls
  /\ created \in 0..NumServers
  /\ kind \in [Calls -> {"name", "ipv4"}]
  /\ buf \in [Calls -> Bufs]
  /\ re \in [Calls -> {"none", "0", "-1"}]
  /\ ret \in [Calls -> {"none", "0", "-1"}]
  /\ dead \in BOOLEAN

SharedOK ==
  /\ server \in [Calls -> Servers]
  /\ dots \in [Calls -> Nat]
  /\ locked \in BOOLEAN
  /\ failcount \in Nat
  /\ serverNum \in Int

ListsOK ==
  /\ v6_addr \in [Bufs -> [0..MaxIp-1 -> Address]]
  /\ size \in [Bufs -> Nat]

ThreadsOK ==
  /\ pc \in [Threads -> ThreadPcs]
  /\ data \in [Threads -> Calls]
  /\ asked \in [Threads -> 0..NumServers]
  /\ try \in [Threads -> 0..Tries-1]
  /\ left \in [Threads -> 0..MaxIp]
  /\ seen \in [Threads -> Nat]

TypeOK == MainOK /\ SharedOK /\ ListsOK /\ ThreadsOK

Init ==
  /\ mpc = "idle" /\ call = 0 /\ created = 0
  /\ kind = [c \in Calls |-> "name"]
  /\ buf \in [Calls -> Bufs]
  /\ re = [c \in Calls |-> "none"]
  /\ ret = [c \in Calls |-> "none"]
  /\ dead = FALSE
  /\ server = [c \in Calls |-> 1]
  /\ dots = [c \in Calls |-> 0]
  /\ locked = FALSE /\ failcount = 0 /\ serverNum = NumServers
  /\ v6_addr = [b \in Bufs |-> [i \in 0..MaxIp-1 |-> NoAddress]]
  /\ size = [b \in Bufs |-> 0]
  /\ pc = [t \in Threads |-> "none"]
  /\ data = [t \in Threads |-> CallOf(t)]
  /\ asked = [t \in Threads |-> 0]
  /\ try = [t \in Threads |-> 0]
  /\ left = [t \in Threads |-> 0]
  /\ seen = [t \in Threads |-> 0]

MyBuf == buf[call]

\* v6_addr[i] = a. A write past the array is not followed any further.
Put(b, i, a) == v6_addr' = [v6_addr EXCEPT ![b][i] = a]

Goto(t, p) == pc' = [pc EXCEPT ![t] = p]

Return(r) ==
  /\ mpc' = "idle"
  /\ ret' = [ret EXCEPT ![call] = r]

\* th_gethostbyname frees its request and returns; the host buffer is on the
\* stack of getaddrinfo_v6 and lasts until that returns.
Freed(c) == re[c] # "none"
Returned(c) == ret[c] # "none"
-----------------------------------------------------------------------------
(* The caller's thread. *)

\* getaddrinfo_v6, until it calls th_gethostbyname: the list is emptied and
\* the host is found to be a name or an IPv4 literal. (A call with a NULL host or
\* list returns -1 at once and touches nothing: 366-375.)
EnterCall(k) ==
  /\ ~dead /\ mpc = "idle" /\ call < MaxCalls
  /\ call' = call + 1
  /\ kind' = [kind EXCEPT ![call + 1] = k]
  /\ size' = [size EXCEPT ![buf[call + 1]] = 0]
  /\ mpc' = "init"
  /\ UNCHANGED <<created, buf, re, ret, dead, server, dots, globals, v6_addr, threadVars>>

\* malloc of the request and pthread_mutex_init, which frees a mutex that is
\* held. dnsquery_failcount and DNS64SERVERNUM keep their values.
InitRequest ==
  /\ mpc = "init"
  /\ locked' = FALSE
  /\ created' = 0
  /\ mpc' = "create"
  /\ UNCHANGED <<call, kind, buf, re, ret, dead, server, dots, failcount,
                 serverNum, lists, threadVars>>

\* Variant: a thread that could not be created still counts as a server.
CreateThreadUncounted(ok) ==
  /\ mpc = "create" /\ created < NumServers
  /\ created' = created + 1
  /\ server' = [server EXCEPT ![call] = created + 1]
  /\ IF ok THEN Goto(<<call, created + 1>>, "start") ELSE UNCHANGED pc
  /\ mpc' = IF created + 1 = NumServers THEN "poll" ELSE "create"
  /\ UNCHANGED <<call, kind, buf, re, ret, dead, dots, globals, lists,
                 data, asked, try, left, seen>>

\* Variant: after a thread is created the request names the server after its own.
CreateThreadNextServer(ok) ==
  /\ mpc = "create" /\ created < NumServers
  /\ created' = created + 1
  /\ server' = [server EXCEPT ![call] = created + 2]
  /\ IF ok THEN Goto(<<call, created + 1>>, "start") ELSE UNCHANGED pc
  /\ serverNum' = IF ok THEN serverNum ELSE serverNum - 1
  /\ mpc' = IF created + 1 = NumServers THEN "poll" ELSE "create"
  /\ UNCHANGED <<call, kind, buf, re, ret, dead, dots, locked, failcount, lists,
                 data, asked, try, left, seen>>

\* Variant: _dnsserver is set after the thread is created, who may find the last one.
CreateThreadBeforeServer(ok) ==
  /\ mpc = "create" /\ created < NumServers
  /\ created' = created + 1
  /\ server' = [server EXCEPT ![call] = IF created = 0 THEN @ ELSE created]
  /\ IF ok THEN Goto(<<call, created + 1>>, "start") ELSE UNCHANGED pc
  /\ serverNum' = IF ok THEN serverNum ELSE serverNum - 1
  /\ mpc' = IF created + 1 = NumServers THEN "poll" ELSE "create"
  /\ UNCHANGED <<call, kind, buf, re, ret, dead, dots, locked, failcount, lists,
                 data, asked, try, left, seen>>

\* _dnsserver is set in the one request all threads share, then the thread is
\* created, or pthread_create fails.
CreateThread(ok) ==
  /\ mpc = "create" /\ created < NumServers
  /\ created' = created + 1
  /\ server' = [server EXCEPT ![call] = created + 1]
  /\ IF ok
     THEN /\ Goto(<<call, created + 1>>, "start")
          /\ UNCHANGED serverNum
     ELSE /\ serverNum' = serverNum - 1
          /\ UNCHANGED pc
  /\ mpc' = IF created + 1 = NumServers THEN "poll" ELSE "create"
  /\ UNCHANGED <<call, kind, buf, re, ret, dead, dots, locked, failcount, lists,
                 data, asked, try, left, seen>>

\* if(_ipinfo->size>0) { free(data); return 0; } and what getaddrinfo_v6 then
\* does first: a name is done, an IPv4 literal goes on with the list's head.
PollSize ==
  /\ mpc = "poll"
  /\ IF size[MyBuf] > 0
     THEN /\ re' = [re EXCEPT ![call] = "0"]
          /\ IF kind[call] = "ipv4"
             THEN mpc' = "trim" /\ UNCHANGED ret
             ELSE Return("0")
     ELSE /\ mpc' = "count"
          /\ UNCHANGED <<re, ret>>
  /\ UNCHANGED <<call, created, kind, buf, dead, server, dots, globals, lists, threadVars>>

\* Variant: the caller gives up at the first failure.
PollCountAnyFailure ==
  /\ mpc = "count"
  /\ IF failcount > 0 \/ serverNum = 0
     THEN /\ re' = [re EXCEPT ![call] = "-1"]
          /\ IF kind[call] = "ipv4"
             THEN Return("-1")
             ELSE mpc' = "api" /\ UNCHANGED ret
     ELSE /\ mpc' = "poll"
          /\ UNCHANGED <<re, ret>>
  /\ UNCHANGED <<call, created, kind, buf, dead, server, dots, globals, lists, threadVars>>

\* if(dnsquery_failcount==DNS64SERVERNUM) { free(data); return -1; } and then
\* a name falls back on the system's resolver.
PollCount ==
  /\ mpc = "count"
  /\ IF failcount = serverNum
     THEN /\ re' = [re EXCEPT ![call] = "-1"]
          /\ IF kind[call] = "ipv4"
             THEN Return("-1")
             ELSE mpc' = "api" /\ UNCHANGED ret
     ELSE /\ mpc' = "poll"
          /\ UNCHANGED <<re, ret>>
  /\ UNCHANGED <<call, created, kind, buf, dead, server, dots, globals, lists, threadVars>>

\* _ipinfo->size=1
TrimList ==
  /\ mpc = "trim"
  /\ size' = [size EXCEPT ![MyBuf] = 1]
  /\ mpc' = "embed"
  /\ UNCHANGED <<call, created, kind, buf, re, ret, dead, server, dots, globals,
                 v6_addr, threadVars>>

\* ReplaceNat64WithV4IP on the first address; IsNat64AddrValid is always true.
EmbedIpv4 ==
  /\ mpc = "embed"
  /\ Put(MyBuf, 0, [kind |-> "synth", call |-> call, by |-> 0])
  /\ Return("0")
  /\ UNCHANGED <<call, created, kind, buf, re, dead, server, dots, globals, size,
                 threadVars>>

\* getaddrinfo refuses a name with an empty label, so one with more than one
\* dot at its end.
UsableName(c) == dots[c] <= 1

\* getaddrinfo_api
SystemLookup(found) ==
  /\ mpc = "api"
  /\ IF found /\ UsableName(call)
     THEN /\ Put(MyBuf, size[MyBuf], [kind |-> "api", call |-> call, by |-> 0])
          /\ size' = [size EXCEPT ![MyBuf] = @ + 1]
          /\ Return("0")
     ELSE /\ Return("-1")
          /\ UNCHANGED lists
  /\ UNCHANGED <<call, created, kind, buf, re, dead, server, dots, globals, threadVars>>

Main ==
  /\ ~dead
  /\ \/ InitRequest
     \/ \E ok \in Created : CreateThread(ok)
     \/ PollSize \/ PollCount \/ TrimList \/ EmbedIpv4
     \/ \E found \in BOOLEAN : SystemLookup(found)
-----------------------------------------------------------------------------
(* Thread t of its call: th_socket_gethostbyname. *)

At(t, p) == ~dead /\ pc[t] = p

\* Whose request, or host buffer, t may find where call c's was: c's own, and once
\* that is gone one of a later call, which malloc or the stack has put in its place.
Later(c) == {d \in Calls : c < d /\ d <= call /\ ~(d = call /\ mpc = "init")}
Requests(t) == {CallOf(t)} \cup (IF Freed(CallOf(t)) THEN Later(CallOf(t)) ELSE {})
Hosts(t) == {data[t]} \cup (IF Returned(data[t]) THEN Later(data[t]) ELSE {})

\* Variant: the thread empties the list it is going to fill, as the function of
\* the same name in dns64_query_c/dnsquery.c does.
ReadRequestEmptiesList(t, opened) ==
  /\ At(t, "start")
  /\ \E c \in Requests(t) :
       /\ data' = [data EXCEPT ![t] = c]
       /\ asked' = [asked EXCEPT ![t] = IF opened THEN server[c] ELSE 0]
       /\ size' = [size EXCEPT ![buf[c]] = 0]
  /\ Goto(t, IF opened THEN "append" ELSE "fail")
  /\ UNCHANGED <<mainVars, server, dots, globals, v6_addr, try, left, seen>>

\* The thread reads the fields of the shared request and opens its socket. From
\* here on it works for the call whose request it has found.
ReadRequest(t, opened) ==
  /\ At(t, "start")
  /\ \E c \in Requests(t) :
       /\ data' = [data EXCEPT ![t] = c]
       /\ asked' = [asked EXCEPT ![t] = IF opened THEN server[c] ELSE 0]
  /\ Goto(t, IF opened THEN "append" ELSE "fail")
  /\ UNCHANGED <<mainVars, server, dots, globals, lists, try, left, seen>>

\* strncat of "." to the host name all threads share, first half: find the end.
FindEnd(t) ==
  /\ At(t, "append")
  /\ \E c \in Hosts(t) : seen' = [seen EXCEPT ![t] = dots[c]]
  /\ Goto(t, "dot")
  /\ UNCHANGED <<mainVars, server, dots, globals, lists, data, asked, try, left>>

\* Second half: write "." and the end of the string there. The rest of
\* PrepareDnsQueryPacket gives the same query whatever dots follow the name. (That
\* the end found in one name may lie inside another one is left out.)
WriteDot(t) ==
  /\ At(t, "dot")
  /\ \E c \in Hosts(t) : dots' = [dots EXCEPT ![c] = seen[t] + 1]
  /\ seen' = [seen EXCEPT ![t] = 0]
  /\ Goto(t, "send")
  /\ UNCHANGED <<mainVars, server, globals, lists, data, asked, try, left>>

\* t uses memory that is gone, the freed request or the dead host buffer, and
\* that ends the process. When it finds the old bytes, or those of a later call's
\* request or buffer, the actions ReadRequest, FindEnd and WriteDot are what it does.
UseAfterFree(t) ==
  /\ \/ At(t, "start") /\ Freed(CallOf(t))
     \/ At(t, "append") /\ Returned(data[t])
     \/ At(t, "dot") /\ Returned(data[t])
  /\ dead' = TRUE
  /\ UNCHANGED <<mpc, call, created, kind, buf, re, ret, server, dots, globals, lists,
                 threadVars>>

\* The send loop ends with n AAAA answers to store.
LeaveLoop(t, n) ==
  /\ left' = [left EXCEPT ![t] = n]
  /\ asked' = [asked EXCEPT ![t] = 0]
  /\ try' = [try EXCEPT ![t] = 0]
  /\ Goto(t, "lock")

\* sendto fails: the loop ends with an empty recv_buf, which has no answers.
SendFails(t) ==
  /\ At(t, "send")
  /\ LeaveLoop(t, 0)
  /\ UNCHANGED <<mainVars, server, dots, globals, lists, data, seen>>

Send(t) ==
  /\ At(t, "send")
  /\ Goto(t, "wait")
  /\ UNCHANGED <<mainVars, server, dots, globals, lists, data, asked, try, left, seen>>

\* RecvWithinTime has a packet; ReadRecvAnswer finds n AAAA records in it.
Receive(t, n) ==
  /\ At(t, "wait")
  /\ LeaveLoop(t, n)
  /\ UNCHANGED <<mainVars, server, dots, globals, lists, data, seen>>

\* Variant: every try that times out is counted as a failure.
TimeoutCounted(t) ==
  /\ At(t, "wait")
  /\ failcount' = failcount + 1
  /\ IF try[t] + 1 < Tries
     THEN /\ try' = [try EXCEPT ![t] = @ + 1]
          /\ Goto(t, "send")
          /\ UNCHANGED <<asked, left>>
     ELSE LeaveLoop(t, 0)
  /\ UNCHANGED <<mainVars, server, dots, locked, serverNum, lists, data, seen>>

\* RecvWithinTime fails or times out; after the last try there are no answers.
Timeout(t) ==
  /\ At(t, "wait")
  /\ IF try[t] + 1 < Tries
     THEN /\ try' = [try EXCEPT ![t] = @ + 1]
          /\ Goto(t, "send")
          /\ UNCHANGED <<asked, left>>
     ELSE LeaveLoop(t, 0)
  /\ UNCHANGED <<mainVars, server, dots, globals, lists, data, seen>>

\* pthread_mutex_lock(&dnsquery_mutex)
Lock(t) ==
  /\ At(t, "lock") /\ ~locked
  /\ locked' = TRUE
  /\ Goto(t, "copy")
  /\ UNCHANGED <<mainVars, server, dots, failcount, serverNum, lists, data, asked,
                 try, left, seen>>

\* _ipinfo->v6_addr[_ipinfo->size] = the next AAAA answer
CopyAddress(t) ==
  LET b == buf[data[t]] IN
  /\ At(t, "copy") /\ left[t] > 0
  /\ Put(b, size[b], [kind |-> "dns", call |-> data[t], by |-> IndexOf(t)])
  /\ seen' = [seen EXCEPT ![t] = size[b]]
  /\ left' = [left EXCEPT ![t] = @ - 1]
  /\ Goto(t, "bump")
  /\ UNCHANGED <<mainVars, server, dots, globals, size, data, asked, try>>

Torn(t) == [kind |-> "torn", call |-> data[t], by |-> IndexOf(t)]

\* Another thread is copying to t's list.
Rival(t) ==
  \E u \in Threads : u # t /\ pc[u] = "bump" /\ buf[data[u]] = buf[data[t]]

\* _ipinfo->size++, not atomic: it reads the value CopyAddress saw or, if size
\* was written meanwhile, the new one. CopyAddress reads size again for each
\* byte, so the new value may also have sent the last bytes to another slot.
BumpSize(t) ==
  LET b == buf[data[t]] IN
  /\ At(t, "bump")
  /\ \E s \in {seen[t], size[b]} :
        /\ size' = [size EXCEPT ![b] = s + 1]
        /\ \/ UNCHANGED v6_addr
           \/ s # seen[t] /\ Put(b, s, Torn(t))
           \/ Rival(t) /\ Put(b, seen[t], Torn(t))
  /\ seen' = [seen EXCEPT ![t] = 0]
  /\ Goto(t, "copy")
  /\ UNCHANGED <<mainVars, server, dots, globals, data, asked, try, left>>

\* Variant: the mutex is released when the thread succeeds, too.
CheckSizeUnlocks(t) ==
  /\ At(t, "copy") /\ left[t] = 0
  /\ locked' = FALSE
  /\ Goto(t, IF size[buf[data[t]]] = 0 THEN "fail" ELSE "won")
  /\ UNCHANGED <<mainVars, server, dots, failcount, serverNum, lists, data, asked,
                 try, left, seen>>

\* Variant: the mutex is not released when the thread fails either.
CheckSizeKeepsLock(t) ==
  /\ At(t, "copy") /\ left[t] = 0
  /\ Goto(t, IF size[buf[data[t]]] = 0 THEN "fail" ELSE "won")
  /\ UNCHANGED <<mainVars, server, dots, globals, lists, data, asked, try, left, seen>>

\* if (0 >= _ipinfo->size) unlock and fail; otherwise succeed, and the mutex
\* stays locked.
CheckSize(t) ==
  /\ At(t, "copy") /\ left[t] = 0
  /\ IF size[buf[data[t]]] = 0
     THEN locked' = FALSE /\ Goto(t, "fail")
     ELSE Goto(t, "won") /\ UNCHANGED locked
  /\ UNCHANGED <<mainVars, server, dots, failcount, serverNum, lists, data, asked,
                 try, left, seen>>

\* dnsquery_failcount++ under dnsquery_mutex1
CountFailure(t) ==
  /\ At(t, "fail")
  /\ failcount' = failcount + 1
  /\ Goto(t, "lost")
  /\ UNCHANGED <<mainVars, server, dots, locked, serverNum, lists, data, asked,
                 try, left, seen>>

Thread(t) ==
  \/ \E opened \in BOOLEAN : ReadRequest(t, opened)
  \/ FindEnd(t) \/ WriteDot(t) \/ UseAfterFree(t)
  \/ SendFails(t) \/ Send(t) \/ Timeout(t)
  \/ \E n \in 0..MaxIp : Receive(t, n)
  \/ Lock(t) \/ CopyAddress(t) \/ BumpSize(t) \/ CheckSize(t) \/ CountFailure(t)

Next ==
  \/ \E k \in {"name", "ipv4"} : EnterCall(k)
  \/ Main
  \/ \E t \in Threads : Thread(t)

Spec == Init /\ [][Next]_vars

\* The system schedules every thread; a thread's waits end because select has
\* a timeout. Nothing makes the caller call.
Fairness == WF_vars(Main) /\ \A t \in Threads : WF_vars(Thread(t))
FairSpec == Spec /\ Fairness
-----------------------------------------------------------------------------
(* What a lookup must do. *)

ThreadsOf(c) == {t \in Threads : CallOf(t) = c}
Listed(b) == {i \in 0..MaxIp-1 : i < size[b]}

\* th_gethostbyname (331-351) says -1 only when every thread it started has
\* failed: none may still find an answer, and none may still use the request
\* and the host buffer the caller is about to take away.
FailureMeansAllFailed ==
  \A c \in Calls : re[c] = "-1" => \A t \in ThreadsOf(c) : pc[t] \in {"none", "lost"}

\* Late threads (start, append, dot) may crash the process on the freed request
\* or the dead host buffer (338, 347, 377), but only after another thread has
\* put an address in the list of the same call.
DeathOnlyAfterAnswer ==
  dead => \E t \in Threads :
            /\ pc[t] \in {"copy", "bump", "won"}
            /\ size[buf[data[t]]] > 0

\* The size the caller polls without a lock (334) never exceeds the array nor
\* counts a slot nobody has written, also while a thread is still appending and
\* the caller sets it back to 1 (391).
SizeCountsWrittenSlots ==
  \A b \in Bufs :
    /\ size[b] <= MaxIp
    /\ \A i \in Listed(b) : v6_addr[b][i].kind # "none"

\* "the thread that gets the list first": the addresses the threads put in a
\* list (484-494) are those of one thread, never of two.
ListFromOneThread ==
  \A b \in Bufs : \A i, j \in Listed(b) :
    v6_addr[b][i].by # 0 /\ v6_addr[b][j].by # 0 => v6_addr[b][i].by = v6_addr[b][j].by

\* The threads are given their servers in one structure, which is overwritten for the
\* next of them (318). A thread that is late asks the server of a later thread, never
\* that of an earlier one: the last server, at least, is asked by its own thread.
\* So it is as long as the thread finds the request it was made for: once that is
\* freed (338, 347) the memory may hold the next call's (305), with any server in it.
AsksOwnOrLater ==
  \A t \in Threads : asked[t] # 0 /\ data[t] = CallOf(t) => asked[t] >= IndexOf(t)

\* Once getaddrinfo_v6 has returned 0 for a name, what it listed stays: threads
\* that are still running only add to the list.
StableAnswer ==
  [][\A c \in Calls : ret[c] = "0" /\ kind[c] = "name" =>
       LET b == buf[c] IN
       /\ size'[b] >= size[b]
       /\ \A i \in Listed(b) : v6_addr'[b][i] = v6_addr[b][i]]_vars

\* Every call returns (unless a thread has crashed the process): whatever the
\* servers do, either a thread stores an answer or all are counted as failed.
CallReturns == \A c \in Calls : (call = c) ~> (Returned(c) \/ dead)

\* An answer with an address in it that reaches a thread makes th_gethostbyname
\* succeed, though the threads that fail take the same mutex before and after.
AnswerWins ==
  \A c \in Calls :
    (\E t \in Threads : data[t] = c /\ pc[t] = "lock" /\ left[t] > 0) ~> (re[c] = "0")

\* What a thread's query has come to in the terms of ResolverPromise.
Verdict(t) ==
  CASE pc[t] = "none" -> "idle"
    [] pc[t] = "lost" -> "lost"
    [] pc[t] \in {"copy", "bump", "won"} /\ size[buf[data[t]]] > 0 -> "won"
    [] OTHER -> "asking"

Outcome(c) ==
  IF call < c THEN "idle"
  ELSE CASE re[c] = "none" -> "pending"
         [] re[c] = "0" -> "ok"
         [] re[c] = "-1" -> "failed"

verdicts == [t \in Threads |-> Verdict(t)]

\* The first call keeps the promise of ResolverPromise.
Promise == INSTANCE ResolverPromise
             WITH Workers <- Threads, verdict <- verdicts, outcome <- Outcome(1)
RefinesPromise == Promise!Spec
-----------------------------------------------------------------------------
(* Why AsksOwnOrLater holds, whatever calls follow: the threads of a call    *)
(* are made in the order of their servers, and before the next call begins.  *)

MadeInOrder ==
  /\ \A t \in Threads : pc[t] # "none" => IndexOf(t) <= server[CallOf(t)]
  /\ \A t \in Threads :
       CallOf(t) > call \/ (CallOf(t) = call /\ mpc = "init") => pc[t] = "none"
  /\ \A t \in Threads :
       CallOf(t) = call /\ mpc = "create" /\ pc[t] # "none" => IndexOf(t) <= created

OrderInv == MadeInOrder /\ AsksOwnOrLater
-----------------------------------------------------------------------------
(* Why one call is right: an inductive invariant for MaxCalls = 1. It rests  *)
(* on the mutex that line 503 does not unlock: the first thread to store an  *)
(* address keeps every other thread from the list for ever.                  *)

Started == {t \in Threads : pc[t] # "none"}
Failed == {t \in Threads : pc[t] = "lost"}
Holders == {t \in Threads : pc[t] \in {"copy", "bump", "won"}}

\* Where the caller is tells what it has returned and which threads it has made.
CallerInv ==
  /\ mpc = "idle" <=> (call = 0 \/ ret[1] # "none")
  /\ mpc \in {"init", "create", "poll", "count"} => re[1] = "none"
  /\ mpc \in {"trim", "embed"} => re[1] = "0"
  /\ mpc = "api" => re[1] = "-1"
  /\ call = 0 => re[1] = "none" /\ ret[1] = "none"
  /\ ret[1] # "none" => re[1] # "none"
  /\ call = 0 \/ mpc = "init" => Started = {} /\ created = 0
  /\ mpc = "create" => created < NumServers
  /\ mpc \in {"poll", "count"} => created = NumServers
  /\ \A t \in Started : IndexOf(t) <= created

\* The two counters the caller compares, in terms of its threads.
CountInv ==
  /\ failcount = Cardinality(Failed)
  /\ serverNum = NumServers - created + Cardinality(Started)

\* One thread at most is past the lock, and it is there as long as the list
\* has addresses.
AnswerInv ==
  /\ locked <=> Holders # {}
  /\ \A t, u \in Holders : t = u
  /\ re[1] = "0" => size[buf[1]] > 0
  /\ re[1] = "-1" => Started = Failed
  /\ size[buf[1]] > 0 => Holders # {} \/ re[1] = "-1"
  /\ mpc = "api" => size[buf[1]] = 0
  /\ \A t \in Threads : pc[t] = "won" => size[buf[1]] > 0
  /\ dead => re[1] = "0"

\* size, what is written below it, and what the holder may still add.
ListInv ==
  LET b == buf[1] IN
  /\ \A c \in Bufs : c # b => size[c] = 0
  /\ size[b] <= MaxIp
  /\ \A i \in 0..MaxIp-1 : i < size[b] => v6_addr[b][i].kind # "none"
  /\ \A t \in Threads : pc[t] = "copy" => size[b] + left[t] <= MaxIp
  /\ \A t \in Threads : pc[t] = "bump" =>
       /\ size[b] <= seen[t] /\ seen[t] + 1 + left[t] <= MaxIp
       /\ seen[t] > 0 => size[b] > 0
       /\ \A i \in 0..MaxIp-1 : i <= seen[t] => v6_addr[b][i].kind # "none"

\* Who wrote the slots.
WriterInv ==
  \A i \in 0..MaxIp-1 : v6_addr[buf[1]][i].by # 0 =>
    \E t \in Holders : /\ IndexOf(t) = v6_addr[buf[1]][i].by
                       /\ pc[t] = "bump" \/ size[buf[1]] > 0

\* What holds all through a first call, of the caller's place, the counters, the
\* mutex, the list and its writers together (290-352, 363-408, 484-503).
OneCallInv == CallerInv /\ CountInv /\ AnswerInv /\ ListInv /\ WriterInv
=============================================================================
