------------------------------ MODULE NetFamily ------------------------------
(* checknetfamily, which dnsquery/dnsquery.cc and the mars utility share: a  *)
(* UDP socket is connected to a server of each family to see which of them   *)
(* the network has. The sockets are not closed. The machine may move to      *)
(* another network at any time, so the two tests may see different ones.     *)
EXTENDS Naturals

CONSTANT MaxFds  \* the descriptors the process may open

ASSUME MaxFdsAssumption == MaxFds \in Nat

Families == {"IPv4", "IPv6"}

VARIABLES
  net,          \* the families of the network the machine is in
  steady,       \* the machine has not moved since the call began (history)
  fds,          \* open descriptors
  test,         \* where checknetfamily is: the test to do next, or "off"
  have_ipv4, have_ipv6,
  net_family    \* static

familyVars == <<net, steady, fds, test, have_ipv4, have_ipv6, net_family>>

FamilyTypeOK ==
  /\ net \subseteq Families /\ steady \in BOOLEAN
  /\ fds \in 0..MaxFds
  /\ test \in {"off", "IPv4", "IPv6", "set"}
  /\ have_ipv4 \in BOOLEAN /\ have_ipv6 \in BOOLEAN
  /\ net_family \in {"None", "IPv4", "IPv6", "Dual"}

FamilyInit ==
  /\ net \in SUBSET Families /\ steady = TRUE
  /\ fds = 0
  /\ test = "off" /\ have_ipv4 = FALSE /\ have_ipv6 = FALSE
  /\ net_family = "None"
-----------------------------------------------------------------------------
BeginCheck ==
  /\ net_family' = "None"
  /\ test' = "IPv4"

\* socket() of a test: it is not closed.
TestSocket == fds < MaxFds /\ fds' = fds + 1

\* socket() fails: there is no descriptor left, or the system has none for the
\* process, no buffers, or not this family.
SocketFails == UNCHANGED fds

\* The connect() of a test finds whether there is a route; 0, too, where there is no
\* socket.
_have_ipv4 ==
  /\ test = "IPv4"
  /\ \/ TestSocket /\ have_ipv4' = ("IPv4" \in net)
     \/ SocketFails /\ have_ipv4' = FALSE
  /\ test' = "IPv6"
  /\ UNCHANGED <<net, steady, have_ipv6, net_family>>

_have_ipv6 ==
  /\ test = "IPv6"
  /\ \/ TestSocket /\ have_ipv6' = ("IPv6" \in net)
     \/ SocketFails /\ have_ipv6' = FALSE
  /\ test' = "set"
  /\ UNCHANGED <<net, steady, have_ipv4, net_family>>

SetFamily ==
  /\ test = "set"
  /\ net_family' = CASE have_ipv4 /\ have_ipv6 -> "Dual"
                     [] ~ have_ipv4 /\ have_ipv6 -> "IPv6"
                     [] have_ipv4 /\ ~ have_ipv6 -> "IPv4"
                     [] OTHER -> net_family
  /\ test' = "off"
  /\ UNCHANGED <<net, steady, fds, have_ipv4, have_ipv6>>

checknetfamily == _have_ipv4 \/ _have_ipv6 \/ SetFamily

\* The machine moves to another network.
Roam ==
  /\ \E n \in SUBSET Families : n # net /\ net' = n
  /\ steady' = FALSE
  /\ UNCHANGED <<fds, test, have_ipv4, have_ipv6, net_family>>
=============================================================================
