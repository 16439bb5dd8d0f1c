--------------------------- MODULE Nat64PrefixUtil ---------------------------
(* nat64_prefix_util.cc, the utility of mars as it was changed for a test:   *)
(* the NAT64 prefix of the network is taken from the system resolver's       *)
(* answer for ipv4only.arpa, and an IPv4 address is put into it by way of    *)
(* the answer for tv6.ustc.edu.cn. dananet_family, which the source does not *)
(* declare and the program built from it (test) has, is net_family.          *)
EXTENDS NetFamily, Nat64Address, Sequences

CONSTANTS
  MaxCalls,   \* how many calls are made (a bound)
  MaxAnswers, \* how many addresses an answer has (a bound)
  Nat64Nets,  \* the networks with a NAT64: its prefix and the prefix's length
  Plain,      \* a network without one
  Hosts,      \* the IPv4 addresses to convert
  Tv6,        \* the IPv4 address of tv6.ustc.edu.cn
  Native,     \* IPv6 addresses it may have of its own
  Never       \* a string that was not written

ASSUME MaxCallsAssumption == MaxCalls \in Nat
ASSUME MaxAnswersAssumption == MaxAnswers \in Nat \ {0}
ASSUME NetsAssumption == Nat64Nets \subseteq [prefix : Ipv6, length : PrefixLengths]
ASSUME PlainAssumption == Plain \notin Nat64Nets
ASSUME HostsAssumption == Hosts \subseteq Ipv4
ASSUME Tv6Assumption == Tv6 \in Ipv4 /\ Tv6[3] # 0
ASSUME NativeAssumption == Native \subseteq Ipv6
ASSUME NeverAssumption == Never \notin Ipv6

VARIABLES
  nat64,     \* the NAT64 of the network the machine is in
  native,    \* tv6.ustc.edu.cn has IPv6 addresses of its own
  pc, call,
  op, form,  \* the function called, and its form: with a string or an in6_addr
  v4,
  v6, text,  \* the in6_addr written, the string written (as the address it spells)
  old,       \* both as the call found them
  res,       \* what is left of the list getaddrinfo gave
  ret

utilVars == <<nat64, native, pc, call, op, form, v4, v6, text, old, res, ret>>
vars == <<familyVars, utilVars>>

Zero == [o \in 0..15 |-> 0]

TypeOK ==
  /\ FamilyTypeOK
  /\ nat64 \in Nat64Nets \cup {Plain} /\ native \in BOOLEAN
  /\ pc \in {"idle", "check", "ask", "loop"} /\ call \in 0..MaxCalls
  /\ op \in {"Convert", "GetPrefix"} /\ form \in {"string", "in6"}
  /\ v4 \in Hosts
  /\ v6 \in Ipv6 /\ text \in Ipv6 \cup {Never}
  /\ old \in Ipv6 \X (Ipv6 \cup {Never})
  /\ res \in Seq(Ipv6)
  /\ ret \in {"none", "true", "false"}

Init ==
  /\ FamilyInit
  /\ nat64 \in Nat64Nets \cup {Plain} /\ native \in BOOLEAN
  /\ pc = "idle" /\ call = 0
  /\ op = "Convert" /\ form = "in6" /\ v4 \in Hosts
  /\ v6 = Zero /\ text = Never /\ old = <<Zero, Never>>
  /\ res = <<>> /\ ret = "none"

Return(value) ==
  /\ pc' = "idle"
  /\ ret' = value

\* The forms with a string write it from a struct of their own.
Succeed(address) ==
  /\ v6' = address
  /\ text' = IF form = "string" THEN address ELSE text
  /\ Return("true")
-----------------------------------------------------------------------------
EnterCall(o, f, a) ==
  /\ pc = "idle" /\ call < MaxCalls
  /\ call' = call + 1
  /\ op' = o /\ form' = f /\ v4' = a
  /\ v6' = IF f = "string" THEN Zero ELSE v6
  /\ old' = <<v6', text>>
  /\ ret' = "none"
  /\ pc' = "check"
  /\ steady' = TRUE
  /\ BeginCheck
  /\ UNCHANGED <<net, fds, have_ipv4, have_ipv6, nat64, native, text, res>>

\* The string is no IPv4 address.
EnterIllegal ==
  /\ pc = "idle" /\ call < MaxCalls
  /\ call' = call + 1
  /\ op' = "Convert" /\ form' = "string"
  /\ old' = <<v6, text>>
  /\ ret' = "false"
  /\ UNCHANGED <<familyVars, nat64, native, pc, v4, v6, text, res>>

Check ==
  /\ pc = "check" /\ checknetfamily
  /\ UNCHANGED utilVars

Wanted == IF op = "Convert" THEN {"IPv6", "Dual"} ELSE {"IPv6"}

Decide ==
  /\ pc = "check" /\ test = "off"
  /\ IF net_family \in Wanted
     THEN pc' = "ask" /\ UNCHANGED ret
     ELSE Return("false")
  /\ UNCHANGED <<familyVars, nat64, native, call, op, form, v4, v6, text, old, res>>

\* What an address of the name asked for may be: the A records of a name without
\* AAAA records are in the prefix of the network's NAT64.
Answers ==
  IF op = "Convert" /\ native THEN Native
  ELSE IF nat64 = Plain THEN {}
  ELSE {ipv4toipv6(nat64.prefix, nat64.length, a) :
          a \in IF op = "Convert" THEN {Tv6} ELSE WellKnown}

\* With PF_INET6 in its hints getaddrinfo gives IPv6 addresses only.
getaddrinfo ==
  /\ pc = "ask"
  /\ \/ /\ \E k \in 1..MaxAnswers : res' \in [1..k -> Answers]
        /\ pc' = "loop" /\ UNCHANGED ret
     \/ res' = <<>> /\ Return("false")
  /\ UNCHANGED <<familyVars, nat64, native, call, op, form, v4, v6, text, old>>

\* IsNat64AddrValid returns is_valid here.
Valid(a) == HasWellKnown(a)

Replace(a, b) == ReplaceNat64WithV4IP(a, b)

\* Variant: the address is copied before it is looked at.
SkipCopied ==
  /\ pc = "loop" /\ op = "Convert" /\ res # <<>> /\ Valid(Head(res))
  /\ v6' = Head(res)
  /\ res' = Tail(res)
  /\ UNCHANGED <<familyVars, nat64, native, pc, call, op, form, v4, text, old, ret>>

\* An address that has a well-known address in it is passed over.
Skip ==
  /\ pc = "loop" /\ op = "Convert" /\ res # <<>> /\ Valid(Head(res))
  /\ res' = Tail(res)
  /\ UNCHANGED <<familyVars, nat64, native, pc, call, op, form, v4, v6, text, old, ret>>

Convert ==
  /\ pc = "loop" /\ op = "Convert" /\ res # <<>> /\ ~ Valid(Head(res))
  /\ Succeed(Replace(Head(res), v4))
  /\ UNCHANGED <<familyVars, nat64, native, call, op, form, v4, old, res>>

\* Variant: s6_addr32 is one of four.
CopyPrefixShort ==
  /\ pc = "loop" /\ op = "GetPrefix"
  /\ Succeed([o \in 0..15 |-> IF o < 4 THEN Head(res)[o] ELSE v6[o]])
  /\ UNCHANGED <<familyVars, nat64, native, call, op, form, v4, old, res>>

\* Twelve octets of the first address.
CopyPrefix ==
  /\ pc = "loop" /\ op = "GetPrefix"
  /\ Succeed([o \in 0..15 |-> IF o < 12 THEN Head(res)[o] ELSE v6[o]])
  /\ UNCHANGED <<familyVars, nat64, native, call, op, form, v4, old, res>>

EndOfList ==
  /\ pc = "loop" /\ res = <<>>
  /\ Return("false")
  /\ UNCHANGED <<familyVars, nat64, native, call, op, form, v4, v6, text, old, res>>

\* The machine moves to another network, with its own prefix or none.
Move ==
  /\ Roam
  /\ nat64' \in Nat64Nets \cup {Plain}
  /\ UNCHANGED <<native, pc, call, op, form, v4, v6, text, old, res, ret>>

Next ==
  \/ \E o \in {"Convert", "GetPrefix"}, f \in {"string", "in6"}, a \in Hosts : EnterCall(o, f, a)
  \/ EnterIllegal
  \/ Check \/ Decide \/ getaddrinfo
  \/ Skip \/ Convert \/ CopyPrefix \/ EndOfList
  \/ Move

Spec == Init /\ [][Next]_vars
-----------------------------------------------------------------------------
\* "If return false, _v6_addr will not change", nor the prefix in an in6_addr nor the
\* string with the address (nat64_prefix_util.h:47, 54, 60), also when addresses of the
\* list were looked at in vain. Of the string with the prefix :40 says something else:
\* that it is empty then (it is what it was).
FalseChangesNothing ==
  pc = "idle" /\ ret = "false" /\ (op = "Convert" \/ form = "in6") => <<v6, text>> = old

\* What was written, as the caller sees it.
Result == IF form = "string" THEN text ELSE v6

\* "12 Bytes contain the nat64 prefix" (:46), whatever its length, if the machine has
\* not moved meanwhile.
PrefixIsOfNetwork ==
  pc = "idle" /\ ret = "true" /\ op = "GetPrefix" /\ steady =>
    nat64 # Plain /\ \A o \in 0..nat64.length \div 8 - 1 : Result[o] = nat64.prefix[o]

\* "_v6_addr, which embeded _v4_addr with format RFC6052" (:59), in the prefix of this
\* network: so it is when tv6.ustc.edu.cn has no IPv6 address of its own, because an
\* address that is replaced is one that holds no well-known address (.cc:299).
ConvertedIsTranslated ==
  pc = "idle" /\ ret = "true" /\ op = "Convert" /\ steady /\ ~ native =>
    nat64 # Plain /\ Result = ipv4toipv6(nat64.prefix, nat64.length, v4)
=============================================================================
