------------------------------ MODULE Translator ------------------------------
(* The program of ipv6测试/rfc6052: it reads the length of the NAT64 prefix  *)
(* from setting.conf and puts the IPv4 address it is given into the prefix.  *)
(* A line of the file reaches load_config in pieces of up to 254 characters, *)
(* what one fgets returns.                                                   *)
EXTENDS Nat64Address, Sequences

CONSTANTS
  Prefix,    \* ipv6_addr, 2001:67c:27e4:15::
  Inputs,    \* the IPv4 addresses it may be given
  MaxPieces  \* how many pieces the file has (a bound)

ASSUME PrefixAssumption == Prefix \in Ipv6
ASSUME InputsAssumption == Inputs \subseteq Ipv4
ASSUME MaxPiecesAssumption == MaxPieces \in Nat

\* What load_config makes of a piece: a comment (or fewer than 3 characters), a
\* setting of ipv6_prefix, legal or not, or neither.
Illegal == 24
Piece ==
  {p \in [kind : {"comment", "setting", "other"}, value : PrefixLengths \cup {0, Illegal},
          full : BOOLEAN,   \* it has 254 characters
          ends : BOOLEAN] : \* the line ends with it
     p.kind # "setting" <=> p.value = 0}

VARIABLES
  pc,
  conf,        \* setting.conf
  next,        \* the piece fgets returns next
  ipv6_prefix, \* 0 before it is set
  v4, v6       \* pointer: the IPv6 address

vars == <<pc, conf, next, ipv6_prefix, v4, v6>>

\* Pieces as fgets cuts them: a line goes on after a full piece only, and the
\* last line ends with the file.
WellCut(file) ==
  \A i \in DOMAIN file :
    /\ ~file[i].ends => file[i].full
    /\ i = Len(file) => file[i].ends

Files == {file \in UNION {[1..n -> Piece] : n \in 0..MaxPieces} : WellCut(file)}

Init ==
  /\ pc = "open"
  /\ conf \in Files /\ next = 1
  /\ ipv6_prefix = 0
  /\ v4 \in Inputs
  /\ v6 = [i \in 0..15 |-> 0]

\* fopen. Without a file, fclose(NULL) ends the process.
OpenConfig(found) ==
  /\ pc = "open"
  /\ pc' = IF found THEN "read" ELSE "crash"
  /\ UNCHANGED <<conf, next, ipv6_prefix, v4, v6>>

\* The first piece from next on that is not full.
LineEnd == {i \in next..Len(conf) : ~conf[i].full /\ \A j \in next..i-1 : conf[j].full}

\* Variant: a long comment is read piece by piece.
SkipCommentPiece ==
  /\ pc = "read" /\ next <= Len(conf)
  /\ conf[next].kind = "comment"
  /\ next' = next + 1
  /\ UNCHANGED <<pc, conf, ipv6_prefix, v4, v6>>

\* A comment: the loop that skips it ends after a piece that is not full, or
\* load_config returns with the file.
SkipComment ==
  /\ pc = "read" /\ next <= Len(conf)
  /\ conf[next].kind = "comment"
  /\ \/ \E i \in LineEnd : next' = i + 1 /\ UNCHANGED pc
     \/ LineEnd = {} /\ pc' = "input" /\ UNCHANGED next
  /\ UNCHANGED <<conf, ipv6_prefix, v4, v6>>

\* Any other line: the rest of a long one is dropped, and a legal setting in
\* its first piece is taken, unless the file ends before that.
ReadLine ==
  /\ pc = "read" /\ next <= Len(conf)
  /\ conf[next].kind # "comment"
  /\ \/ \E i \in LineEnd :
          /\ next' = i + 1
          /\ ipv6_prefix' = IF conf[next].value \in PrefixLengths
                            THEN conf[next].value ELSE ipv6_prefix
          /\ UNCHANGED pc
     \/ LineEnd = {} /\ pc' = "input" /\ UNCHANGED <<next, ipv6_prefix>>
  /\ UNCHANGED <<conf, v4, v6>>

EndOfFile ==
  /\ pc = "read" /\ next > Len(conf)
  /\ pc' = "input"
  /\ UNCHANGED <<conf, next, ipv6_prefix, v4, v6>>

\* scanf and inet_pton. What inet_pton refuses leaves ipv4ptr uninitialized.
ReadAddress(a) ==
  /\ pc = "input"
  /\ v4' = a
  /\ pc' = "translate"
  /\ UNCHANGED <<conf, next, ipv6_prefix, v6>>

Translate ==
  /\ pc = "translate"
  /\ IF ipv6_prefix \in PrefixLengths
     THEN /\ v6' = ipv4toipv6(Prefix, ipv6_prefix, v4)
          /\ pc' = "done"
     ELSE pc' = "exit" /\ UNCHANGED v6
  /\ UNCHANGED <<conf, next, ipv6_prefix, v4>>

Next ==
  \/ \E found \in BOOLEAN : OpenConfig(found)
  \/ SkipComment \/ ReadLine \/ EndOfFile
  \/ \E a \in Inputs : ReadAddress(a)
  \/ Translate

Spec == Init /\ [][Next]_vars
-----------------------------------------------------------------------------
(* What the program is for. *)

\* RFC 6052: the prefix, then the IPv4 address without a gap, except that octet
\* 8 is 0 and left out where the prefix has 64 bits or fewer; then zeros.
Rfc6052(prefix, length, a) ==
  LET n == length \div 8
      place(k) == IF n + k < 8 \/ length = 96 THEN n + k ELSE n + k + 1
  IN [i \in 0..15 |->
        IF \E k \in 0..3 : place(k) = i THEN a[CHOOSE k \in 0..3 : place(k) = i]
        ELSE IF i < n THEN prefix[i] ELSE 0]

\* The first pieces of the file's lines that are legal settings.
Settings ==
  {i \in DOMAIN conf : conf[i].value \in PrefixLengths /\ (i = 1 \/ conf[i - 1].ends)}

\* What setting.conf asks for: its last legal setting.
Configured(length) ==
  \E i \in Settings : conf[i].value = length /\ \A j \in Settings : j <= i

AsConfigured ==
  /\ pc = "done" => \E l \in PrefixLengths : Configured(l) /\ v6 = Rfc6052(Prefix, l, v4)
  /\ pc = "exit" => Settings = {}

\* Of a file without a line that just fills a piece, the address made
\* (ipv4toipv6.cpp:22-83) is the one RFC 6052 defines for the length that was
\* set last (confload.cpp:20-63); a file that sets none gets no address.
EmbedsAsConfigured == (\A i \in DOMAIN conf : ~(conf[i].full /\ conf[i].ends)) => AsConfigured
=============================================================================
