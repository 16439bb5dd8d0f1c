------------------------------ MODULE Rendezvous ------------------------------
(* What the P2P transfer server is for, without messages, connections and     *)
(* lists: devices register, and a device that asks for another is introduced  *)
(* to it. An introduction is one step for both sides, though each of them     *)
(* gets to know of it in its own time. The server may end before the device   *)
(* that is asked for has registered, and not after that.                      *)
CONSTANTS Devices, Wanted  \* the devices, and those that are asked for

VARIABLES up,          \* the server runs
          registered,
          introduced,  \* pairs: who asked, who was asked for
          learned,     \* introductions the asking side knows of
          heard        \* those the other side knows of

vars == <<up, registered, introduced, learned, heard>>

Init ==
  /\ up = TRUE
  /\ registered = {}
  /\ introduced = {} /\ learned = {} /\ heard = {}

Register(d) ==
  /\ up /\ d \notin registered
  /\ registered' = registered \cup {d}
  /\ UNCHANGED <<up, introduced, learned, heard>>

\* A device asks once.
Introduce(d, e) ==
  /\ up /\ {d, e} \subseteq registered /\ e \in Wanted
  /\ \A f \in Devices : <<d, f>> \notin introduced
  /\ introduced' = introduced \cup {<<d, e>>}
  /\ UNCHANGED <<up, registered, learned, heard>>

Learn(pair) ==
  /\ pair \in introduced \ learned
  /\ learned' = learned \cup {pair}
  /\ UNCHANGED <<up, registered, introduced, heard>>

Hear(pair) ==
  /\ pair \in introduced \ heard
  /\ heard' = heard \cup {pair}
  /\ UNCHANGED <<up, registered, introduced, learned>>

End ==
  /\ up /\ registered \cap Wanted = {}
  /\ up' = FALSE
  /\ UNCHANGED <<registered, introduced, learned, heard>>

Next ==
  \/ \E d \in Devices : Register(d) \/ \E e \in Devices : Introduce(d, e)
  \/ \E pair \in Devices \X Devices : Learn(pair) \/ Hear(pair)
  \/ End

\* Who is introduced has registered, and nobody knows of what there was not.
Safety == Init /\ [][Next]_vars

\* Both sides of every introduction get to know of it.
Spec ==
  /\ Safety
  /\ WF_vars(\E pair \in Devices \X Devices : Learn(pair))
  /\ WF_vars(\E pair \in Devices \X Devices : Hear(pair))
=============================================================================
