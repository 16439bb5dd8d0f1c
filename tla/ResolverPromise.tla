-------------------------- MODULE ResolverPromise --------------------------
(* What th_gethostbyname promises its caller, whatever threads and locks it *)
(* uses inside: several workers ask a DNS64 server each; at most one of     *)
(* them wins; the caller is told "ok" only when there is a winner and       *)
(* "failed" only when every worker that was started has lost; and it is     *)
(* told one or the other.                                                   *)
CONSTANT Workers

VARIABLES verdict,   \* what became of each worker's query
          outcome    \* what the caller has been told

vars == <<verdict, outcome>>

Verdicts == {"idle", "asking", "won", "lost"}

Init ==
  /\ verdict = [w \in Workers |-> "idle"]
  /\ outcome = "idle"

Begin ==
  /\ outcome = "idle"
  /\ outcome' = "pending"
  /\ UNCHANGED verdict

Launch(w) ==
  /\ outcome = "pending"
  /\ verdict[w] = "idle"
  /\ verdict' = [verdict EXCEPT ![w] = "asking"]
  /\ UNCHANGED outcome

\* A worker that gets addresses wins if nobody has won before it.
Win(w) ==
  /\ verdict[w] = "asking"
  /\ \A v \in Workers : verdict[v] # "won"
  /\ verdict' = [verdict EXCEPT ![w] = "won"]
  /\ UNCHANGED outcome

Lose(w) ==
  /\ verdict[w] = "asking"
  /\ verdict' = [verdict EXCEPT ![w] = "lost"]
  /\ UNCHANGED outcome

Succeed ==
  /\ outcome = "pending"
  /\ \E w \in Workers : verdict[w] = "won"
  /\ outcome' = "ok"
  /\ UNCHANGED verdict

\* A worker that is still "idle" here is one whose thread could not be made.
GiveUp ==
  /\ outcome = "pending"
  /\ \A w \in Workers : verdict[w] \in {"idle", "lost"}
  /\ outcome' = "failed"
  /\ UNCHANGED verdict

Next ==
  \/ Begin
  \/ \E w \in Workers : Launch(w) \/ Win(w) \/ Lose(w)
  \/ Succeed
  \/ GiveUp

\* What the caller is told is never wrong.
Safety == Init /\ [][Next]_vars

\* And it is told as soon as there is something to tell it.
Spec == Safety /\ WF_vars(Succeed) /\ WF_vars(GiveUp)
=============================================================================
