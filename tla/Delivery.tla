------------------------------ MODULE Delivery ------------------------------
(***************************************************************************)
(* What Zoho can rely on when it delivers messages, with no connection,    *)
(* queue or worker in sight.  An answer is final: a message acknowledged   *)
(* is the bridge's to handle, once, and one refused is not handled then or *)
(* later, so that repeating it is safe.  How the process ends says what    *)
(* became of the messages it had taken.                                    *)
(***************************************************************************)
CONSTANT Jobs   \* the deliveries

VARIABLES answer,   \* delivery -> "open", "ok" or "refused"
          fate,     \* delivery -> "none", "taken" or "handled"
          life      \* "up", or how the process ended

vars == <<answer, fate, life>>

Init ==
  /\ answer = [j \in Jobs |-> "open"]
  /\ fate = [j \in Jobs |-> "none"]
  /\ life = "up"

Take(j) ==
  /\ life = "up"
  /\ answer[j] = "open" /\ fate[j] = "none"
  /\ fate' = [fate EXCEPT ![j] = "taken"]
  /\ UNCHANGED <<answer, life>>

\* Before or after the acknowledgement.
Handle(j) ==
  /\ life = "up"
  /\ fate[j] = "taken" /\ answer[j] # "refused"
  /\ fate' = [fate EXCEPT ![j] = "handled"]
  /\ UNCHANGED <<answer, life>>

Acknowledge(j) ==
  /\ life = "up"
  /\ answer[j] = "open" /\ fate[j] # "none"
  /\ answer' = [answer EXCEPT ![j] = "ok"]
  /\ UNCHANGED <<fate, life>>

Refuse(j) ==
  /\ life = "up"
  /\ answer[j] = "open" /\ fate[j] = "none"
  /\ answer' = [answer EXCEPT ![j] = "refused"]
  /\ UNCHANGED <<fate, life>>

\* "clean": every message taken is handled and acknowledged; "drained": every
\* one taken is handled; "cut": nothing is promised.
End(how) ==
  /\ life = "up"
  /\ how \in {"clean", "drained"} => \A j \in Jobs : fate[j] # "taken"
  /\ how = "clean" => \A j \in Jobs : fate[j] = "handled" => answer[j] = "ok"
  /\ life' = how
  /\ UNCHANGED <<answer, fate>>

Next ==
  \/ \E j \in Jobs : Take(j) \/ Handle(j) \/ Acknowledge(j) \/ Refuse(j)
  \/ \E how \in {"clean", "drained", "cut"} : End(how)

Spec == Init /\ [][Next]_vars
=============================================================================
