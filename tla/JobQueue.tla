------------------------------ MODULE JobQueue ------------------------------
(***************************************************************************)
(* What the worker pool promises its callers, with no channel, goroutine   *)
(* or lock in sight: a bounded queue that serves at most Limit jobs at a   *)
(* time, refuses a job for good or serves it once, and reports itself      *)
(* drained only when all it took is done.                                  *)
(***************************************************************************)
EXTENDS Naturals, Sequences, FiniteSets

CONSTANTS Jobs, Depth, Limit

VARIABLES waiting,   \* the jobs taken, in the order they will be served
          status,    \* job -> "new", "taken", "served", "done" or "refused"
          gate,      \* "open", then "closing", then "closed"
          drained    \* the queue has been reported drained

vars == <<waiting, status, gate, drained>>

Having(s) == {j \in Jobs : status[j] = s}

Init ==
  /\ waiting = <<>>
  /\ status = [j \in Jobs |-> "new"]
  /\ gate = "open"
  /\ drained = FALSE

\* A job may still slip in while the gate closes.
Take(j) ==
  /\ status[j] = "new"
  /\ gate # "closed"
  /\ Len(waiting) < Depth
  /\ status' = [status EXCEPT ![j] = "taken"]
  /\ waiting' = Append(waiting, j)
  /\ UNCHANGED <<gate, drained>>

\* Only for want of room, or because the gate is no longer open.
Refuse(j) ==
  /\ status[j] = "new"
  /\ Len(waiting) >= Depth \/ gate # "open"
  /\ status' = [status EXCEPT ![j] = "refused"]
  /\ UNCHANGED <<waiting, gate, drained>>

\* First come, first served, whether or not the gate is open.
Serve(j) ==
  /\ waiting # <<>> /\ j = Head(waiting)
  /\ Cardinality(Having("served")) < Limit
  /\ status' = [status EXCEPT ![j] = "served"]
  /\ waiting' = Tail(waiting)
  /\ UNCHANGED <<gate, drained>>

Complete(j) ==
  /\ status[j] = "served"
  /\ status' = [status EXCEPT ![j] = "done"]
  /\ UNCHANGED <<waiting, gate, drained>>

Close ==
  /\ \/ gate = "open" /\ gate' = "closing"
     \/ gate = "closing" /\ gate' = "closed"
  /\ UNCHANGED <<waiting, status, drained>>

Report ==
  /\ gate = "closed"
  /\ Having("taken") \cup Having("served") = {}
  /\ drained' = TRUE
  /\ UNCHANGED <<waiting, status, gate>>

Next ==
  \/ \E j \in Jobs : Take(j) \/ Refuse(j) \/ Serve(j) \/ Complete(j)
  \/ Close
  \/ Report

Spec == Init /\ [][Next]_vars
=============================================================================
