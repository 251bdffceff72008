-------------------------- MODULE WorkerPoolProofs --------------------------
(***************************************************************************)
(* Proofs about WorkerPool, for any jobs, workers, queue depth and number  *)
(* of Shutdown calls.                                                      *)
(*                                                                         *)
(* ExactlyOnce is inductive beside TypeOK; DrainedMeansDone needs Closing, *)
(* what a worker that left and a Shutdown call that drained have seen.     *)
(***************************************************************************)
EXTENDS WorkerPool, SequenceTheorems, FiniteSetTheorems, TLAPS

\* What is in a sequence after an element is appended.
LEMMA AppendItems ==
  ASSUME NEW S, NEW q \in Seq(S), NEW e \in S
  PROVE  /\ Range(Append(q, e)) = Range(q) \cup {e}
         /\ IsInjective(q) /\ e \notin Range(q) => IsInjective(Append(q, e))
<1>1. /\ DOMAIN q = 1 .. Len(q)
      /\ DOMAIN Append(q, e) = 1 .. (Len(q) + 1)
      /\ Len(q) \in Nat
  OBVIOUS
<1>2. /\ \A i \in 1 .. Len(q) : Append(q, e)[i] = q[i]
      /\ Append(q, e)[Len(q) + 1] = e
  OBVIOUS
<1>3. Range(Append(q, e)) = Range(q) \cup {e}
  BY <1>1, <1>2 DEF Range
<1>4. ASSUME IsInjective(q), e \notin Range(q)
      PROVE  IsInjective(Append(q, e))
  BY <1>1, <1>2, <1>4 DEF Range, IsInjective
<1> QED
  BY <1>3, <1>4

\* What is left of a sequence without repetitions when its head is taken.
LEMMA TailItems ==
  ASSUME NEW S, NEW q \in Seq(S), q # <<>>, IsInjective(q)
  PROVE  /\ Head(q) \in S
         /\ Head(q) \in Range(q)
         /\ Range(Tail(q)) = Range(q) \ {Head(q)}
         /\ IsInjective(Tail(q))
<1>1. /\ Len(q) \in Nat \ {0}
      /\ DOMAIN q = 1 .. Len(q)
      /\ Head(q) = q[1]
      /\ Tail(q) \in Seq(S)
      /\ Len(Tail(q)) = Len(q) - 1
      /\ DOMAIN Tail(q) = 1 .. (Len(q) - 1)
  OBVIOUS
<1>2. \A i \in 1 .. (Len(q) - 1) : Tail(q)[i] = q[i + 1]
  OBVIOUS
<1>3. Head(q) \in S /\ Head(q) \in Range(q)
  BY <1>1 DEF Range
<1>4. Range(Tail(q)) \subseteq Range(q) \ {Head(q)}
  BY <1>1, <1>2 DEF Range, IsInjective
<1>5. ASSUME NEW x \in Range(q), x # Head(q)
      PROVE  x \in Range(Tail(q))
  <2>1. PICK i \in DOMAIN q : x = q[i]
    BY DEF Range
  <2>2. i - 1 \in 1 .. (Len(q) - 1) /\ (i - 1) + 1 = i
    BY <1>1, <1>5, <2>1
  <2> QED
    BY <1>1, <1>2, <2>1, <2>2 DEF Range
<1>6. IsInjective(Tail(q))
  BY <1>1, <1>2 DEF IsInjective
<1> QED
  BY <1>3, <1>4, <1>5, <1>6

-----------------------------------------------------------------------------
(* Types *)

LEMMA TypeInit == Init => TypeOK
<1>1. <<>> \in Seq(Jobs) /\ Len(<<>>) = 0
  OBVIOUS
<1>2. 0 <= QueueDepth
  BY PoolAssumption
<1> QED
  BY <1>1, <1>2 DEF Init, TypeOK

LEMMA TypeNext == TypeOK /\ [Next]_vars => TypeOK'
<1> SUFFICES ASSUME TypeOK, [Next]_vars
             PROVE  TypeOK'
  OBVIOUS
<1> USE DEF TypeOK
<1>1. ASSUME NEW j \in Jobs, Dispatch(j)
      PROVE  TypeOK'
  <2>1. CASE DispatchCheck(j)
    BY <2>1 DEF DispatchCheck
  <2>2. CASE DispatchSend(j)
    BY <2>2, PoolAssumption DEF DispatchSend
  <2>3. CASE DispatchFull(j)
    BY <2>3 DEF DispatchFull
  <2>4. CASE DispatchPanic(j)
    BY <2>4 DEF DispatchPanic
  <2> QED
    BY <1>1, <2>1, <2>2, <2>3, <2>4 DEF Dispatch
<1>2. ASSUME NEW s \in Stoppers, Shutdown(s)
      PROVE  TypeOK'
  BY <1>2 DEF Shutdown, CloseClosed, CloseJobs, JoinShutdown, Drained,
              ShutdownTimeout
<1>3. ASSUME NEW w \in Workers, Work(w)
      PROVE  TypeOK'
  <2>1. CASE Receive(w)
    <3>1. Head(queue) \in Jobs /\ Tail(queue) \in Seq(Jobs)
          /\ Len(Tail(queue)) = Len(queue) - 1
      BY <2>1 DEF Receive
    <3> QED
      BY <2>1, <3>1, PoolAssumption DEF Receive
  <2>2. ASSUME NEW r \in Outcomes, Return(w, r)
        PROVE  TypeOK'
    BY <2>2 DEF Return, Outcomes
  <2>3. CASE Exit(w)
    BY <2>3 DEF Exit
  <2> QED
    BY <1>3, <2>1, <2>2, <2>3 DEF Work
<1>4. CASE Terminated \/ UNCHANGED vars
  BY <1>4 DEF Terminated, vars
<1> QED
  BY <1>1, <1>2, <1>3, <1>4 DEF Next

\* The state keeps its shape: in particular the buffer never holds more jobs
\* than the channel has room for.
THEOREM TypeCorrect == Spec => []TypeOK
BY TypeInit, TypeNext, PTL DEF Spec

-----------------------------------------------------------------------------
(* The order of jobs *)

LEMMA OrderNext == TypeOK /\ AcceptedOrder /\ [Next]_vars => AcceptedOrder'
<1> SUFFICES ASSUME TypeOK, AcceptedOrder, [Next]_vars
             PROVE  AcceptedOrder'
  OBVIOUS
<1> USE DEF AcceptedOrder
<1>1. ASSUME NEW j \in Jobs, DispatchSend(j)
      PROVE  AcceptedOrder'
  <2>1. /\ started \in Seq(Jobs) /\ queue \in Seq(Jobs)
        /\ started \o queue \in Seq(Jobs)
        /\ <<j>> \in Seq(Jobs)
    BY DEF TypeOK
  <2>2. Append(started \o queue, j) = (started \o queue) \o <<j>>
    BY <2>1, AppendIsConcat
  <2>3. Append(queue, j) = queue \o <<j>>
    BY <2>1, AppendIsConcat
  <2>4. (started \o queue) \o <<j>> = started \o (queue \o <<j>>)
    BY <2>1, ConcatAssociative
  <2> QED
    BY <1>1, <2>2, <2>3, <2>4 DEF DispatchSend
<1>2. ASSUME NEW w \in Workers, Receive(w)
      PROVE  AcceptedOrder'
  <2>1. queue \in Seq(Jobs) /\ started \in Seq(Jobs) /\ queue # <<>>
    BY <1>2 DEF TypeOK, Receive
  <2>2. /\ Head(queue) \in Jobs /\ Tail(queue) \in Seq(Jobs)
        /\ <<Head(queue)>> \in Seq(Jobs)
        /\ queue = <<Head(queue)>> \o Tail(queue)
    BY <2>1
  <2>3. Append(started, Head(queue)) = started \o <<Head(queue)>>
    BY <2>1, <2>2, AppendIsConcat
  <2>4. started \o queue = Append(started, Head(queue)) \o Tail(queue)
    BY <2>1, <2>2, <2>3, ConcatAssociative
  <2> QED
    BY <1>2, <2>4 DEF Receive
<1>3. CASE UNCHANGED <<queue, accepted, started>>
  BY <1>3
<1> QED
  BY <1>1, <1>2, <1>3
     DEF Next, Dispatch, DispatchCheck, DispatchFull, DispatchPanic, Shutdown,
         CloseClosed, CloseJobs, JoinShutdown, Drained, ShutdownTimeout, Work,
         Return, Exit, Terminated, vars

\* Jobs leave the channel in the order Dispatch accepted them.
THEOREM Order == Spec => []AcceptedOrder
<1>1. Init => AcceptedOrder
  BY DEF Init, AcceptedOrder
<1> QED
  BY <1>1, OrderNext, TypeCorrect, PTL DEF Spec

-----------------------------------------------------------------------------
(* Every accepted job in one place *)

LEMMA OnceInit == Init => ExactlyOnce
BY PoolAssumption
   DEF Init, ExactlyOnce, Queued, Running, Range, IsInjective

LEMMA OnceSend ==
  ASSUME TypeOK, ExactlyOnce, NEW j \in Jobs, DispatchSend(j)
  PROVE  ExactlyOnce'
<1>1. j \notin Queued /\ j \notin Running /\ result[j] = "none"
  BY DEF ExactlyOnce, DispatchSend
<1>2. Queued' = Queued \cup {j} /\ IsInjective(queue)'
  BY <1>1, AppendItems DEF Queued, DispatchSend, ExactlyOnce, TypeOK
<1>3. Running' = Running
  BY DEF Running, DispatchSend
<1>4. \A k \in Jobs : caller'[k] = "accepted" <=> caller[k] = "accepted" \/ k = j
  BY DEF DispatchSend, TypeOK
<1> QED
  BY <1>1, <1>2, <1>3, <1>4 DEF ExactlyOnce, DispatchSend

LEMMA OnceReceive ==
  ASSUME TypeOK, ExactlyOnce, NEW w \in Workers, Receive(w)
  PROVE  ExactlyOnce'
<1> DEFINE h == Head(queue)
<1>1. /\ h \in Jobs /\ h \in Queued
      /\ Queued' = Queued \ {h}
      /\ IsInjective(queue)'
  BY TailItems DEF Receive, ExactlyOnce, TypeOK, Queued
<1>2. h \notin Running /\ result[h] = "none"
  BY <1>1 DEF ExactlyOnce
<1>3. /\ worker'[w] = h
      /\ \A v \in Workers : v # w => worker'[v] = worker[v]
      /\ worker[w] \notin Jobs
      /\ DOMAIN worker = Workers /\ DOMAIN worker' = Workers
  BY PoolAssumption DEF Receive, TypeOK
<1>4. Running' = Running \cup {h}
  BY <1>1, <1>3 DEF Running, Range
<1>5. \A u, v \in Workers :
        worker'[u] \in Jobs /\ worker'[u] = worker'[v] => u = v
  BY <1>2, <1>3 DEF ExactlyOnce, Running, Range
<1>6. caller' = caller /\ result' = result
  BY DEF Receive
<1>7. \A k \in Jobs :
        /\ caller'[k] = "accepted" <=>
             k \in Queued' \/ k \in Running' \/ result'[k] # "none"
        /\ ~(k \in Queued' /\ k \in Running')
        /\ result'[k] # "none" => k \notin Queued' \cup Running'
  BY <1>1, <1>2, <1>4, <1>6 DEF ExactlyOnce
<1> QED
  BY <1>1, <1>5, <1>7 DEF ExactlyOnce

LEMMA OnceReturn ==
  ASSUME TypeOK, ExactlyOnce, NEW w \in Workers, NEW r \in Outcomes,
         Return(w, r)
  PROVE  ExactlyOnce'
<1> DEFINE j == worker[w]
<1>1. /\ j \in Jobs
      /\ worker'[w] = Idle
      /\ \A v \in Workers : v # w => worker'[v] = worker[v]
      /\ DOMAIN worker = Workers /\ DOMAIN worker' = Workers
      /\ result'[j] # "none"
      /\ \A k \in Jobs : k # j => result'[k] = result[k]
  BY DEF Return, TypeOK, Outcomes
<1>2. j \in Running
  BY <1>1 DEF Running, Range
<1>3. Running' = Running \ {j}
  BY <1>1, PoolAssumption DEF Running, Range, ExactlyOnce
<1>4. Queued' = Queued /\ IsInjective(queue)' /\ caller' = caller
  BY DEF Return, Queued, ExactlyOnce
<1>5. \A u, v \in Workers :
        worker'[u] \in Jobs /\ worker'[u] = worker'[v] => u = v
  BY <1>1, PoolAssumption DEF ExactlyOnce
<1>6. \A k \in Jobs :
        /\ caller'[k] = "accepted" <=>
             k \in Queued' \/ k \in Running' \/ result'[k] # "none"
        /\ ~(k \in Queued' /\ k \in Running')
        /\ result'[k] # "none" => k \notin Queued' \cup Running'
  BY <1>1, <1>2, <1>3, <1>4 DEF ExactlyOnce
<1> QED
  BY <1>4, <1>5, <1>6 DEF ExactlyOnce

\* The remaining steps move no job and turn no caller into an accepted one.
LEMMA OnceRest ==
  ASSUME TypeOK, ExactlyOnce, UNCHANGED <<queue, result>>, Running' = Running,
         \A k \in Jobs : caller'[k] = "accepted" <=> caller[k] = "accepted",
         \A v \in Workers : worker'[v] = worker[v] \/ worker'[v] = Exited
  PROVE  ExactlyOnce'
<1>1. Queued' = Queued /\ IsInjective(queue)'
  BY DEF Queued, ExactlyOnce
<1>2. \A u, v \in Workers :
        worker'[u] \in Jobs /\ worker'[u] = worker'[v] => u = v
  BY PoolAssumption DEF ExactlyOnce
<1> QED
  BY <1>1, <1>2 DEF ExactlyOnce

LEMMA OnceNext == TypeOK /\ ExactlyOnce /\ [Next]_vars => ExactlyOnce'
<1> SUFFICES ASSUME TypeOK, ExactlyOnce, [Next]_vars
             PROVE  ExactlyOnce'
  OBVIOUS
<1>1. ASSUME NEW j \in Jobs, Dispatch(j)
      PROVE  ExactlyOnce'
  <2>1. CASE DispatchSend(j)
    BY <2>1, OnceSend
  <2>2. CASE DispatchCheck(j) \/ DispatchFull(j) \/ DispatchPanic(j)
    <3>1. /\ UNCHANGED <<queue, result, worker>>
          /\ \A k \in Jobs : caller'[k] = "accepted" <=> caller[k] = "accepted"
      BY <2>2 DEF DispatchCheck, DispatchFull, DispatchPanic, TypeOK
    <3> QED
      BY <3>1, OnceRest DEF Running
  <2> QED
    BY <1>1, <2>1, <2>2 DEF Dispatch
<1>2. ASSUME NEW s \in Stoppers, Shutdown(s)
      PROVE  ExactlyOnce'
  <2>1. UNCHANGED <<queue, result, worker, caller>>
    BY <1>2 DEF Shutdown, CloseClosed, CloseJobs, JoinShutdown, Drained,
                ShutdownTimeout
  <2> QED
    BY <2>1, OnceRest DEF Running
<1>3. ASSUME NEW w \in Workers, Work(w)
      PROVE  ExactlyOnce'
  <2>1. CASE Receive(w)
    BY <2>1, OnceReceive
  <2>2. ASSUME NEW r \in Outcomes, Return(w, r)
        PROVE  ExactlyOnce'
    BY <2>2, OnceReturn
  <2>3. CASE Exit(w)
    <3>1. /\ UNCHANGED <<queue, result, caller>>
          /\ \A v \in Workers : v # w => worker'[v] = worker[v]
          /\ worker[w] = Idle /\ worker'[w] = Exited
          /\ DOMAIN worker = Workers /\ DOMAIN worker' = Workers
      BY <2>3 DEF Exit, TypeOK
    <3>2. Running' = Running
      BY <3>1, PoolAssumption DEF Running, Range
    <3> QED
      BY <3>1, <3>2, OnceRest
  <2> QED
    BY <1>3, <2>1, <2>2, <2>3 DEF Work
<1>4. CASE Terminated \/ UNCHANGED vars
  <2>1. UNCHANGED <<queue, result, worker, caller>>
    BY <1>4 DEF Terminated, vars
  <2> QED
    BY <2>1, OnceRest DEF Running
<1> QED
  BY <1>1, <1>2, <1>3, <1>4 DEF Next

\* An accepted job is queued, running or finished, and only one of these; a
\* refused one is nowhere.
THEOREM Once == Spec => []ExactlyOnce
BY OnceInit, OnceNext, TypeCorrect, PTL DEF Spec

-----------------------------------------------------------------------------
(* Shutdown *)

\* A worker that left saw the channel closed and empty, and a closed channel
\* stays empty; a drained Shutdown saw all workers gone.
Closing ==
  /\ \A w \in Workers : worker[w] = Exited => jobsClosed /\ queue = <<>>
  /\ \A s \in Stoppers :
       stopper[s] = "drained" => \A w \in Workers : worker[w] = Exited

LEMMA ClosingNext == TypeOK /\ Closing /\ [Next]_vars => Closing'
<1> SUFFICES ASSUME TypeOK, Closing, [Next]_vars
             PROVE  Closing'
  OBVIOUS
<1> USE DEF Closing
<1>1. ASSUME NEW j \in Jobs, Dispatch(j)
      PROVE  Closing'
  BY <1>1, PoolAssumption
     DEF Dispatch, DispatchCheck, DispatchSend, DispatchFull, DispatchPanic
<1>2. ASSUME NEW s \in Stoppers, Shutdown(s)
      PROVE  Closing'
  BY <1>2 DEF Shutdown, CloseClosed, CloseJobs, JoinShutdown, Drained,
              ShutdownTimeout, TypeOK
<1>3. ASSUME NEW w \in Workers, Work(w)
      PROVE  Closing'
  <2>1. CASE Receive(w)
    BY <2>1, PoolAssumption DEF Receive, TypeOK
  <2>2. ASSUME NEW r \in Outcomes, Return(w, r)
        PROVE  Closing'
    BY <2>2, PoolAssumption DEF Return, TypeOK
  <2>3. CASE Exit(w)
    BY <2>3 DEF Exit, TypeOK
  <2> QED
    BY <1>3, <2>1, <2>2, <2>3 DEF Work
<1>4. CASE Terminated \/ UNCHANGED vars
  BY <1>4 DEF Terminated, vars
<1> QED
  BY <1>1, <1>2, <1>3, <1>4 DEF Next

LEMMA ClosingAlways == Spec => []Closing
<1>1. Init => Closing
  BY PoolAssumption DEF Init, Closing
<1> QED
  BY <1>1, ClosingNext, TypeCorrect, PTL DEF Spec

LEMMA ClosingDone == TypeOK /\ ExactlyOnce /\ Closing => DrainedMeansDone
<1> SUFFICES ASSUME TypeOK, ExactlyOnce, Closing,
                    NEW s \in Stoppers, stopper[s] = "drained",
                    NEW j \in Jobs, caller[j] = "accepted"
             PROVE  result[j] # "none"
  BY DEF DrainedMeansDone
<1>1. \A w \in Workers : worker[w] = Exited
  BY DEF Closing
<1>2. queue = <<>>
  BY <1>1, PoolAssumption DEF Closing
<1>3. j \notin Queued
  BY <1>2 DEF Queued, Range
<1>4. j \notin Running
  BY <1>1, PoolAssumption DEF Running, Range, TypeOK
<1> QED
  BY <1>3, <1>4 DEF ExactlyOnce

\* "worker pool drained cleanly" is true: no accepted job is left unhandled.
THEOREM DrainedIsDone == Spec => []DrainedMeansDone
BY ClosingAlways, ClosingDone, Once, TypeCorrect, PTL

-----------------------------------------------------------------------------
(* The pool implements JobQueue *)

\* The closes of a shutdown in their order.
Gated ==
  /\ jobsClosed => closed
  /\ \A s \in Stoppers : stopper[s] # "ready" => closed

LEMMA GatedNext == TypeOK /\ Gated /\ [Next]_vars => Gated'
<1> SUFFICES ASSUME TypeOK, Gated, [Next]_vars
             PROVE  Gated'
  OBVIOUS
<1> USE DEF Gated
<1>1. ASSUME NEW s \in Stoppers, Shutdown(s)
      PROVE  Gated'
  BY <1>1 DEF Shutdown, CloseClosed, CloseJobs, JoinShutdown, Drained,
              ShutdownTimeout, TypeOK
<1>2. CASE UNCHANGED <<closed, jobsClosed, stopper>>
  BY <1>2
<1> QED
  BY <1>1, <1>2
     DEF Next, Dispatch, DispatchCheck, DispatchSend, DispatchFull,
         DispatchPanic, Work, Receive, Return, Exit, Terminated, vars

LEMMA GatedAlways == Spec => []Gated
<1>1. Init => Gated
  BY DEF Init, Gated
<1> QED
  BY <1>1, GatedNext, TypeCorrect, PTL DEF Spec

\* Cardinality means the same in the two modules.
LEMMA SameCardinality == \A S : Queue!Cardinality(S) = Cardinality(S)
BY DEF Queue!Cardinality, Cardinality

\* While a worker is idle fewer jobs are served than there are workers.
LEMMA RoomToServe ==
  ASSUME TypeOK, NEW w \in Workers, worker[w] = Idle
  PROVE  Cardinality(Queue!Having("served")) < Cardinality(Workers)
<1> DEFINE busy == {v \in Workers : worker[v] \in Jobs}
           at == [v \in busy |-> worker[v]]
<1>1. IsFiniteSet(Workers) /\ Cardinality(Workers) \in Nat
  BY PoolAssumption, FS_CardinalityType
<1>2. /\ IsFiniteSet(Workers \ {w})
      /\ Cardinality(Workers \ {w}) = Cardinality(Workers) - 1
  BY <1>1, FS_RemoveElement
<1>3. busy \in SUBSET (Workers \ {w})
  BY PoolAssumption
<1>4. /\ IsFiniteSet(busy) /\ Cardinality(busy) <= Cardinality(Workers \ {w})
  BY <1>2, <1>3, FS_Subset
<1>5. at \in Surjection(busy, Running)
  <2>1. DOMAIN worker = Workers
    BY DEF TypeOK
  <2>2. \A v \in busy : at[v] \in Running
    BY <2>1 DEF Running, Range
  <2>3. \A j \in Running : \E v \in busy : at[v] = j
    BY <2>1 DEF Running, Range
  <2> QED
    BY <2>2, <2>3 DEF Surjection
<1>6. IsFiniteSet(Running) /\ Cardinality(Running) <= Cardinality(busy)
  BY <1>4, <1>5, FS_Surjection
<1>7. Queue!Having("served") \in SUBSET Running
  BY DEF Queue!Having, StatusOf
<1>8. /\ IsFiniteSet(Queue!Having("served"))
      /\ Cardinality(Queue!Having("served")) <= Cardinality(Running)
  BY <1>6, <1>7, FS_Subset
<1>9. /\ Cardinality(Queue!Having("served")) \in Nat
      /\ Cardinality(Running) \in Nat
      /\ Cardinality(busy) \in Nat
      /\ Cardinality(Workers \ {w}) \in Nat
  BY <1>2, <1>4, <1>6, <1>8, FS_CardinalityType
<1> HIDE DEF busy, at
<1> QED
  BY <1>1, <1>2, <1>4, <1>6, <1>8, <1>9

\* A step that gives one job a new status.
LEMMA StatusChange ==
  ASSUME NEW j \in Jobs, NEW s, StatusOf'[j] = s,
         \A k \in Jobs \ {j} : StatusOf'[k] = StatusOf[k]
  PROVE  StatusOf' = [StatusOf EXCEPT ![j] = s]
<1>1. /\ StatusOf = [k \in Jobs |-> StatusOf[k]]
      /\ StatusOf' = [k \in Jobs |-> StatusOf'[k]]
  BY DEF StatusOf
<1> QED
  BY <1>1

LEMMA QueueDispatch ==
  ASSUME TypeOK, ExactlyOnce, NEW j \in Jobs, Dispatch(j)
  PROVE  Queue!Take(j) \/ Queue!Refuse(j) \/ UNCHANGED Queue!vars
<1>1. \A k \in Jobs \ {j} : StatusOf'[k] = StatusOf[k]
  BY DEF Dispatch, DispatchCheck, DispatchSend, DispatchFull, DispatchPanic,
         StatusOf, Running, TypeOK
<1>2. UNCHANGED <<GateOf, DrainedOf>>
  BY DEF Dispatch, DispatchCheck, DispatchSend, DispatchFull, DispatchPanic,
         GateOf, DrainedOf
<1>3. StatusOf[j] = "new"
  BY DEF Dispatch, DispatchCheck, DispatchSend, DispatchFull, DispatchPanic,
         StatusOf
<1>4. CASE DispatchCheck(j) /\ ~closed
  <2>1. StatusOf'[j] = "new"
    BY <1>4 DEF DispatchCheck, StatusOf, TypeOK
  <2>2. StatusOf' = StatusOf
    BY <1>1, <1>3, <2>1 DEF StatusOf
  <2> QED
    BY <1>2, <1>4, <2>2 DEF DispatchCheck, Queue!vars
<1>5. CASE (DispatchCheck(j) /\ closed) \/ DispatchFull(j) \/ DispatchPanic(j)
  <2>1. StatusOf'[j] = "refused" /\ queue' = queue
    BY <1>5 DEF DispatchCheck, DispatchFull, DispatchPanic, StatusOf, TypeOK
  <2>2. StatusOf' = [StatusOf EXCEPT ![j] = "refused"]
    BY <1>1, <2>1, StatusChange
  <2>3. Len(queue) >= QueueDepth \/ GateOf # "open"
    BY <1>5 DEF DispatchCheck, DispatchFull, DispatchPanic, GateOf
  <2> QED
    BY <1>2, <1>3, <2>1, <2>2, <2>3 DEF Queue!Refuse
<1>6. CASE DispatchSend(j)
  <2>1. j \notin Running /\ result[j] = "none"
    BY <1>6 DEF DispatchSend, ExactlyOnce
  <2>2. StatusOf'[j] = "taken"
    BY <1>6, <2>1 DEF DispatchSend, StatusOf, Running, TypeOK
  <2>3. StatusOf' = [StatusOf EXCEPT ![j] = "taken"]
    BY <1>1, <2>2, StatusChange
  <2>4. /\ GateOf # "closed" /\ Len(queue) < QueueDepth
        /\ queue' = Append(queue, j)
    BY <1>6 DEF DispatchSend, GateOf
  <2> QED
    BY <1>2, <1>3, <2>3, <2>4 DEF Queue!Take
<1> QED
  BY <1>4, <1>5, <1>6 DEF Dispatch

LEMMA QueueShutdown ==
  ASSUME TypeOK, ExactlyOnce, Closing, Gated, NEW s \in Stoppers, Shutdown(s)
  PROVE  Queue!Close \/ Queue!Report \/ UNCHANGED Queue!vars
<1>1. UNCHANGED <<queue, StatusOf>>
  BY DEF Shutdown, CloseClosed, CloseJobs, JoinShutdown, Drained,
         ShutdownTimeout, StatusOf, Running
<1>2. stopper[s] # "drained" /\ \A t \in Stoppers \ {s} : stopper'[t] = stopper[t]
  BY DEF Shutdown, CloseClosed, CloseJobs, JoinShutdown, Drained,
         ShutdownTimeout, TypeOK
<1>3. CASE Drained(s)
  <2>1. DrainedOf' /\ UNCHANGED GateOf
    BY <1>3 DEF Drained, DrainedOf, GateOf, TypeOK
  <2>2. GateOf = "closed" /\ queue = <<>>
    BY <1>3, PoolAssumption DEF Drained, Closing, GateOf
  <2>3. Queued = {}
    BY <2>2 DEF Queued, Range
  <2>4. Running = {}
    BY <1>3, PoolAssumption DEF Drained, Running, Range, TypeOK
  <2>5. \A j \in Jobs : StatusOf[j] \notin {"taken", "served"}
    BY <2>3, <2>4 DEF StatusOf, ExactlyOnce
  <2>6. Queue!Having("taken") \cup Queue!Having("served") = {}
    BY <2>5 DEF Queue!Having
  <2> QED
    BY <1>1, <2>1, <2>2, <2>6 DEF Queue!Report
<1>4. CASE ~Drained(s)
  <2>1. stopper'[s] # "drained"
    BY <1>4 DEF Shutdown, CloseClosed, CloseJobs, JoinShutdown,
                ShutdownTimeout, TypeOK
  <2>2. DrainedOf' = DrainedOf
    BY <1>2, <2>1 DEF DrainedOf
  <2>3. CASE CloseClosed(s)
    <3>1. GateOf = "open" /\ GateOf' = "closing"
      BY <2>3 DEF CloseClosed, GateOf, Gated
    <3> QED
      BY <1>1, <2>2, <3>1 DEF Queue!Close
  <2>4. CASE CloseJobs(s)
    <3>1. GateOf \in {"closing", "closed"} /\ GateOf' = "closed"
      BY <2>4 DEF CloseJobs, GateOf, Gated
    <3> QED
      BY <1>1, <2>2, <3>1 DEF Queue!Close, Queue!vars
  <2>5. CASE JoinShutdown(s) \/ ShutdownTimeout(s)
    <3>1. UNCHANGED GateOf
      BY <2>5 DEF JoinShutdown, ShutdownTimeout, GateOf
    <3> QED
      BY <1>1, <2>2, <3>1 DEF Queue!vars
  <2> QED
    BY <1>4, <2>3, <2>4, <2>5 DEF Shutdown
<1> QED
  BY <1>3, <1>4

LEMMA QueueReceive ==
  ASSUME TypeOK, ExactlyOnce, NEW w \in Workers, Receive(w)
  PROVE  \E j \in Jobs : Queue!Serve(j)
<1> DEFINE h == Head(queue)
<1>1. /\ queue # <<>> /\ queue' = Tail(queue) /\ h \in Jobs /\ h \in Queued
      /\ UNCHANGED <<caller, result, GateOf, DrainedOf>>
  BY TailItems DEF Receive, GateOf, DrainedOf, ExactlyOnce, TypeOK, Queued
<1>2. Running' = Running \cup {h}
  <2>1. /\ worker'[w] = h
        /\ \A v \in Workers : v # w => worker'[v] = worker[v]
        /\ worker[w] \notin Jobs
        /\ DOMAIN worker = Workers /\ DOMAIN worker' = Workers
    BY PoolAssumption DEF Receive, TypeOK
  <2> QED
    BY <1>1, <2>1 DEF Running, Range
<1>3. caller[h] = "accepted" /\ result[h] = "none"
  BY <1>1 DEF ExactlyOnce
<1>4. StatusOf' = [StatusOf EXCEPT ![h] = "served"]
  <2>1. \A k \in Jobs \ {h} : StatusOf'[k] = StatusOf[k]
    BY <1>1, <1>2 DEF StatusOf
  <2>2. StatusOf'[h] = "served"
    BY <1>1, <1>2, <1>3 DEF StatusOf
  <2> QED
    BY <1>1, <2>1, <2>2, StatusChange
<1>5. Cardinality(Queue!Having("served")) < Cardinality(Workers)
  BY RoomToServe DEF Receive
<1>6. Queue!Serve(h)
  BY <1>1, <1>4, <1>5, SameCardinality DEF Queue!Serve
<1> QED
  BY <1>1, <1>6

LEMMA QueueReturn ==
  ASSUME TypeOK, ExactlyOnce, NEW w \in Workers, NEW r \in Outcomes,
         Return(w, r)
  PROVE  \E j \in Jobs : Queue!Complete(j)
<1> DEFINE j == worker[w]
<1>1. /\ j \in Jobs
      /\ UNCHANGED <<caller, queue, GateOf, DrainedOf>>
      /\ result'[j] # "none"
      /\ \A k \in Jobs : k # j => result'[k] = result[k]
  BY DEF Return, TypeOK, Outcomes, GateOf, DrainedOf
<1>2. /\ j \in Running
      /\ \A k \in Jobs : k # j => (k \in Running' <=> k \in Running)
  <2>1. /\ worker'[w] = Idle
        /\ \A v \in Workers : v # w => worker'[v] = worker[v]
        /\ DOMAIN worker = Workers /\ DOMAIN worker' = Workers
    BY DEF Return, TypeOK
  <2> QED
    BY <1>1, <2>1, PoolAssumption DEF Running, Range
<1>3. caller[j] = "accepted" /\ result[j] = "none"
  BY <1>1, <1>2 DEF ExactlyOnce
<1>4. StatusOf[j] = "served" /\ StatusOf'[j] = "done"
  BY <1>1, <1>2, <1>3 DEF StatusOf
<1>5. \A k \in Jobs \ {j} : StatusOf'[k] = StatusOf[k]
  BY <1>1, <1>2 DEF StatusOf
<1>6. StatusOf' = [StatusOf EXCEPT ![j] = "done"]
  BY <1>1, <1>4, <1>5, StatusChange
<1>7. Queue!Complete(j)
  BY <1>1, <1>4, <1>6 DEF Queue!Complete
<1> QED
  BY <1>1, <1>7

LEMMA QueueNext ==
  TypeOK /\ ExactlyOnce /\ Closing /\ Gated /\ [Next]_vars => [Queue!Next]_Queue!vars
<1> SUFFICES ASSUME TypeOK, ExactlyOnce, Closing, Gated, [Next]_vars
             PROVE  [Queue!Next]_Queue!vars
  OBVIOUS
<1>1. ASSUME NEW j \in Jobs, Dispatch(j)
      PROVE  [Queue!Next]_Queue!vars
  BY <1>1, QueueDispatch DEF Queue!Next
<1>2. ASSUME NEW s \in Stoppers, Shutdown(s)
      PROVE  [Queue!Next]_Queue!vars
  BY <1>2, QueueShutdown DEF Queue!Next
<1>3. ASSUME NEW w \in Workers, Work(w)
      PROVE  [Queue!Next]_Queue!vars
  <2>1. CASE Receive(w)
    BY <2>1, QueueReceive DEF Queue!Next
  <2>2. ASSUME NEW r \in Outcomes, Return(w, r)
        PROVE  [Queue!Next]_Queue!vars
    BY <2>2, QueueReturn DEF Queue!Next
  <2>3. CASE Exit(w)
    <3>1. /\ UNCHANGED <<queue, caller, result, GateOf, DrainedOf>>
          /\ \A v \in Workers : v # w => worker'[v] = worker[v]
          /\ worker[w] = Idle /\ worker'[w] = Exited
          /\ DOMAIN worker = Workers /\ DOMAIN worker' = Workers
      BY <2>3 DEF Exit, TypeOK, GateOf, DrainedOf
    <3>2. Running' = Running
      BY <3>1, PoolAssumption DEF Running, Range
    <3> QED
      BY <3>1, <3>2 DEF StatusOf, Queue!vars
  <2> QED
    BY <1>3, <2>1, <2>2, <2>3 DEF Work
<1>4. CASE Terminated \/ UNCHANGED vars
  BY <1>4 DEF Terminated, vars, Queue!vars, StatusOf, Running, GateOf, DrainedOf
<1> QED
  BY <1>1, <1>2, <1>3, <1>4 DEF Next

\* To its callers the pool is a bounded first-come-first-served queue with as many
\* servers as it has workers: no job is served twice or after a refusal, and a
\* clean end is reported only for an empty one.
THEOREM ImplementsJobQueue == Spec => ServesAsQueue
<1>1. Init => Queue!Init
  BY DEF Init, Queue!Init, StatusOf, GateOf, DrainedOf
<1> QED
  BY <1>1, QueueNext, GatedAlways, ClosingAlways, Once, TypeCorrect, PTL
     DEF Spec, ServesAsQueue, Queue!Spec
=============================================================================
