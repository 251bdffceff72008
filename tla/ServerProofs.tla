---------------------------- MODULE ServerProofs ----------------------------
(***************************************************************************)
(* Proofs about Server.  Every step of the process is a step of its worker *)
(* pool or leaves it alone, so the theorems of WorkerPoolProofs hold of    *)
(* it; what is added relates the pool to the answers and to main.          *)
(***************************************************************************)
EXTENDS Server, TLAPS

PoolProofs == INSTANCE WorkerPoolProofs WITH Stoppers <- {Main}

LEMMA PoolStep == [Next]_vars => [Pool!Next]_(Pool!vars)
<1> SUFFICES ASSUME [Next]_vars
             PROVE  [Pool!Next]_(Pool!vars)
  OBVIOUS
<1>1. ASSUME NEW j \in Jobs, Deliver(j)
      PROVE  [Pool!Next]_(Pool!vars)
  <2>1. CASE Dispatch(j)
    BY <2>1 DEF Dispatch, Pool!Next
  <2>2. CASE UNCHANGED poolVars
    BY <2>2 DEF poolVars, Pool!vars
  <2> QED
    BY <1>1, <2>1, <2>2 DEF Deliver, Connect, Deny, Unreadable, Accept, Reply,
                            DropConnection
<1>2. ASSUME NEW w \in Workers, Work(w)
      PROVE  [Pool!Next]_(Pool!vars)
  BY <1>2 DEF Work, Pool!Next
<1>3. CASE MainStep
  <2>1. CASE ClosePool \/ PoolTimeout
    <3>1. \E s \in {Main} : Pool!Shutdown(s)
      BY <2>1 DEF ClosePool, PoolTimeout, Pool!Shutdown
    <3> QED
      BY <3>1 DEF Pool!Next
  <2>2. CASE UNCHANGED poolVars
    BY <2>2 DEF poolVars, Pool!vars
  <2> QED
    BY <1>3, <2>1, <2>2 DEF MainStep, ServerError, Signal, Deadline,
                            HttpStopped, HttpTimeout, Exit, CloseStore,
                            EndProcess
<1>4. CASE Terminated \/ UNCHANGED vars
  BY <1>4 DEF Terminated, vars, poolVars, Pool!vars
<1> QED
  BY <1>1, <1>2, <1>3, <1>4 DEF Next

\* The process uses its pool as the module WorkerPool allows.
THEOREM UsesPool == Spec => Pool!Spec
<1>1. Init => Pool!Init
  BY DEF Init
<1> QED
  BY <1>1, PoolStep, PTL DEF Spec, Pool!Spec

\* The instances of the pool in Server and in its proofs are the same.
LEMMA SamePool ==
  /\ PoolProofs!PoolAssumption
  /\ Pool!Init <=> PoolProofs!Init
  /\ Pool!Next <=> PoolProofs!Next
  /\ Pool!vars = PoolProofs!vars
<1>1. PoolProofs!PoolAssumption
  <2>1. PoolProofs!IsFiniteSet(Workers) <=> IsFiniteSet(Workers)
    BY DEF PoolProofs!IsFiniteSet, IsFiniteSet
  <2> QED
    BY <2>1, ServerAssumption DEF PoolProofs!PoolAssumption
<1>2. Pool!Init <=> PoolProofs!Init
  BY DEF Pool!Init, PoolProofs!Init
<1>3. Pool!vars = PoolProofs!vars
  BY DEF Pool!vars, PoolProofs!vars
<1>4. \A j \in Jobs : Pool!Dispatch(j) <=> PoolProofs!Dispatch(j)
  BY DEF Pool!Dispatch, PoolProofs!Dispatch, Pool!DispatchCheck,
         PoolProofs!DispatchCheck, Pool!DispatchSend, PoolProofs!DispatchSend,
         Pool!DispatchFull, PoolProofs!DispatchFull, Pool!DispatchPanic,
         PoolProofs!DispatchPanic
<1>5. \A s \in {Main} : Pool!Shutdown(s) <=> PoolProofs!Shutdown(s)
  BY DEF Pool!Shutdown, PoolProofs!Shutdown, Pool!CloseClosed,
         PoolProofs!CloseClosed, Pool!CloseJobs, PoolProofs!CloseJobs,
         Pool!JoinShutdown, PoolProofs!JoinShutdown, Pool!Drained,
         PoolProofs!Drained, Pool!ShutdownTimeout, PoolProofs!ShutdownTimeout
<1>6. \A w \in Workers : Pool!Work(w) <=> PoolProofs!Work(w)
  BY DEF Pool!Work, PoolProofs!Work, Pool!Outcomes, PoolProofs!Outcomes,
         Pool!Receive, PoolProofs!Receive, Pool!Return, PoolProofs!Return,
         Pool!Exit, PoolProofs!Exit
<1>7. Pool!Terminated <=> PoolProofs!Terminated
  BY <1>3 DEF Pool!Terminated, PoolProofs!Terminated, Pool!vars,
              PoolProofs!vars
<1>8. Pool!Next <=> PoolProofs!Next
  BY <1>4, <1>5, <1>6, <1>7 DEF Pool!Next, PoolProofs!Next
<1> QED
  BY <1>1, <1>2, <1>3, <1>8

LEMMA PoolSpec == Spec => PoolProofs!Spec
<1>1. Init => PoolProofs!Init
  BY SamePool DEF Init
<1>2. [Next]_vars => [PoolProofs!Next]_(PoolProofs!vars)
  <2>1. Pool!Next => PoolProofs!Next
    BY SamePool
  <2>2. UNCHANGED Pool!vars => UNCHANGED PoolProofs!vars
    BY DEF Pool!vars, PoolProofs!vars
  <2> QED
    BY <2>1, <2>2, PoolStep
<1> QED
  BY <1>1, <1>2, PTL DEF Spec, PoolProofs!Spec

LEMMA PoolFacts ==
  Spec => [](PoolProofs!TypeOK /\ PoolProofs!ExactlyOnce
             /\ PoolProofs!DrainedMeansDone)
<1>1. PoolProofs!PoolAssumption
  BY SamePool
<1>2. PoolProofs!Spec => []PoolProofs!TypeOK
  BY <1>1, PoolProofs!TypeCorrect
<1>3. PoolProofs!Spec => []PoolProofs!ExactlyOnce
  BY <1>1, PoolProofs!Once
<1>4. PoolProofs!Spec => []PoolProofs!DrainedMeansDone
  BY <1>1, PoolProofs!DrainedIsDone
<1> QED
  BY <1>2, <1>3, <1>4, PoolSpec, PTL

\* The pool serves as the queue of module JobQueue in the process too, where main
\* shuts it down while the handlers of requests still dispatch.
THEOREM PoolServesAsQueue == Spec => PoolProofs!ServesAsQueue
<1>1. PoolProofs!PoolAssumption
  BY SamePool
<1>2. PoolProofs!Spec => PoolProofs!ServesAsQueue
  BY <1>1, PoolProofs!ImplementsJobQueue
<1> QED
  BY <1>2, PoolSpec

-----------------------------------------------------------------------------
(* Typing *)

\* Every variable keeps the values TypeOK gives it, those of the pool and
\* those of the HTTP side and main.
THEOREM TypeCorrect == Spec => []TypeOK
<1> DEFINE HttpOK ==
      /\ http \in [Jobs -> {"new", "connected", "handling", "ok200", "busy429",
                            "denied401", "error500", "dropped"}]
      /\ srv \in {"serving", "stopping", "draining", "returning", "storeClosed",
                  "exited", "aborted"}
      /\ late \in BOOLEAN
<1>1. Init => HttpOK
  BY DEF Init
<1>2. HttpOK /\ [Next]_vars => HttpOK'
  BY DEF Next, Deliver, Connect, Deny, Unreadable, Accept, Dispatch, Reply,
         DropConnection, Work, MainStep, ServerError, Signal, Deadline,
         HttpStopped, HttpTimeout, ClosePool, PoolTimeout, Exit, CloseStore,
         EndProcess, Terminated, Answer, vars
<1>3. PoolProofs!TypeOK /\ HttpOK => TypeOK
  BY DEF PoolProofs!TypeOK, Pool!TypeOK, TypeOK
<1> QED
  BY <1>1, <1>2, <1>3, PoolFacts, PTL DEF Spec

-----------------------------------------------------------------------------
(* The answers *)

\* What an answer says of the Dispatch call of its delivery: only a delivery
\* that is being handled can have a call under way.
Answers ==
  \A j \in Jobs :
    /\ http[j] \in {"new", "connected", "denied401", "dropped"} =>
         caller[j] = "ready"
    /\ http[j] = "ok200" => caller[j] = "accepted"
    /\ http[j] = "busy429" => caller[j] \in {"full", "closed"}
    /\ http[j] = "error500" => caller[j] \in {"ready", "panicked"}

LEMMA DispatchOne ==
  ASSUME TypeOK, NEW j \in Jobs, Dispatch(j)
  PROVE  /\ http[j] = "handling"
         /\ UNCHANGED <<http, srv, late, closed, jobsClosed, stopper, worker>>
         /\ \A k \in Jobs \ {j} : caller'[k] = caller[k]
         /\ caller'[j] = "panicked" => jobsClosed
BY DEF Dispatch, Pool!Dispatch, Pool!DispatchCheck, Pool!DispatchSend,
       Pool!DispatchFull, Pool!DispatchPanic, TypeOK, Pool!TypeOK

LEMMA WorkAlone ==
  ASSUME NEW w \in Workers, Work(w)
  PROVE  UNCHANGED <<http, srv, late, caller, closed, jobsClosed, stopper>>
BY DEF Work, Pool!Work, Pool!Receive, Pool!Return, Pool!Exit

LEMMA MainAlone ==
  ASSUME MainStep
  PROVE  UNCHANGED <<http, caller>>
BY DEF MainStep, ServerError, Signal, Deadline, HttpStopped, HttpTimeout,
       ClosePool, PoolTimeout, Exit, CloseStore, EndProcess, Pool!CloseClosed, Pool!CloseJobs,
       Pool!Drained, Pool!ShutdownTimeout, poolVars

LEMMA AnswersNext == TypeOK /\ Answers /\ [Next]_vars => Answers'
<1> SUFFICES ASSUME TypeOK, Answers, [Next]_vars
             PROVE  Answers'
  OBVIOUS
<1>1. ASSUME NEW j \in Jobs, Dispatch(j)
      PROVE  Answers'
  BY <1>1, DispatchOne DEF Answers
<1>2. ASSUME NEW j \in Jobs,
             Connect(j) \/ Deny(j) \/ Unreadable(j) \/ Accept(j) \/ Reply(j)
               \/ DropConnection(j)
      PROVE  Answers'
  BY <1>2 DEF Answers, Connect, Deny, Unreadable, Accept, Reply,
              DropConnection, Answer, poolVars, TypeOK
<1>3. ASSUME NEW w \in Workers, Work(w)
      PROVE  Answers'
  BY <1>3, WorkAlone DEF Answers
<1>4. CASE MainStep
  BY <1>4, MainAlone DEF Answers
<1>5. CASE Terminated \/ UNCHANGED vars
  BY <1>5 DEF Answers, Terminated, vars, poolVars
<1> QED
  BY <1>1, <1>2, <1>3, <1>4, <1>5 DEF Next, Deliver

LEMMA AnswersAlways == Spec => []Answers
<1>1. Init => Answers
  BY DEF Init, Pool!Init, Answers
<1> QED
  BY <1>1, AnswersNext, TypeCorrect, PTL DEF Spec

\* A delivery answered with 200 is owned by the pool; one with another answer,
\* or none yet, is in no queue and with no worker.
THEOREM AnswersAreTrue == Spec => []TruthfulReply
<1>1. TypeOK /\ Answers /\ PoolProofs!ExactlyOnce => TruthfulReply
  <2> SUFFICES ASSUME TypeOK, Answers, PoolProofs!ExactlyOnce, NEW j \in Jobs
               PROVE  /\ http[j] = "ok200" => caller[j] = "accepted"
                      /\ http[j] \notin {"ok200", "handling"} =>
                           /\ j \notin Range(queue) \cup Range(worker)
                           /\ result[j] = "none"
    BY DEF TruthfulReply
  <2>1. http[j] \notin {"ok200", "handling"} => caller[j] # "accepted"
    BY DEF Answers, TypeOK
  <2>2. caller[j] # "accepted" =>
          /\ j \notin Range(queue)
          /\ j \notin Range(worker) \cap Jobs
          /\ result[j] = "none"
    BY DEF PoolProofs!ExactlyOnce, PoolProofs!Queued, PoolProofs!Running,
           PoolProofs!Range, Range
  <2> QED
    BY <2>1, <2>2 DEF Answers
<1> QED
  BY <1>1, TypeCorrect, AnswersAlways, PoolFacts, PTL

-----------------------------------------------------------------------------
(* The shutdown *)

Past == {"draining", "returning", "storeClosed", "exited"}

\* The pool is closed only after srv.Shutdown returned, and before the
\* deadline srv.Shutdown returns only with no request under way; main goes on
\* from pool.Shutdown with the workers gone or the deadline past.
Ordered ==
  /\ closed \/ jobsClosed => srv \in Past
  /\ srv \in Past /\ ~late => \A j \in Jobs : http[j] \notin {"connected", "handling"}
  /\ srv \in Past \ {"draining"} => stopper[Main] \in {"drained", "timedout"}
  /\ stopper[Main] = "timedout" => late
  /\ stopper[Main] = "drained" => \A w \in Workers : worker[w] = Exited

LEMMA OrderedNext ==
  TypeOK /\ Ordered /\ PanicOnlyAfterDeadline /\ [Next]_vars =>
    Ordered' /\ PanicOnlyAfterDeadline'
<1> SUFFICES ASSUME TypeOK, Ordered, PanicOnlyAfterDeadline, [Next]_vars
             PROVE  Ordered' /\ PanicOnlyAfterDeadline'
  OBVIOUS
<1> USE DEF Ordered, Past, PanicOnlyAfterDeadline
<1>1. ASSUME NEW j \in Jobs, Dispatch(j)
      PROVE  Ordered' /\ PanicOnlyAfterDeadline'
  <2>1. caller'[j] = "panicked" => late
    BY <1>1, DispatchOne
  <2> QED
    BY <1>1, <2>1, DispatchOne
<1>2. ASSUME NEW j \in Jobs,
             Connect(j) \/ Deny(j) \/ Unreadable(j) \/ Accept(j) \/ Reply(j)
               \/ DropConnection(j)
      PROVE  Ordered' /\ PanicOnlyAfterDeadline'
  BY <1>2 DEF Connect, Deny, Unreadable, Accept, Reply, DropConnection,
              Answer, poolVars, TypeOK
<1>3. ASSUME NEW w \in Workers, Work(w)
      PROVE  Ordered' /\ PanicOnlyAfterDeadline'
  <2>1. worker[w] # Exited
    BY <1>3, ServerAssumption DEF Work, Pool!Work, Pool!Receive, Pool!Return, Pool!Exit
  <2> QED
    BY <1>3, <2>1, WorkAlone
<1>4. CASE ServerError \/ Signal \/ Deadline \/ HttpStopped \/ HttpTimeout
             \/ Exit \/ CloseStore \/ EndProcess
  BY <1>4 DEF ServerError, Signal, Deadline, HttpStopped, HttpTimeout, Exit,
              CloseStore, EndProcess, poolVars
<1>5. CASE ClosePool \/ PoolTimeout
  BY <1>5 DEF ClosePool, PoolTimeout, Pool!CloseClosed, Pool!CloseJobs,
              Pool!Drained, Pool!ShutdownTimeout, TypeOK, Pool!TypeOK
<1>6. CASE Terminated \/ UNCHANGED vars
  BY <1>6 DEF Terminated, vars, poolVars
<1> QED
  BY <1>1, <1>2, <1>3, <1>4, <1>5, <1>6 DEF Next, Deliver, MainStep

LEMMA OrderedAlways == Spec => [](Ordered /\ PanicOnlyAfterDeadline)
<1>1. Init => Ordered /\ PanicOnlyAfterDeadline
  BY DEF Init, Pool!Init, Ordered, Past, PanicOnlyAfterDeadline
<1> QED
  BY <1>1, OrderedNext, TypeCorrect, PTL DEF Spec

\* Dispatch sends on the closed channel only if a handler outlived
\* srv.Shutdown, that is after the shutdown deadline.
THEOREM PanicIsLate == Spec => []PanicOnlyAfterDeadline
BY OrderedAlways, PTL

\* main returns within the deadline only when all requests were answered and
\* all jobs answered with 200 were handled.
THEOREM NothingIsLost == Spec => []ShutdownLosesNothing
<1>1. Ordered /\ Answers /\ PoolProofs!DrainedMeansDone => ShutdownLosesNothing
  BY DEF Ordered, Past, Answers, PoolProofs!DrainedMeansDone, ShutdownLosesNothing
<1> QED
  BY <1>1, OrderedAlways, AnswersAlways, PoolFacts, PTL

\* The deferred tokenStore.Close takes the store away from no request and no job
\* unless main has given up waiting for them.
THEOREM StoreOutlives == Spec => []StoreOutlivesItsUsers
<1>1. Ordered => StoreOutlivesItsUsers
  BY DEF Ordered, Past, StoreOutlivesItsUsers
<1> QED
  BY <1>1, OrderedAlways, PTL

-----------------------------------------------------------------------------
(* The server keeps what Delivery promises *)

\* What a delivery's fate is by the ledger of the pool: where a job is follows
\* from how its Dispatch call and its handler ended.
Ledger == [j \in Jobs |-> IF result[j] # "none" THEN "handled"
                          ELSE IF caller[j] = "accepted" THEN "taken"
                          ELSE "none"]

\* The invariants a step's image depends on.
Kept ==
  /\ TypeOK /\ Answers /\ Ordered
  /\ PoolProofs!ExactlyOnce /\ PoolProofs!DrainedMeansDone

LEMMA KeptAlways == Spec => []Kept
<1>1. /\ TypeOK /\ Answers /\ Ordered
      /\ PoolProofs!ExactlyOnce /\ PoolProofs!DrainedMeansDone
      => Kept
  BY DEF Kept
<1> QED
  BY <1>1, TypeCorrect, AnswersAlways, OrderedAlways, PoolFacts, PTL

\* Where a job is, from ExactlyOnce.
LEMMA Places ==
  ASSUME Kept, NEW j \in Jobs
  PROVE  /\ caller[j] = "accepted" <=>
              j \in Range(queue) \cup Range(worker) \/ result[j] # "none"
         /\ result[j] # "none" => j \notin Range(queue) \cup Range(worker)
BY DEF Kept, PoolProofs!ExactlyOnce, PoolProofs!Queued, PoolProofs!Running,
       PoolProofs!Range, Range

LEMMA FateIsLedger == Kept => FateOf = Ledger
<1> SUFFICES ASSUME Kept, NEW j \in Jobs
             PROVE  FateOf[j] = Ledger[j]
  BY DEF FateOf, Ledger
<1> QED
  BY Places DEF FateOf, Ledger

LEMMA FateIsLedgerNext == Kept' => FateOf' = Ledger'
<1>1. Kept' => (FateOf = Ledger)'
  BY FateIsLedger, PTL
<1> QED
  BY <1>1

\* The answer as Zoho tells answers apart.
LEMMA AnswerIs ==
  ASSUME TypeOK, NEW j \in Jobs
  PROVE  /\ AnswerOf[j] = "ok" <=> http[j] = "ok200"
         /\ AnswerOf[j] = "open" <=> http[j] \in {"new", "connected", "handling"}
         /\ AnswerOf[j] \in {"ok", "open", "refused"}
BY DEF AnswerOf, TypeOK

\* Steps Zoho does not see: no answer, no new fate, no end of the process.
LEMMA DeliveryStutters ==
  ASSUME Kept, Kept', UNCHANGED <<caller, result>>,
         UNCHANGED http \/ \E j \in Jobs :
           /\ http[j] \in {"new", "connected"}
           /\ \E to \in {"connected", "handling"} : Answer(j, to),
         Alive, Alive'
  PROVE  UNCHANGED ToZoho!vars
<1>1. AnswerOf' = AnswerOf
  <2>1. ASSUME NEW k \in Jobs
        PROVE  http'[k] = http[k] \/
                 {http[k], http'[k]} \subseteq {"new", "connected", "handling"}
    BY DEF Answer, Kept, TypeOK
  <2> QED
    BY <2>1 DEF AnswerOf
<1>2. FateOf' = FateOf
  <2>1. Ledger' = Ledger
    BY DEF Ledger
  <2> QED
    BY <2>1, FateIsLedger, FateIsLedgerNext
<1>3. LifeOf' = LifeOf
  BY DEF LifeOf
<1> QED
  BY <1>1, <1>2, <1>3 DEF ToZoho!vars

\* An answer is one of Acknowledge or Refuse.
LEMMA DeliveryAnswers ==
  ASSUME Kept, Kept', NEW j \in Jobs, NEW code,
         http[j] \in {"connected", "handling"},
         code \in {"ok200", "busy429", "denied401", "error500", "dropped"},
         Answer(j, code), UNCHANGED poolVars, srv' = srv, Alive
  PROVE  ToZoho!Acknowledge(j) \/ ToZoho!Refuse(j)
<1>1. FateOf' = FateOf /\ LifeOf' = LifeOf /\ LifeOf = "up"
  <2>1. Ledger' = Ledger
    BY DEF Ledger, poolVars
  <2>2. LifeOf' = LifeOf /\ LifeOf = "up"
    BY DEF LifeOf, Alive
  <2> QED
    BY <2>1, <2>2, FateIsLedger, FateIsLedgerNext
<1>2. AnswerOf[j] = "open"
  BY DEF AnswerOf
<1>3. /\ http'[j] = code
      /\ \A k \in Jobs : k # j => http'[k] = http[k]
  BY DEF Answer, Kept, TypeOK
<1>4. FateOf[j] = "none" <=> caller[j] # "accepted"
  BY Places, FateIsLedger DEF Ledger
<1>5. CASE code = "ok200"
  <2>1. AnswerOf' = [AnswerOf EXCEPT ![j] = "ok"]
    BY <1>3, <1>5 DEF AnswerOf
  <2>2. caller[j] = "accepted"
    BY <1>3, <1>5 DEF Kept, Answers, poolVars
  <2> QED
    BY <1>1, <1>2, <1>4, <2>1, <2>2 DEF ToZoho!Acknowledge
<1>6. CASE code # "ok200"
  <2>1. AnswerOf' = [AnswerOf EXCEPT ![j] = "refused"]
    BY <1>3, <1>6 DEF AnswerOf
  <2>2. caller[j] # "accepted"
    BY <1>3, <1>6 DEF Kept, Answers, poolVars
  <2> QED
    BY <1>1, <1>2, <1>4, <2>1, <2>2 DEF ToZoho!Refuse
<1> QED
  BY <1>5, <1>6

\* Dispatch takes the message or does nothing Zoho sees.
LEMMA DeliveryTakes ==
  ASSUME Kept, Kept', NEW j \in Jobs, Dispatch(j)
  PROVE  ToZoho!Take(j) \/ UNCHANGED ToZoho!vars
<1>1. /\ http[j] = "handling" /\ Alive /\ Alive'
      /\ UNCHANGED <<http, srv, late, result>>
      /\ caller[j] \in {"ready", "checked"}
      /\ \A k \in Jobs : k # j => caller'[k] = caller[k]
  BY DEF Dispatch, Alive, Pool!Dispatch, Pool!DispatchCheck, Pool!DispatchSend,
         Pool!DispatchFull, Pool!DispatchPanic, Kept, TypeOK, Pool!TypeOK
<1>2. result[j] = "none"
  BY <1>1, Places
<1>3. CASE caller'[j] = "accepted"
  <2>1. Ledger' = [Ledger EXCEPT ![j] = "taken"] /\ Ledger[j] = "none"
    BY <1>1, <1>2, <1>3 DEF Ledger
  <2>2. AnswerOf' = AnswerOf /\ AnswerOf[j] = "open"
    BY <1>1 DEF AnswerOf
  <2>3. LifeOf' = LifeOf /\ LifeOf = "up"
    BY <1>1 DEF LifeOf, Alive
  <2> QED
    BY <2>1, <2>2, <2>3, FateIsLedger, FateIsLedgerNext DEF ToZoho!Take
<1>4. CASE caller'[j] # "accepted"
  <2>1. Ledger' = Ledger
    BY <1>1, <1>4 DEF Ledger
  <2>2. AnswerOf' = AnswerOf /\ LifeOf' = LifeOf
    BY <1>1 DEF AnswerOf, LifeOf, Alive
  <2> QED
    BY <2>1, <2>2, FateIsLedger, FateIsLedgerNext DEF ToZoho!vars
<1> QED
  BY <1>3, <1>4

\* The return of a handler handles its message; a worker does nothing else.
LEMMA DeliveryHandles ==
  ASSUME Kept, Kept', NEW w \in Workers, Work(w)
  PROVE  (\E j \in Jobs : ToZoho!Handle(j)) \/ UNCHANGED ToZoho!vars
<1>1. UNCHANGED <<http, srv, caller>> /\ Alive /\ Alive'
  BY WorkAlone DEF Work, Alive
<1>2. CASE result' = result
  BY <1>1, <1>2, DeliveryStutters
<1>3. CASE result' # result
  <2>1. PICK r \in Pool!Outcomes : Pool!Return(w, r)
    BY <1>3 DEF Work, Pool!Work, Pool!Receive, Pool!Exit
  <2> DEFINE j == worker[w]
  <2>2. j \in Jobs /\ result' = [result EXCEPT ![j] = r] /\ r # "none"
    BY <2>1 DEF Pool!Return, Pool!Outcomes
  <2>3. j \in Range(worker)
    BY <2>2 DEF Range, Kept, TypeOK, Pool!TypeOK
  <2>4. caller[j] = "accepted" /\ result[j] = "none"
    BY <2>2, <2>3, Places
  <2>5. Ledger[j] = "taken" /\ Ledger' = [Ledger EXCEPT ![j] = "handled"]
    <3>1. DOMAIN result = Jobs
      BY DEF Kept, TypeOK, Pool!TypeOK
    <3>2. /\ result'[j] # "none"
          /\ \A k \in Jobs : k # j => result'[k] = result[k]
      BY <2>2, <3>1
    <3> HIDE DEF j
    <3> QED
      BY <1>1, <2>2, <2>4, <3>2 DEF Ledger
  <2>6. AnswerOf[j] # "refused"
    BY <2>2, <2>4 DEF AnswerOf, Kept, Answers, TypeOK
  <2>7. AnswerOf' = AnswerOf /\ LifeOf' = LifeOf /\ LifeOf = "up"
    BY <1>1 DEF AnswerOf, LifeOf, Alive
  <2> QED
    BY <2>2, <2>5, <2>6, <2>7, FateIsLedger, FateIsLedgerNext
     DEF ToZoho!Handle
<1> QED
  BY <1>2, <1>3

\* The end of the process: clean within the deadline, drained with the pool.
LEMMA DeliveryEnds ==
  ASSUME Kept, Kept', EndProcess \/ ServerError
  PROVE  \E how \in {"clean", "drained", "cut"} : ToZoho!End(how)
<1>1. /\ FateOf' = FateOf /\ AnswerOf' = AnswerOf
      /\ LifeOf = "up" /\ LifeOf' \in {"clean", "drained", "cut"}
  <2>1. UNCHANGED <<caller, result, http>>
    BY DEF EndProcess, ServerError, poolVars
  <2>2. Ledger' = Ledger /\ AnswerOf' = AnswerOf
    BY <2>1 DEF Ledger, AnswerOf
  <2>3. LifeOf = "up" /\ LifeOf' \in {"clean", "drained", "cut"}
    BY DEF LifeOf, Alive, EndProcess, ServerError
  <2> QED
    BY <2>2, <2>3, FateIsLedger, FateIsLedgerNext
<1>2. CASE LifeOf' = "cut"
  BY <1>1, <1>2 DEF ToZoho!End
<1>3. CASE LifeOf' \in {"clean", "drained"}
  <2>1. /\ EndProcess /\ stopper[Main] = "drained"
        /\ LifeOf' = "clean" => ~late
    BY <1>3 DEF LifeOf, Alive, EndProcess, ServerError, poolVars, Kept, Ordered,
                Past
  <2>2. \A j \in Jobs : caller[j] = "accepted" => result[j] # "none"
    BY <2>1 DEF Kept, PoolProofs!DrainedMeansDone
  <2>3. \A j \in Jobs : FateOf[j] # "taken"
    BY <2>2, FateIsLedger DEF Ledger
  <2>4. ASSUME LifeOf' = "clean", NEW j \in Jobs, FateOf[j] = "handled"
        PROVE  AnswerOf[j] = "ok"
    <3>1. caller[j] = "accepted"
      BY <2>4, Places, FateIsLedger DEF Ledger
    <3>2. http[j] \notin {"connected", "handling"}
      BY <2>1, <2>4 DEF Kept, Ordered, Past, EndProcess
    <3>3. http[j] = "ok200"
      BY <3>1, <3>2 DEF Kept, Answers, TypeOK
    <3> QED
      BY <3>3 DEF AnswerOf
  <2> QED
    BY <1>1, <1>3, <2>3, <2>4 DEF ToZoho!End
<1> QED
  BY <1>1, <1>2, <1>3

LEMMA DeliveryNext ==
  Kept /\ Kept' /\ [Next]_vars => [ToZoho!Next]_(ToZoho!vars)
<1> SUFFICES ASSUME Kept, Kept', [Next]_vars
             PROVE  [ToZoho!Next]_(ToZoho!vars)
  OBVIOUS
<1>1. ASSUME NEW j \in Jobs, Deliver(j)
      PROVE  [ToZoho!Next]_(ToZoho!vars)
  <2>1. CASE Dispatch(j)
    BY <2>1, DeliveryTakes DEF ToZoho!Next
  <2>2. CASE Connect(j) \/ Accept(j)
    <3>1. Alive /\ Alive' /\ UNCHANGED <<caller, result>>
      BY <2>2 DEF Connect, Accept, Alive, poolVars
    <3>2. /\ http[j] \in {"new", "connected"}
          /\ \E to \in {"connected", "handling"} : Answer(j, to)
      BY <2>2 DEF Connect, Accept
    <3> QED
      BY <3>1, <3>2, DeliveryStutters
  <2>3. CASE Deny(j) \/ Unreadable(j) \/ Reply(j) \/ DropConnection(j)
    <3>1. /\ Alive /\ srv' = srv /\ UNCHANGED poolVars
          /\ http[j] \in {"connected", "handling"}
          /\ \E code \in {"ok200", "busy429", "denied401", "error500", "dropped"} :
               Answer(j, code)
      BY <2>3 DEF Deny, Unreadable, Reply, DropConnection, Alive
    <3> QED
      BY <3>1, DeliveryAnswers DEF ToZoho!Next
  <2> QED
    BY <1>1, <2>1, <2>2, <2>3 DEF Deliver
<1>2. ASSUME NEW w \in Workers, Work(w)
      PROVE  [ToZoho!Next]_(ToZoho!vars)
  BY <1>2, DeliveryHandles DEF ToZoho!Next
<1>3. CASE MainStep
  <2>1. CASE EndProcess \/ ServerError
    BY <2>1, DeliveryEnds DEF ToZoho!Next
  <2>2. CASE Signal \/ Deadline \/ HttpStopped \/ HttpTimeout \/ ClosePool
               \/ PoolTimeout \/ Exit \/ CloseStore
    <3>1. UNCHANGED <<http, caller, result>> /\ Alive /\ Alive'
      BY <2>2 DEF Signal, Deadline, HttpStopped, HttpTimeout, ClosePool,
                  PoolTimeout, Exit, CloseStore, Pool!CloseClosed,
                  Pool!CloseJobs, Pool!Drained, Pool!ShutdownTimeout, poolVars,
                  Alive
    <3> QED
      BY <3>1, DeliveryStutters
  <2> QED
    BY <1>3, <2>1, <2>2 DEF MainStep
<1>4. CASE Terminated \/ UNCHANGED vars
  <2>1. AnswerOf' = AnswerOf /\ FateOf' = FateOf /\ LifeOf' = LifeOf
    <3>1. UNCHANGED vars
      BY <1>4 DEF Terminated
    <3>2. Range(queue)' = Range(queue) /\ Range(worker)' = Range(worker)
      BY <3>1 DEF vars, poolVars
    <3> QED
      BY <3>1, <3>2 DEF vars, poolVars, AnswerOf, FateOf, LifeOf, Alive
  <2> QED
    BY <2>1 DEF ToZoho!vars
<1> QED
  BY <1>1, <1>2, <1>3, <1>4 DEF Next

\* For any number of deliveries and workers, and wherever the signal, the
\* deadline or a server error falls, Zoho can rely on its answers.
THEOREM KeepsPromise == Spec => DeliversAsPromised
<1>1. Init => ToZoho!Init
  <2> SUFFICES ASSUME Init
               PROVE  ToZoho!Init
    OBVIOUS
  <2>1. AnswerOf = [j \in Jobs |-> "open"]
    BY DEF Init, AnswerOf
  <2>2. FateOf = [j \in Jobs |-> "none"]
    <3>1. ASSUME NEW j \in Jobs
          PROVE  /\ result[j] = "none"
                 /\ j \notin Range(queue) \cup Range(worker)
      BY ServerAssumption DEF Init, Pool!Init, Range
    <3> QED
      BY <3>1 DEF FateOf
  <2>3. LifeOf = "up"
    BY DEF Init, LifeOf, Alive
  <2> QED
    BY <2>1, <2>2, <2>3 DEF ToZoho!Init
<1> QED
  BY <1>1, DeliveryNext, KeptAlways, PTL DEF Spec, DeliversAsPromised, ToZoho!Spec
=============================================================================
