----------------------------- MODULE WorkerPool -----------------------------
(***************************************************************************)
(* The worker pool of internal/worker/pool.go: a buffered channel of jobs, *)
(* a fixed set of goroutines that drain it, and Shutdown.                  *)
(*                                                                         *)
(* A step is one channel operation of the code: Dispatch is two selects    *)
(* and Shutdown two closes, and other goroutines run between them.  Each   *)
(* job is one call of Dispatch, on a goroutine of its own.                 *)
(***************************************************************************)
EXTENDS Naturals, Sequences, Functions, FiniteSets

CONSTANTS Jobs,        \* calls of Dispatch, each with its own job
          Workers,     \* worker goroutines started by New
          QueueDepth,  \* capacity of the job channel
          Stoppers,    \* calls of Shutdown
          Idle,        \* worker state: blocked in "range p.jobs"
          Exited       \* worker state: returned, wg.Done called

\* config.envInt turns a worker count or a queue depth below 1 into its default.
ASSUME PoolAssumption ==
  /\ Workers # {} /\ IsFiniteSet(Workers)
  /\ QueueDepth \in Nat \ {0}
  /\ Idle # Exited
  /\ Idle \notin Jobs
  /\ Exited \notin Jobs

VARIABLES caller,      \* where the Dispatch call of a job is, or how it ended
          closed,      \* the channel p.closed is closed
          jobsClosed,  \* the channel p.jobs is closed
          queue,       \* the buffer of p.jobs
          worker,      \* the job a worker runs, Idle or Exited
          result,      \* how the handler ended for a job, "none" before that
          stopper,     \* where a Shutdown call is, or how it ended
          accepted,    \* history: jobs Dispatch returned nil for, in order
          started      \* history: jobs taken by workers, in order

vars == <<caller, closed, jobsClosed, queue, worker, result, stopper,
          accepted, started>>

TypeOK ==
  /\ caller \in [Jobs -> {"ready", "checked", "accepted", "full", "closed",
                          "panicked"}]
  /\ closed \in BOOLEAN
  /\ jobsClosed \in BOOLEAN
  /\ queue \in Seq(Jobs)
  /\ Len(queue) <= QueueDepth
  /\ worker \in [Workers -> Jobs \cup {Idle, Exited}]
  /\ result \in [Jobs -> {"none", "ok", "error", "panic"}]
  /\ stopper \in [Stoppers -> {"ready", "closing", "waiting", "drained",
                               "timedout"}]
  /\ accepted \in Seq(Jobs)
  /\ started \in Seq(Jobs)

Init ==
  /\ caller = [j \in Jobs |-> "ready"]
  /\ closed = FALSE
  /\ jobsClosed = FALSE
  /\ queue = <<>>
  /\ worker = [w \in Workers |-> Idle]
  /\ result = [j \in Jobs |-> "none"]
  /\ stopper = [s \in Stoppers |-> "ready"]
  /\ accepted = <<>>
  /\ started = <<>>

-----------------------------------------------------------------------------
(* Faulty variants, each a slip this code could have.  No specification     *)
(* uses them: they show which property tells each one from the real step.  *)

\* The room in the channel is not looked at.
SendUnbounded(j) ==
  /\ caller[j] = "checked"
  /\ ~jobsClosed
  /\ caller' = [caller EXCEPT ![j] = "accepted"]
  /\ queue' = Append(queue, j)
  /\ accepted' = Append(accepted, j)
  /\ UNCHANGED <<closed, jobsClosed, worker, result, stopper, started>>

\* The default case of the second select returns nil.
FullIsNil(j) ==
  /\ caller[j] = "checked"
  /\ ~jobsClosed
  /\ Len(queue) >= QueueDepth
  /\ caller' = [caller EXCEPT ![j] = "accepted"]
  /\ UNCHANGED <<closed, jobsClosed, queue, worker, result, stopper, accepted,
                 started>>

\* Shutdown forgets to close p.jobs.
CloseNothing(s) ==
  /\ stopper[s] = "closing"
  /\ stopper' = [stopper EXCEPT ![s] = "waiting"]
  /\ UNCHANGED <<caller, closed, jobsClosed, queue, worker, result, accepted,
                 started>>

\* The newest job first.
ReceiveLast(w) ==
  /\ worker[w] = Idle
  /\ queue # <<>>
  /\ worker' = [worker EXCEPT ![w] = queue[Len(queue)]]
  /\ queue' = SubSeq(queue, 1, Len(queue) - 1)
  /\ started' = Append(started, queue[Len(queue)])
  /\ UNCHANGED <<caller, closed, jobsClosed, result, stopper, accepted>>

\* No recover: a panic of the handler ends the goroutine.
ReturnNoRecover(w, r) ==
  /\ worker[w] \in Jobs
  /\ result' = [result EXCEPT ![worker[w]] = r]
  /\ worker' = [worker EXCEPT ![w] = IF r = "panic" THEN Exited ELSE Idle]
  /\ UNCHANGED <<caller, closed, jobsClosed, queue, stopper, accepted, started>>

\* A worker stops at the close without draining the channel.
ExitEarly(w) ==
  /\ worker[w] = Idle
  /\ jobsClosed
  /\ worker' = [worker EXCEPT ![w] = Exited]
  /\ UNCHANGED <<caller, closed, jobsClosed, queue, result, stopper, accepted,
                 started>>

-----------------------------------------------------------------------------
(* Dispatch *)

\* The first select: is the pool closed?
DispatchCheck(j) ==
  /\ caller[j] = "ready"
  /\ caller' = [caller EXCEPT ![j] = IF closed THEN "closed" ELSE "checked"]
  /\ UNCHANGED <<closed, jobsClosed, queue, worker, result, stopper, accepted,
                 started>>

\* The second select, on an open channel with room.
DispatchSend(j) ==
  /\ caller[j] = "checked"
  /\ ~jobsClosed
  /\ Len(queue) < QueueDepth
  /\ caller' = [caller EXCEPT ![j] = "accepted"]
  /\ queue' = Append(queue, j)
  /\ accepted' = Append(accepted, j)
  /\ UNCHANGED <<closed, jobsClosed, worker, result, stopper, started>>

\* The second select, on an open channel without room.
DispatchFull(j) ==
  /\ caller[j] = "checked"
  /\ ~jobsClosed
  /\ Len(queue) >= QueueDepth
  /\ caller' = [caller EXCEPT ![j] = "full"]
  /\ UNCHANGED <<closed, jobsClosed, queue, worker, result, stopper, accepted,
                 started>>

\* The second select, on a channel closed since the first: a send panics.
DispatchPanic(j) ==
  /\ caller[j] = "checked"
  /\ jobsClosed
  /\ caller' = [caller EXCEPT ![j] = "panicked"]
  /\ UNCHANGED <<closed, jobsClosed, queue, worker, result, stopper, accepted,
                 started>>

-----------------------------------------------------------------------------
(* Shutdown *)

\* closeOnce.Do: the first call closes p.closed ...
CloseClosed(s) ==
  /\ stopper[s] = "ready"
  /\ ~closed
  /\ closed' = TRUE
  /\ stopper' = [stopper EXCEPT ![s] = "closing"]
  /\ UNCHANGED <<caller, jobsClosed, queue, worker, result, accepted, started>>

\* ... and then p.jobs.
CloseJobs(s) ==
  /\ stopper[s] = "closing"
  /\ jobsClosed' = TRUE
  /\ stopper' = [stopper EXCEPT ![s] = "waiting"]
  /\ UNCHANGED <<caller, closed, queue, worker, result, accepted, started>>

\* A later call returns from closeOnce.Do once the first is through it.
JoinShutdown(s) ==
  /\ stopper[s] = "ready"
  /\ jobsClosed
  /\ stopper' = [stopper EXCEPT ![s] = "waiting"]
  /\ UNCHANGED <<caller, closed, jobsClosed, queue, worker, result, accepted,
                 started>>

\* wg.Wait returned and the select takes its first case.
Drained(s) ==
  /\ stopper[s] = "waiting"
  /\ \A w \in Workers : worker[w] = Exited
  /\ stopper' = [stopper EXCEPT ![s] = "drained"]
  /\ UNCHANGED <<caller, closed, jobsClosed, queue, worker, result, accepted,
                 started>>

\* The caller's context expired; with both cases ready the select may take
\* either.
ShutdownTimeout(s) ==
  /\ stopper[s] = "waiting"
  /\ stopper' = [stopper EXCEPT ![s] = "timedout"]
  /\ UNCHANGED <<caller, closed, jobsClosed, queue, worker, result, accepted,
                 started>>

-----------------------------------------------------------------------------
(* runWorker and processWithRecovery *)

\* "range p.jobs" yields the job at the head; a closed channel still does.
Receive(w) ==
  /\ worker[w] = Idle
  /\ queue # <<>>
  /\ worker' = [worker EXCEPT ![w] = Head(queue)]
  /\ queue' = Tail(queue)
  /\ started' = Append(started, Head(queue))
  /\ UNCHANGED <<caller, closed, jobsClosed, result, stopper, accepted>>

\* The handler returned nil or an error, or panicked and was recovered: the
\* goroutine goes back to the channel in each case.
Return(w, r) ==
  /\ worker[w] \in Jobs
  /\ result' = [result EXCEPT ![worker[w]] = r]
  /\ worker' = [worker EXCEPT ![w] = Idle]
  /\ UNCHANGED <<caller, closed, jobsClosed, queue, stopper, accepted, started>>

\* "range p.jobs" ends: the channel is closed and empty.
Exit(w) ==
  /\ worker[w] = Idle
  /\ jobsClosed
  /\ queue = <<>>
  /\ worker' = [worker EXCEPT ![w] = Exited]
  /\ UNCHANGED <<caller, closed, jobsClosed, queue, result, stopper, accepted,
                 started>>

-----------------------------------------------------------------------------

Dispatch(j) ==
  DispatchCheck(j) \/ DispatchSend(j) \/ DispatchFull(j) \/ DispatchPanic(j)

Shutdown(s) ==
  \/ CloseClosed(s) \/ CloseJobs(s) \/ JoinShutdown(s)
  \/ Drained(s) \/ ShutdownTimeout(s)

Outcomes == {"ok", "error", "panic"}

Work(w) == Receive(w) \/ (\E r \in Outcomes : Return(w, r)) \/ Exit(w)

\* Nothing is left to do: every call returned and every worker is gone.
Terminated ==
  /\ \A j \in Jobs : caller[j] \notin {"ready", "checked"}
  /\ \A s \in Stoppers : stopper[s] \in {"drained", "timedout"}
  /\ \A w \in Workers : worker[w] = Exited
  /\ UNCHANGED vars

Next ==
  \/ \E j \in Jobs : Dispatch(j)
  \/ \E s \in Stoppers : Shutdown(s)
  \/ \E w \in Workers : Work(w)
  \/ Terminated

Spec == Init /\ [][Next]_vars

\* Runnable goroutines run: a worker with a job to take, a handler (its context
\* has a deadline) and the worker loop's end; a Shutdown call once it is past
\* its first close, and the return of wg.Wait.  Nothing is said of when, or
\* whether, Dispatch or Shutdown is called or a shutdown deadline expires.
Fairness ==
  /\ \A w \in Workers : WF_vars(Work(w))
  /\ \A s \in Stoppers : WF_vars(CloseJobs(s)) /\ WF_vars(Drained(s))

FairSpec == Spec /\ Fairness

-----------------------------------------------------------------------------
(* Properties *)

Queued == Range(queue)
Running == Range(worker) \cap Jobs

\* The channel hands jobs over in the order Dispatch accepted them, with none
\* lost, doubled or overtaken, whatever Shutdown does meanwhile.
AcceptedOrder == accepted = started \o queue

\* An accepted job is in exactly one place - waiting in the channel once, run
\* by one worker, or finished - and a refused one is nowhere: the error a
\* caller gets means that no handler will see the job.
ExactlyOnce ==
  /\ IsInjective(queue)
  /\ \A v, w \in Workers : worker[v] \in Jobs /\ worker[v] = worker[w] => v = w
  /\ \A j \in Jobs :
       /\ caller[j] = "accepted" <=>
            j \in Queued \/ j \in Running \/ result[j] # "none"
       /\ ~(j \in Queued /\ j \in Running)
       /\ result[j] # "none" => j \notin Queued \cup Running

\* "worker pool drained cleanly" is logged only when every accepted job has
\* been handled.
DrainedMeansDone ==
  (\E s \in Stoppers : stopper[s] = "drained") =>
    \A j \in Jobs : caller[j] = "accepted" => result[j] # "none"

\* To its callers the pool is the queue of module JobQueue: at most as many jobs
\* as there are workers are served at a time, in the order they were accepted; a
\* refusal is final and needs a full channel or a shutdown that has begun; a
\* shutdown reports a clean end only with nothing left in the queue or at work.
StatusOf == [j \in Jobs |->
  IF caller[j] \in {"ready", "checked"} THEN "new"
  ELSE IF caller[j] # "accepted" THEN "refused"
  ELSE IF result[j] # "none" THEN "done"
  ELSE IF j \in Running THEN "served" ELSE "taken"]

GateOf == IF jobsClosed THEN "closed" ELSE IF closed THEN "closing" ELSE "open"

DrainedOf == \E s \in Stoppers : stopper[s] = "drained"

Queue == INSTANCE JobQueue
  WITH Depth <- QueueDepth, Limit <- Cardinality(Workers), waiting <- queue,
       status <- StatusOf, gate <- GateOf, drained <- DrainedOf

ServesAsQueue == Queue!Spec

\* A job that Dispatch accepted is handled in the end, also when Shutdown is
\* called, in any number of calls, with the job still queued.
AcceptedIsHandled ==
  \A j \in Jobs : caller[j] = "accepted" ~> result[j] # "none"

\* Every call of Shutdown that got into closeOnce.Do, or past it, returns, even
\* when its context never expires.  One that is still held up by closeOnce.Do
\* waits for the call that is in it, and so for the same progress.
ShutdownReturns ==
  \A s \in Stoppers :
    stopper[s] \in {"closing", "waiting"} ~> stopper[s] \in {"drained", "timedout"}

\* "safe for concurrent use. Jobs submitted after Shutdown() is called are
\* dropped" (pool.go, the comment on Pool): no call of Dispatch panics.
DispatchNeverPanics == \A j \in Jobs : caller[j] # "panicked"
=============================================================================
