------------------------------- MODULE Server -------------------------------
(***************************************************************************)
(* The process around the worker pool: webhook deliveries over HTTP        *)
(* (internal/middleware/hmac.go and HandleZoho of                          *)
(* internal/handler/webhook.go) and the life of main in                    *)
(* cmd/server/main.go, from serving to the end of its graceful shutdown.   *)
(* One deadline bounds both parts of it, srv.Shutdown and pool.Shutdown.   *)
(***************************************************************************)
EXTENDS Naturals, Sequences, Functions, FiniteSets

CONSTANTS Jobs,        \* webhook deliveries, a job each once dispatched
          Workers, QueueDepth, Idle, Exited,   \* see WorkerPool
          Main         \* the one caller of pool.Shutdown

ASSUME ServerAssumption ==
  /\ Workers # {} /\ IsFiniteSet(Workers)
  /\ QueueDepth \in Nat \ {0}
  /\ Idle # Exited
  /\ Idle \notin Jobs
  /\ Exited \notin Jobs

VARIABLES caller, closed, jobsClosed, queue, worker, result, stopper,
          accepted, started,   \* see WorkerPool
          http,                \* where a delivery is, or how it was answered
          srv,                 \* where main is
          late                 \* shutdownCtx is past its deadline

Pool == INSTANCE WorkerPool WITH Stoppers <- {Main}

poolVars == <<caller, closed, jobsClosed, queue, worker, result, stopper,
              accepted, started>>
vars == <<poolVars, http, srv, late>>

TypeOK ==
  /\ Pool!TypeOK
  /\ http \in [Jobs -> {"new", "connected", "handling", "ok200", "busy429",
                        "denied401", "error500", "dropped"}]
  /\ srv \in {"serving", "stopping", "draining", "returning", "storeClosed",
              "exited", "aborted"}
  /\ late \in BOOLEAN

Init ==
  /\ Pool!Init
  /\ http = [j \in Jobs |-> "new"]
  /\ srv = "serving"
  /\ late = FALSE

\* The goroutines of the process run until main has returned, its deferred calls
\* included, or calls os.Exit.
Alive == srv \notin {"exited", "aborted"}

Answer(j, code) == http' = [http EXCEPT ![j] = code]

-----------------------------------------------------------------------------
(* Faulty variants, each a slip this code could have.  No specification     *)
(* uses them: they show which property tells each one from the real step.  *)

\* pool.Shutdown does not wait for srv.Shutdown.
StopWithoutWaiting ==
  /\ srv = "stopping"
  /\ srv' = "draining"
  /\ UNCHANGED <<poolVars, http, late>>

\* A refused job is answered with the 200 Zoho expects.
ReplyAlwaysOK(j) ==
  /\ Alive
  /\ http[j] = "handling"
  /\ caller[j] \notin {"ready", "checked"}
  /\ Answer(j, "ok200")
  /\ UNCHANGED <<poolVars, srv, late>>

\* srv.Shutdown gets a context without a deadline.
HttpWaitsForever ==
  /\ srv = "stopping"
  /\ late
  /\ \A j \in Jobs : http[j] \notin {"connected", "handling"}
  /\ srv' = "draining"
  /\ UNCHANGED <<poolVars, http, late>>

\* pool.Shutdown is started in a goroutine of its own.
ExitWithoutPool ==
  /\ srv = "draining"
  /\ srv' = "returning"
  /\ UNCHANGED <<poolVars, http, late>>

-----------------------------------------------------------------------------
(* A delivery *)

\* The listener accepts connections until srv.Shutdown closes it.
Connect(j) ==
  /\ srv = "serving"
  /\ http[j] = "new"
  /\ Answer(j, "connected")
  /\ UNCHANGED <<poolVars, srv, late>>

\* ZohoHMAC: no token, or not the shared one.
Deny(j) ==
  /\ Alive
  /\ http[j] = "connected"
  /\ Answer(j, "denied401")
  /\ UNCHANGED <<poolVars, srv, late>>

\* The body cannot be read, by the middleware or by HandleZoho.
Unreadable(j) ==
  /\ Alive
  /\ http[j] = "connected"
  /\ Answer(j, "error500")
  /\ UNCHANGED <<poolVars, srv, late>>

\* HandleZoho has the body and goes on to dispatch the job, which it does
\* whether or not the payload decodes.
Accept(j) ==
  /\ Alive
  /\ http[j] = "connected"
  /\ Answer(j, "handling")
  /\ UNCHANGED <<poolVars, srv, late>>

Dispatch(j) ==
  /\ Alive
  /\ http[j] = "handling"
  /\ Pool!Dispatch(j)
  /\ UNCHANGED <<http, srv, late>>

\* Dispatch returned nil, returned an error, or panicked into chi's Recoverer.
Reply(j) ==
  /\ Alive
  /\ http[j] = "handling"
  /\ \/ caller[j] = "accepted" /\ Answer(j, "ok200")
     \/ caller[j] \in {"full", "closed"} /\ Answer(j, "busy429")
     \/ caller[j] = "panicked" /\ Answer(j, "error500")
  /\ UNCHANGED <<poolVars, srv, late>>

\* srv.Shutdown closes connections on which no request has begun.
DropConnection(j) ==
  /\ srv = "stopping"
  /\ http[j] = "connected"
  /\ Answer(j, "dropped")
  /\ UNCHANGED <<poolVars, srv, late>>

-----------------------------------------------------------------------------
(* main *)

\* ListenAndServe failed: os.Exit(1), without any shutdown.
ServerError ==
  /\ srv = "serving"
  /\ srv' = "aborted"
  /\ UNCHANGED <<poolVars, http, late>>

\* SIGINT or SIGTERM.
Signal ==
  /\ srv = "serving"
  /\ srv' = "stopping"
  /\ UNCHANGED <<poolVars, http, late>>

Deadline ==
  /\ srv \in {"stopping", "draining"}
  /\ ~late
  /\ late' = TRUE
  /\ UNCHANGED <<poolVars, http, srv>>

\* srv.Shutdown returned because every connection is idle or gone ...
HttpStopped ==
  /\ srv = "stopping"
  /\ \A j \in Jobs : http[j] \notin {"connected", "handling"}
  /\ srv' = "draining"
  /\ UNCHANGED <<poolVars, http, late>>

\* ... or because the deadline passed: its error is logged, handlers run on.
HttpTimeout ==
  /\ srv = "stopping"
  /\ late
  /\ srv' = "draining"
  /\ UNCHANGED <<poolVars, http, late>>

\* pool.Shutdown(shutdownCtx).
ClosePool ==
  /\ srv = "draining"
  /\ Pool!CloseClosed(Main) \/ Pool!CloseJobs(Main) \/ Pool!Drained(Main)
  /\ UNCHANGED <<http, srv, late>>

PoolTimeout ==
  /\ srv = "draining"
  /\ late
  /\ Pool!ShutdownTimeout(Main)
  /\ UNCHANGED <<http, srv, late>>

\* "server stopped cleanly", and main returns ...
Exit ==
  /\ srv = "draining"
  /\ stopper[Main] \in {"drained", "timedout"}
  /\ srv' = "returning"
  /\ UNCHANGED <<poolVars, http, late>>

\* ... through the deferred tokenStore.Close ...
CloseStore ==
  /\ srv = "returning"
  /\ srv' = "storeClosed"
  /\ UNCHANGED <<poolVars, http, late>>

\* ... and with it the process ends, whatever its goroutines are doing.
EndProcess ==
  /\ srv = "storeClosed"
  /\ srv' = "exited"
  /\ UNCHANGED <<poolVars, http, late>>

Work(w) ==
  /\ Alive
  /\ Pool!Work(w)
  /\ UNCHANGED <<http, srv, late>>

-----------------------------------------------------------------------------

Deliver(j) ==
  \/ Connect(j) \/ Deny(j) \/ Unreadable(j) \/ Accept(j) \/ Dispatch(j)
  \/ Reply(j) \/ DropConnection(j)

MainStep ==
  \/ ServerError \/ Signal \/ Deadline \/ HttpStopped \/ HttpTimeout
  \/ ClosePool \/ PoolTimeout \/ Exit \/ CloseStore \/ EndProcess

Terminated == ~Alive /\ UNCHANGED vars

Next ==
  \/ \E j \in Jobs : Deliver(j)
  \/ \E w \in Workers : Work(w)
  \/ MainStep
  \/ Terminated

Spec == Init /\ [][Next]_vars

\* Goroutines with a step to take take it and the shutdown deadline passes.
\* A shutdown signal need not come, nor a server error; a handler of a job
\* returns, by the deadline of its own context (module Dispatcher).
Fairness ==
  /\ \A w \in Workers : WF_vars(Work(w))
  /\ \A j \in Jobs : WF_vars(Reply(j) \/ Dispatch(j))
  /\ WF_vars(Deadline)
  /\ WF_vars(HttpStopped \/ HttpTimeout)
  /\ WF_vars(ClosePool \/ PoolTimeout)
  /\ WF_vars(Exit \/ CloseStore \/ EndProcess)

FairSpec == Spec /\ Fairness

-----------------------------------------------------------------------------
(* Properties *)

\* What Zoho is told is what becomes of the job: 200 for a job the pool owns,
\* and any other answer - or none - only for one that no worker will ever see,
\* so that a delivery repeated after an error runs once.
TruthfulReply ==
  \A j \in Jobs :
    /\ http[j] = "ok200" => caller[j] = "accepted"
    /\ http[j] \notin {"ok200", "handling"} =>
         j \notin Range(queue) \cup Range(worker) /\ result[j] = "none"

\* The bridge keeps what module Delivery promises Zoho: an answer is final, a
\* delivery that was not acknowledged does not run after its answer, and a
\* shutdown ends with what was taken handled - and acknowledged, within the
\* deadline.
AnswerOf == [j \in Jobs |-> CASE http[j] = "ok200" -> "ok"
                             [] http[j] \in {"new", "connected", "handling"} -> "open"
                             [] OTHER -> "refused"]

FateOf == [j \in Jobs |-> CASE result[j] # "none" -> "handled"
                           [] j \in Range(queue) \cup Range(worker) -> "taken"
                           [] OTHER -> "none"]

LifeOf == CASE Alive -> "up"
            [] srv = "exited" /\ ~late -> "clean"
            [] srv = "exited" /\ late /\ stopper[Main] = "drained" -> "drained"
            [] OTHER -> "cut"

ToZoho == INSTANCE Delivery
  WITH answer <- AnswerOf, fate <- FateOf, life <- LifeOf

DeliversAsPromised == ToZoho!Spec

\* Dispatch can panic on the closed channel only when handlers outlived
\* srv.Shutdown: as long as it returns in time the two are kept apart.
PanicOnlyAfterDeadline == (\E j \in Jobs : caller[j] = "panicked") => late

\* A shutdown within its deadline loses nothing: every delivery that got a
\* connection was answered and every job answered with 200 has been handled.
\* A drained pool has kept the promise also past the deadline.
ShutdownLosesNothing ==
  srv = "exited" =>
    /\ ~late => \A j \in Jobs : http[j] \notin {"connected", "handling"}
    /\ ~late \/ stopper[Main] = "drained" =>
         \A j \in Jobs : http[j] = "ok200" => result[j] # "none"

\* Jobs fetch Zoho's token from the store and the OAuth callback saves one there:
\* within the deadline the store is closed only when no request and no job is
\* left to find it closed, and a drained pool has no job left at any time.
StoreOutlivesItsUsers ==
  srv = "storeClosed" =>
    /\ ~late => \A j \in Jobs : http[j] \notin {"connected", "handling"}
    /\ ~late \/ stopper[Main] = "drained" => \A w \in Workers : worker[w] = Exited

\* After the signal main ends, whatever handlers and workers do.
ShutdownEnds == srv = "stopping" ~> srv = "exited"

\* A delivery answered with 200 is handled unless the process ends first.
AcknowledgedIsHandled ==
  \A j \in Jobs : http[j] = "ok200" ~> result[j] # "none" \/ ~Alive
=============================================================================
