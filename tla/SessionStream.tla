---------------------------- MODULE SessionStream ----------------------------
(***************************************************************************)
(* The notices a user gets while the agent works: streamToolCalls of       *)
(* internal/handler/dispatcher.go with FindLatestSessionFile and           *)
(* TailToolCalls of internal/session/reader.go.                            *)
(*                                                                         *)
(* Per job there are two goroutines.  The tail reads the whole session     *)
(* file at each tick, picks the tool calls it has not seen and sends them  *)
(* on a bounded channel; the streamer receives them and posts each to      *)
(* Zoho.  The job's worker cancels both when Respond returns, and posts    *)
(* the reply.  OpenClaw appends to the files at any time (external), for a *)
(* request that was given up too.                                          *)
(***************************************************************************)
EXTENDS Naturals, Sequences, Functions

CONSTANTS Jobs,        \* runs of forward, a session reader being configured
          Addressed,   \* jobs whose payload has a sender_id
          Files,       \* *.jsonl session files that are no trajectories
          Sessions,    \* which file OpenClaw may write for each job
          IDs,         \* tool call IDs
          TEXT,        \* an entry that is no tool call of the assistant, or
                       \* the creation of the file, which is empty as yet
          LONG,        \* a line above the 2 MiB of the scanner's buffer
          Lines,       \* what the agent of each job may write
          NONE,        \* no file
          Capacity,    \* of toolNames: 16
          MaxTime,     \* bound of the clock
          MaxEntries   \* bound of the number of entries

ASSUME StreamAssumption ==
  /\ Addressed \subseteq Jobs
  /\ Sessions \subseteq [Jobs -> Files]
  /\ Lines \in [Jobs -> SUBSET (IDs \cup {TEXT, LONG})]
  /\ NONE \notin Files
  /\ TEXT \notin IDs /\ LONG \notin IDs
  /\ Capacity \in Nat \ {0}
  /\ MaxTime \in Nat /\ MaxEntries \in Nat

VARIABLES now,       \* the clock
          home,      \* job -> the file of its session
          log,       \* file -> its entries
          pc,        \* where forward is
          asked,     \* dispatchTime
          streamer,  \* the goroutine of streamToolCalls
          file,      \* sessionFile
          tail,      \* the goroutine of TailToolCalls
          seen,      \* IDs the tail has found
          batch,     \* what its scan returned and it has yet to send
          sent,      \* what it sent on toolNames, in order
          taken,     \* how many of these the streamer received
          late       \* history: notices that reached Zoho after the reply

vars == <<now, home, log, pc, asked, streamer, file, tail, seen, batch, sent,
          taken, late>>

Entry == [by : Jobs, id : IDs \cup {TEXT, LONG}, time : Nat]

\* A tool call is named by the position of its entry in the file.
TypeOK ==
  /\ now \in Nat
  /\ home \in Sessions
  /\ log \in [Files -> Seq(Entry)]
  /\ pc \in [Jobs -> {"idle", "responding", "returned", "replied"}]
  /\ asked \in [Jobs -> Nat]
  /\ streamer \in [Jobs -> {"off", "searching", "listening", "posting"}]
  /\ file \in [Jobs -> Files \cup {NONE}]
  /\ tail \in [Jobs -> BOOLEAN]
  /\ seen \in [Jobs -> SUBSET IDs]
  /\ batch \in [Jobs -> SUBSET Nat]
  /\ sent \in [Jobs -> Seq(Nat)]
  /\ taken \in [Jobs -> Nat]
  /\ late \in [Jobs -> Nat]
  /\ \A j \in Jobs :
       /\ taken[j] <= Len(sent[j]) /\ Len(sent[j]) <= taken[j] + Capacity
       /\ tail[j] \/ streamer[j] \in {"listening", "posting"} => file[j] # NONE

Init ==
  /\ now = 1
  /\ home \in Sessions
  /\ log = [f \in Files |-> <<>>]
  /\ pc = [j \in Jobs |-> "idle"]
  /\ asked = [j \in Jobs |-> 0]
  /\ streamer = [j \in Jobs |-> "off"]
  /\ file = [j \in Jobs |-> NONE]
  /\ tail = [j \in Jobs |-> FALSE]
  /\ seen = [j \in Jobs |-> {}]
  /\ batch = [j \in Jobs |-> {}]
  /\ sent = [j \in Jobs |-> <<>>]
  /\ taken = [j \in Jobs |-> 0]
  /\ late = [j \in Jobs |-> 0]

-----------------------------------------------------------------------------

\* toolCancel was called, or the deadline of the job ended Respond and toolCtx.
Cancelled(j) == pc[j] \in {"returned", "replied"}

\* What OpenClaw last wrote to a file gives its modification time.  A file
\* without an entry does not exist: its creation is one.
Modified(f) == IF log[f] = <<>> THEN 0 ELSE log[f][Len(log[f])].time

\* An entry of a file that scanToolCalls takes for a tool call of the request:
\* it comes before any line that is too long, and is later than dispatchTime.
VisibleIn(j, f, i) ==
  /\ i \in DOMAIN log[f]
  /\ log[f][i].id \in IDs
  /\ log[f][i].time > asked[j]
  /\ \A k \in 1..i : log[f][k].id # LONG

Visible(j, i) == file[j] # NONE /\ VisibleIn(j, file[j], i)

IDAt(j, i) == log[file[j]][i].id

(* Faulty variants, each a slip this code could have.  No specification     *)
(* uses them: they show which property tells each one from the real step.  *)

\* seen is not consulted.
FoundAgain(j) == {i \in DOMAIN log[file[j]] : Visible(j, i)}

\* The channel has no bound.
SendUnbounded(j) ==
  /\ tail[j] /\ batch[j] # {}
  /\ \E i \in batch[j] :
       /\ \A k \in batch[j] : i <= k
       /\ batch' = [batch EXCEPT ![j] = @ \ {i}]
       /\ sent' = [sent EXCEPT ![j] = Append(@, i)]
  /\ UNCHANGED <<now, home, log, pc, asked, streamer, file, tail, seen, taken,
                 late>>

\* A post after the cancellation has a context of its own.
TakeRegardless(j) ==
  /\ streamer[j] = "listening"
  /\ taken[j] < Len(sent[j])
  /\ taken' = [taken EXCEPT ![j] = @ + 1]
  /\ streamer' = [streamer EXCEPT ![j] = "posting"]
  /\ UNCHANGED <<now, home, log, pc, asked, file, tail, seen, batch, sent, late>>

\* "out <- name" without a select, as TailAssistantMessages has it.
TailStopsIdle(j) ==
  /\ tail[j]
  /\ Cancelled(j) /\ batch[j] = {}
  /\ tail' = [tail EXCEPT ![j] = FALSE]
  /\ UNCHANGED <<now, home, log, pc, asked, streamer, file, seen, batch, sent,
                 taken, late>>

\* The tail returns when it has sent what a scan found.
SendAndStop(j) ==
  /\ tail[j] /\ Len(sent[j]) < taken[j] + Capacity
  /\ \E i \in batch[j] :
       /\ \A k \in batch[j] : i <= k
       /\ batch' = [batch EXCEPT ![j] = @ \ {i}]
       /\ sent' = [sent EXCEPT ![j] = Append(@, i)]
  /\ tail' = [tail EXCEPT ![j] = batch'[j] # {}]
  /\ UNCHANGED <<now, home, log, pc, asked, streamer, file, seen, taken, late>>

-----------------------------------------------------------------------------
(* What the session reader finds *)

\* The second pass of FindLatestSessionFile; the first needs a session key and
\* the streamer gives none.  Files of one time are ordered by name, that is in
\* any way.
Latest(j) ==
  {f \in Files : /\ log[f] # <<>> /\ Modified(f) >= asked[j]
                 /\ \A g \in Files : Modified(g) <= Modified(f)}

\* The positions a scan returns: visible calls it has not seen, each ID once.
Found(j) ==
  {i \in DOMAIN log[file[j]] :
     /\ Visible(j, i) /\ IDAt(j, i) \notin seen[j]
     /\ \A k \in 1..(i - 1) : Visible(j, k) => IDAt(j, k) # IDAt(j, i)}

-----------------------------------------------------------------------------
(* The worker *)

\* forward sends the request and starts the streamer.  Jobs of one session are
\* jobs of one channel, and its lock lets one in at a time.
Start(j) ==
  /\ pc[j] = "idle"
  /\ \A k \in Jobs : home[k] = home[j] => pc[k] \in {"idle", "replied"}
  /\ pc' = [pc EXCEPT ![j] = "responding"]
  /\ asked' = [asked EXCEPT ![j] = now]
  /\ streamer' = IF j \in Addressed
                 THEN [streamer EXCEPT ![j] = "searching"] ELSE streamer
  /\ UNCHANGED <<now, home, log, file, tail, seen, batch, sent, taken, late>>

\* Respond returned; toolCancel.
Return(j) ==
  /\ pc[j] = "responding"
  /\ pc' = [pc EXCEPT ![j] = "returned"]
  /\ UNCHANGED <<now, home, log, asked, streamer, file, tail, seen, batch,
                 sent, taken, late>>

\* The reply is posted, or there is none, and the channel is free again.
Reply(j) ==
  /\ pc[j] = "returned"
  /\ pc' = [pc EXCEPT ![j] = "replied"]
  /\ UNCHANGED <<now, home, log, asked, streamer, file, tail, seen, batch,
                 sent, taken, late>>

-----------------------------------------------------------------------------
(* The streamer *)

\* A tick of findTicker: the file is there, and the tail is started on it.
FindFile(j) ==
  /\ streamer[j] = "searching"
  /\ \E f \in Latest(j) : file' = [file EXCEPT ![j] = f]
  /\ streamer' = [streamer EXCEPT ![j] = "listening"]
  /\ tail' = [tail EXCEPT ![j] = TRUE]
  /\ UNCHANGED <<now, home, log, pc, asked, seen, batch, sent, taken, late>>

\* Receive a name, which the select may also do after the cancellation: then
\* the post fails before it sends anything.
Take(j) ==
  /\ streamer[j] = "listening"
  /\ taken[j] < Len(sent[j])
  /\ taken' = [taken EXCEPT ![j] = @ + 1]
  /\ streamer' = [streamer EXCEPT ![j] = IF Cancelled(j) THEN @ ELSE "posting"]
  /\ UNCHANGED <<now, home, log, pc, asked, file, tail, seen, batch, sent, late>>

\* PostToChannel returns: Zoho took the notice, or the call failed and the
\* error is logged.
Posted(j) ==
  /\ streamer[j] = "posting"
  /\ streamer' = [streamer EXCEPT ![j] = "listening"]
  /\ \/ late' = IF pc[j] = "replied" THEN [late EXCEPT ![j] = @ + 1] ELSE late
     \/ UNCHANGED late
  /\ UNCHANGED <<now, home, log, pc, asked, file, tail, seen, batch, sent, taken>>

StreamerStop(j) ==
  /\ streamer[j] \in {"searching", "listening"}
  /\ Cancelled(j)
  /\ streamer' = [streamer EXCEPT ![j] = "off"]
  /\ UNCHANGED <<now, home, log, pc, asked, file, tail, seen, batch, sent,
                 taken, late>>

-----------------------------------------------------------------------------
(* The tail *)

\* A tick: scanToolCalls reads the file from its first line.
Scan(j) ==
  /\ tail[j] /\ batch[j] = {}
  /\ batch' = [batch EXCEPT ![j] = Found(j)]
  /\ seen' = [seen EXCEPT ![j] = @ \cup {IDAt(j, i) : i \in Found(j)}]
  /\ UNCHANGED <<now, home, log, pc, asked, streamer, file, tail, sent, taken,
                 late>>

\* Send the next of them, in the order of the file, when the channel has room.
Send(j) ==
  /\ tail[j] /\ Len(sent[j]) < taken[j] + Capacity
  /\ \E i \in batch[j] :
       /\ \A k \in batch[j] : i <= k
       /\ batch' = [batch EXCEPT ![j] = @ \ {i}]
       /\ sent' = [sent EXCEPT ![j] = Append(@, i)]
  /\ UNCHANGED <<now, home, log, pc, asked, streamer, file, tail, seen, taken,
                 late>>

\* ctx is done, between scans or while a send waits for room.
TailStop(j) ==
  /\ tail[j]
  /\ Cancelled(j)
  /\ tail' = [tail EXCEPT ![j] = FALSE]
  /\ batch' = [batch EXCEPT ![j] = {}]
  /\ UNCHANGED <<now, home, log, pc, asked, streamer, file, seen, sent, taken,
                 late>>

-----------------------------------------------------------------------------
(* The environment *)

Entries == FoldFunction(LAMBDA l, n : Len(l) + n, 0, log)

\* OpenClaw appends an entry for a request it was sent, awaited or not.  It may
\* write a call a second time.
Write(j) ==
  /\ pc[j] # "idle"
  /\ Entries < MaxEntries
  /\ \E x \in Lines[j] :
       log' = [log EXCEPT ![home[j]] =
                 Append(@, [by |-> j, id |-> x, time |-> now])]
  /\ UNCHANGED <<now, home, pc, asked, streamer, file, tail, seen, batch, sent,
                 taken, late>>

Tick ==
  /\ now < MaxTime
  /\ now' = now + 1
  /\ UNCHANGED <<home, log, pc, asked, streamer, file, tail, seen, batch, sent,
                 taken, late>>

-----------------------------------------------------------------------------

Worker(j) == Start(j) \/ Return(j) \/ Reply(j)
Streamer(j) == FindFile(j) \/ Take(j) \/ Posted(j) \/ StreamerStop(j)
TailStep(j) == Scan(j) \/ Send(j) \/ TailStop(j)

Terminated == (\A j \in Jobs : pc[j] = "replied") /\ UNCHANGED vars

Next ==
  \/ \E j \in Jobs : Worker(j) \/ Streamer(j) \/ TailStep(j) \/ Write(j)
  \/ Tick
  \/ Terminated

Spec == Init /\ [][Next]_vars

\* The goroutines run, their tickers tick and a post returns (the HTTP client
\* has a timeout).  OpenClaw need not write anything, and Respond may take as
\* long as it likes: no property waits for its deadline.
Fairness ==
  \A j \in Jobs :
    /\ WF_vars(FindFile(j))
    /\ WF_vars(Take(j) \/ Posted(j))
    /\ WF_vars(StreamerStop(j))
    /\ WF_vars(Scan(j) \/ Send(j))
    /\ WF_vars(TailStop(j))

FairSpec == Spec /\ Fairness

-----------------------------------------------------------------------------
(* Properties *)

\* What the tail has sent and what it holds: the calls the user is told of.
Told(j) == {sent[j][n] : n \in DOMAIN sent[j]} \cup batch[j]

InOrder(j) ==
  /\ \A m, n \in DOMAIN sent[j] : m < n => sent[j][m] < sent[j][n]
  /\ \A n \in DOMAIN sent[j], i \in batch[j] : sent[j][n] < i
  /\ \A i \in Told(j) : Visible(j, i)
  /\ \A i, k \in Told(j) : IDAt(j, i) = IDAt(j, k) => i = k
  /\ \A i \in Told(j) : \A k \in 1..i :
       Visible(j, k) => \E h \in Told(j) : h <= k /\ IDAt(j, h) = IDAt(j, k)

\* The user is told of each tool call once, in the order of the file, and none
\* is skipped: however the scans, which start over each time, fall between the
\* writes of OpenClaw, and however full the channel is.  Nothing from before
\* the request is told, though the file holds the whole conversation.
ToldOnceInOrder == \A j \in Jobs : InOrder(j)

\* Respond has returned and the streamer is told to stop before the reply is
\* posted, so at most the one notice under way comes after the reply.
OneLateNotice == \A j \in Jobs : late[j] <= 1

\* Neither goroutine outlives the request, also when one waits to send and the
\* other has stopped to receive.
GoroutinesEnd ==
  \A j \in Addressed : Cancelled(j) ~> streamer[j] = "off" /\ ~tail[j]

\* The streamer received the call of an entry.
Received(j, f, i) ==
  /\ file[j] = f /\ i \in DOMAIN log[f]
  /\ \E n \in 1..taken[j] : IDAt(j, sent[j][n]) = IDAt(j, i)

\* A call that the search and the scans can see is received by the streamer while
\* the request is open - unless the search settles on another file.
CallsAreTold ==
  \A j \in Addressed, f \in Files, i \in 1..MaxEntries :
    pc[j] = "responding" /\ file[j] \in {NONE, f} /\ VisibleIn(j, f, i) ~>
      Cancelled(j) \/ file[j] \notin {NONE, f} \/ Received(j, f, i)

\* "Each Zoho channel has its own isolated OpenClaw session key ..., so
\* conversations stay separate across channels" (README.md): a notice shows a
\* call of the session of the job's own channel.
OwnCallsOnly ==
  \A j \in Jobs : streamer[j] = "posting" =>
    home[log[file[j]][sent[j][taken[j]]].by] = home[j]
=============================================================================
