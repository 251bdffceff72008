----------------------------- MODULE Dispatcher -----------------------------
(***************************************************************************)
(* Dispatcher.Dispatch of internal/handler/dispatcher.go, run for several  *)
(* jobs at once by the worker pool: the lock of each Zoho channel, the     *)
(* thread of response IDs behind it, the call to the OpenClaw gateway, the *)
(* streamer goroutine beside it and the delivery of the reply.             *)
(*                                                                         *)
(* A response ID is named by the job whose request it answers.  The        *)
(* gateway and Zoho are outside the repository: they may answer or fail at *)
(* any time, and the gateway may finish a request nobody waits for.        *)
(***************************************************************************)
EXTENDS Naturals, Sequences, Functions

CONSTANTS Jobs,       \* jobs, one run of Dispatch each
          Loads,      \* the sets of jobs that may come together
          Channels,   \* Zoho channel IDs
          ChannelOf,  \* job -> the channel its payload names
          KindOf,     \* job -> "text", "file", or "raw" if it does not parse
          Addressed,  \* jobs whose payload has a sender_id
          Replies,    \* what Respond may return, see ReplyType
          NONE        \* no job, no response ID

Items == {"summary", "text", "file"}

\* hasID: an event of the stream carried a response ID.  items: what
\* deliverResult finds to post - the tool summary, the text of the reply and
\* the file its tag names - in this order.
ReplyType == [hasID : BOOLEAN, items : Seq(Items)]

ASSUME DispatcherAssumption ==
  /\ ChannelOf \in [Jobs -> Channels]
  /\ KindOf \in [Jobs -> {"text", "file", "raw"}]
  /\ Addressed \subseteq Jobs
  /\ Loads \subseteq SUBSET Jobs
  /\ Replies \subseteq ReplyType
  /\ NONE \notin Jobs

VARIABLES config,    \* optional settings present when the process started, and
                    \* the jobs it is given
          up,        \* the process runs
          pc,        \* where the run of Dispatch for a job is, or its outcome
          expired,   \* the job's context is past its deadline
          lock,      \* channelLocks: channel -> the job in it, or NONE
          thread,    \* channelResponseIDs: channel -> last response ID
          prev,      \* PrevResponseID sent with the request of a job
          linked,    \* the response ID of the job was stored in thread
          todo,      \* what deliverResult has yet to post for the job
          posted,    \* history: channel -> the job of each post Zoho took, sent to
                    \* the job's sender by the bot
          gateway,   \* the job's request at the gateway (external)
          streamer   \* the streamToolCalls goroutine of the job

vars == <<config, up, pc, expired, lock, thread, prev, linked, todo, posted,
          gateway, streamer>>

Returned == {"ok", "error", "panic"}
Inside == {"locked", "token", "download", "responding", "delivering"}

Configs ==
  [webhook : BOOLEAN, workspace : BOOLEAN, agents : BOOLEAN, jobs : Loads]

TypeOK ==
  /\ config \in Configs
  /\ up \in BOOLEAN
  /\ pc \in [Jobs -> {"idle", "queued"} \cup Inside \cup Returned]
  /\ expired \in [Jobs -> BOOLEAN]
  /\ lock \in [Channels -> Jobs \cup {NONE}]
  /\ thread \in [Channels -> Jobs \cup {NONE}]
  /\ prev \in [Jobs -> Jobs \cup {NONE}]
  /\ linked \in [Jobs -> BOOLEAN]
  /\ todo \in [Jobs -> Seq(Items)]
  /\ posted \in [Channels -> Seq(Jobs)]
  /\ gateway \in [Jobs -> {"none", "working", "done"}]
  /\ streamer \in [Jobs -> {"off", "searching", "tailing"}]
  /\ \A j \in Jobs : streamer[j] # "off" => config.agents /\ j \in Addressed

\* Every setting is optional.  Without ZOHO_REPLY_WEBHOOK_URL main passes a nil
\* *zoho.Sender as the ZohoSender interface.
Init ==
  /\ config \in Configs
  /\ up = TRUE
  /\ pc = [j \in Jobs |-> "idle"]
  /\ expired = [j \in Jobs |-> FALSE]
  /\ lock = [c \in Channels |-> NONE]
  /\ thread = [c \in Channels |-> NONE]
  /\ prev = [j \in Jobs |-> NONE]
  /\ linked = [j \in Jobs |-> FALSE]
  /\ todo = [j \in Jobs |-> <<>>]
  /\ posted = [c \in Channels |-> <<>>]
  /\ gateway = [j \in Jobs |-> "none"]
  /\ streamer = [j \in Jobs |-> "off"]

-----------------------------------------------------------------------------

Goto(j, where) == pc' = [pc EXCEPT ![j] = where]

\* Return from Dispatch: the deferred release frees the channel on each way
\* out, a panic's included.  A raw payload never took a lock.
Leave(j, outcome) ==
  /\ Goto(j, outcome)
  /\ lock' = IF KindOf[j] = "raw" THEN lock
             ELSE [lock EXCEPT ![ChannelOf[j]] = NONE]

(* Faulty variants, each a slip this code could have.  No specification     *)
(* uses them: they show which property tells each one from the real step.  *)

\* The lock lets a second job in.
AcquireBusy(j) ==
  /\ up
  /\ j \in config.jobs /\ pc[j] \in {"idle", "queued"} /\ KindOf[j] # "raw"
  /\ lock' = [lock EXCEPT ![ChannelOf[j]] = j]
  /\ Goto(j, "locked")
  /\ UNCHANGED <<config, up, expired, thread, prev, linked, todo, posted,
                 gateway, streamer>>

\* "defer release()" stands before the check of acquireChannel's error.
GiveUpReleases(j) ==
  /\ up
  /\ pc[j] = "queued"
  /\ expired[j]
  /\ Leave(j, "error")
  /\ UNCHANGED <<config, up, expired, thread, prev, linked, todo, posted,
                 gateway, streamer>>

\* A streamer is started without a session reader.
ForwardStreams(j) ==
  /\ up
  /\ pc[j] = "locked" /\ KindOf[j] = "text"
  /\ prev' = [prev EXCEPT ![j] = thread[ChannelOf[j]]]
  /\ streamer' = [streamer EXCEPT ![j] = "searching"]
  /\ gateway' = [gateway EXCEPT ![j] = "working"]
  /\ Goto(j, "responding")
  /\ UNCHANGED <<config, up, expired, lock, thread, linked, todo, posted>>

\* Respond has no deadline.
FailBeforeRespond(j) ==
  /\ up
  /\ pc[j] \in {"token", "download"}
  /\ Leave(j, "error")
  /\ UNCHANGED <<config, up, expired, thread, prev, linked, todo, posted,
                 gateway, streamer>>

\* The channel is released before the reply is delivered.
TakeReplyReleases(j) ==
  /\ up
  /\ pc[j] = "responding" /\ KindOf[j] # "raw"
  /\ gateway[j] = "done"
  /\ \E r \in Replies :
       /\ thread' = IF r.hasID THEN [thread EXCEPT ![ChannelOf[j]] = j]
                    ELSE thread
       /\ linked' = [linked EXCEPT ![j] = r.hasID]
       /\ todo' = [todo EXCEPT ![j] = IF j \in Addressed THEN r.items ELSE <<>>]
  /\ Leave(j, "delivering")
  /\ UNCHANGED <<config, up, expired, prev, posted, gateway, streamer>>

-----------------------------------------------------------------------------
\* toolCancel was called on the return of Respond, or the job's deadline passed.
Cancelled(j) == pc[j] # "responding" \/ expired[j]

-----------------------------------------------------------------------------
(* The way to the gateway *)

\* A payload that does not parse goes to the gateway as it is (forwardRaw).
ForwardRaw(j) ==
  /\ up
  /\ j \in config.jobs /\ pc[j] = "idle" /\ KindOf[j] = "raw"
  /\ Goto(j, "responding")
  /\ gateway' = [gateway EXCEPT ![j] = "working"]
  /\ UNCHANGED <<config, up, expired, lock, thread, prev, linked, todo,
                 posted, streamer>>

\* acquireChannel: the fast path, and the wait behind another job.
AcquireChannel(j) ==
  /\ up
  /\ j \in config.jobs /\ pc[j] \in {"idle", "queued"} /\ KindOf[j] # "raw"
  /\ lock[ChannelOf[j]] = NONE
  /\ lock' = [lock EXCEPT ![ChannelOf[j]] = j]
  /\ Goto(j, "locked")
  /\ UNCHANGED <<config, up, expired, thread, prev, linked, todo, posted,
                 gateway, streamer>>

QueueBehind(j) ==
  /\ up
  /\ j \in config.jobs /\ pc[j] = "idle" /\ KindOf[j] # "raw"
  /\ lock[ChannelOf[j]] # NONE
  /\ Goto(j, "queued")
  /\ UNCHANGED <<config, up, expired, lock, thread, prev, linked, todo,
                 posted, gateway, streamer>>

\* The context ends first: no lock was taken and none is released.
GiveUp(j) ==
  /\ up
  /\ pc[j] = "queued"
  /\ expired[j]
  /\ Goto(j, "error")
  /\ UNCHANGED <<config, up, expired, lock, thread, prev, linked, todo,
                 posted, gateway, streamer>>

\* forward: read the thread, start the streamer, send the request.  An
\* interface that holds a nil pointer is not nil, so d.sender != nil is true
\* with and without a webhook.
Forward(j) ==
  /\ up
  /\ pc[j] = "locked" /\ KindOf[j] = "text"
  /\ prev' = [prev EXCEPT ![j] = thread[ChannelOf[j]]]
  /\ streamer' = IF config.agents /\ j \in Addressed
                 THEN [streamer EXCEPT ![j] = "searching"] ELSE streamer
  /\ gateway' = [gateway EXCEPT ![j] = "working"]
  /\ Goto(j, "responding")
  /\ UNCHANGED <<config, up, expired, lock, thread, linked, todo, posted>>

\* handleFile: without a workspace directory there is nothing to do ...
DropFile(j) ==
  /\ up
  /\ pc[j] = "locked" /\ KindOf[j] = "file"
  /\ ~config.workspace
  /\ Leave(j, "ok")
  /\ UNCHANGED <<config, up, expired, thread, prev, linked, todo, posted,
                 gateway, streamer>>

\* ... with one, ask for a Zoho token ...
AskToken(j) ==
  /\ up
  /\ pc[j] = "locked" /\ KindOf[j] = "file"
  /\ config.workspace
  /\ Goto(j, "token")
  /\ UNCHANGED <<config, up, expired, lock, thread, prev, linked, todo,
                 posted, gateway, streamer>>

\* ... read the thread once it is there, and download the attachment ...
StartDownload(j) ==
  /\ up
  /\ pc[j] = "token"
  /\ prev' = [prev EXCEPT ![j] = thread[ChannelOf[j]]]
  /\ Goto(j, "download")
  /\ UNCHANGED <<config, up, expired, lock, thread, linked, todo, posted,
                 gateway, streamer>>

\* ... and tell the agent of the saved file.
RespondToFile(j) ==
  /\ up
  /\ pc[j] = "download"
  /\ gateway' = [gateway EXCEPT ![j] = "working"]
  /\ Goto(j, "responding")
  /\ UNCHANGED <<config, up, expired, lock, thread, prev, linked, todo,
                 posted, streamer>>

\* The token, the download or Respond failed - its own timeout, a refused or
\* cut connection, a bad status, an unreadable stream - and Dispatch returns
\* the error.
Fail(j) ==
  /\ up
  /\ pc[j] \in {"token", "download", "responding"}
  /\ Leave(j, "error")
  /\ UNCHANGED <<config, up, expired, thread, prev, linked, todo, posted,
                 gateway, streamer>>

-----------------------------------------------------------------------------
(* The way back *)

\* Respond returned a reply: store its ID, if it has one, as the thread of the
\* channel, and deliver to the sender the payload names.
TakeReply(j) ==
  /\ up
  /\ pc[j] = "responding" /\ KindOf[j] # "raw"
  /\ gateway[j] = "done"
  /\ \E r \in Replies :
       /\ thread' = IF r.hasID THEN [thread EXCEPT ![ChannelOf[j]] = j]
                    ELSE thread
       /\ linked' = [linked EXCEPT ![j] = r.hasID]
       /\ todo' = [todo EXCEPT ![j] = IF j \in Addressed THEN r.items ELSE <<>>]
  /\ Goto(j, "delivering")
  /\ UNCHANGED <<config, up, expired, lock, prev, posted, gateway, streamer>>

\* forwardRaw logs the reply: there is nobody to send it to.
TakeRawReply(j) ==
  /\ up
  /\ pc[j] = "responding" /\ KindOf[j] = "raw"
  /\ gateway[j] = "done"
  /\ Leave(j, "ok")
  /\ UNCHANGED <<config, up, expired, thread, prev, linked, todo, posted,
                 gateway, streamer>>

\* deliverResult and deliverReply: one call of the sender.  Zoho takes the
\* post, or the call fails - it must once the context is over - and is logged.
Post(j) ==
  /\ up
  /\ pc[j] = "delivering" /\ todo[j] # <<>>
  /\ config.webhook
  /\ todo' = [todo EXCEPT ![j] = Tail(todo[j])]
  /\ \/ /\ ~expired[j]
        /\ posted' = [posted EXCEPT ![ChannelOf[j]] =
                        Append(posted[ChannelOf[j]], j)]
     \/ UNCHANGED posted
  /\ UNCHANGED <<config, up, pc, expired, lock, thread, prev, linked, gateway,
                 streamer>>

\* The sender is a nil pointer: its methods panic, the worker recovers.
PostPanics(j) ==
  /\ up
  /\ pc[j] = "delivering" /\ todo[j] # <<>>
  /\ ~config.webhook
  /\ Leave(j, "panic")
  /\ UNCHANGED <<config, up, expired, thread, prev, linked, todo, posted,
                 gateway, streamer>>

Finish(j) ==
  /\ up
  /\ pc[j] = "delivering" /\ todo[j] = <<>>
  /\ Leave(j, "ok")
  /\ UNCHANGED <<config, up, expired, thread, prev, linked, todo, posted,
                 gateway, streamer>>

-----------------------------------------------------------------------------
(* The streamer goroutine *)

\* FindLatestSessionFile found a file.
StreamFind(j) ==
  /\ up
  /\ streamer[j] = "searching"
  /\ streamer' = [streamer EXCEPT ![j] = "tailing"]
  /\ UNCHANGED <<config, up, pc, expired, lock, thread, prev, linked, todo,
                 posted, gateway>>

\* The first tool call, with a nil sender: nothing recovers a panic of this
\* goroutine, and the process dies.  (With a webhook the notice is posted.)
StreamPanics(j) ==
  /\ up
  /\ streamer[j] = "tailing"
  /\ ~config.webhook
  /\ up' = FALSE
  /\ UNCHANGED <<config, pc, expired, lock, thread, prev, linked, todo,
                 posted, gateway, streamer>>

\* Respond returned and toolCancel was called, or the job's deadline passed.
StreamStop(j) ==
  /\ up
  /\ streamer[j] # "off"
  /\ Cancelled(j)
  /\ streamer' = [streamer EXCEPT ![j] = "off"]
  /\ UNCHANGED <<config, up, pc, expired, lock, thread, prev, linked, todo,
                 posted, gateway>>

-----------------------------------------------------------------------------
(* The environment *)

\* The deadline of a running job (context.WithTimeout in the worker).
Expire(j) ==
  /\ up
  /\ pc[j] \notin {"idle"} \cup Returned
  /\ ~expired[j]
  /\ expired' = [expired EXCEPT ![j] = TRUE]
  /\ UNCHANGED <<config, up, pc, lock, thread, prev, linked, todo, posted,
                 gateway, streamer>>

\* The gateway completes the agent's response, whoever still waits for it.
GatewayDone(j) ==
  /\ gateway[j] = "working"
  /\ gateway' = [gateway EXCEPT ![j] = "done"]
  /\ UNCHANGED <<config, up, pc, expired, lock, thread, prev, linked, todo,
                 posted, streamer>>

-----------------------------------------------------------------------------

Step(j) ==
  \/ ForwardRaw(j) \/ AcquireChannel(j) \/ QueueBehind(j) \/ GiveUp(j)
  \/ Forward(j) \/ DropFile(j) \/ AskToken(j) \/ StartDownload(j)
  \/ RespondToFile(j) \/ Fail(j) \/ TakeReply(j) \/ TakeRawReply(j)
  \/ Post(j) \/ PostPanics(j) \/ Finish(j)

Stream(j) == StreamFind(j) \/ StreamPanics(j) \/ StreamStop(j)

Terminated ==
  /\ up => \A j \in config.jobs : pc[j] \in Returned /\ streamer[j] = "off"
  /\ UNCHANGED vars

Next ==
  \/ \E j \in Jobs : Step(j) \/ Stream(j) \/ Expire(j) \/ GatewayDone(j)
  \/ Terminated

Spec == Init /\ [][Next]_vars

\* What the Go runtime and the timeouts of the code guarantee: a goroutine that
\* can take its next step takes it, a deadline passes, and the calls that are
\* under a deadline end at it.  A job waiting for a lock that is free or after
\* its deadline goes on.  Neither the gateway nor Zoho is assumed to answer.
Fairness ==
  \A j \in Jobs :
    /\ WF_vars(AcquireChannel(j) \/ GiveUp(j))
    /\ WF_vars(Forward(j) \/ DropFile(j) \/ AskToken(j))
    /\ WF_vars(expired[j] /\ Fail(j))
    /\ WF_vars(Post(j) \/ PostPanics(j) \/ Finish(j))
    /\ WF_vars(Expire(j))
    /\ WF_vars(StreamStop(j))

FairSpec == Spec /\ Fairness

-----------------------------------------------------------------------------
(* Properties *)

Conversing(j) == KindOf[j] # "raw"

\* The lock of a channel is held exactly while a job is between acquireChannel
\* and its return: one job at a time, and no way out - error, dropped file,
\* panic, a wait given up - leaves the channel locked or frees a lock that
\* another job holds.
LockOwner ==
  \A c \in Channels, j \in Jobs :
    lock[c] = j <=> ChannelOf[j] = c /\ Conversing(j) /\ pc[j] \in Inside

\* The previous response ID read before the download and the request is still
\* the channel's when the reply comes, however long they take.
PrevIsCurrent ==
  \A j \in Jobs :
    Conversing(j) /\ pc[j] \in {"download", "responding"}
      => prev[j] = thread[ChannelOf[j]]

\* The stored responses of a channel form one thread that ends at the stored
\* ID: each continues a stored response of the same channel or is the first,
\* no response is continued twice, and only the last is not continued.
ThreadIsChain ==
  \A j \in Jobs : linked[j] =>
    /\ prev[j] # NONE => /\ linked[prev[j]]
                         /\ ChannelOf[prev[j]] = ChannelOf[j]
    /\ \A k \in Jobs :
         linked[k] /\ ChannelOf[k] = ChannelOf[j] /\ prev[k] = prev[j] => k = j
    /\ thread[ChannelOf[j]] = j
         <=> ~ \E k \in Jobs : linked[k] /\ prev[k] = j

\* The channels are conversations in the sense of module Conversation: one
\* request of a channel at a time, sent to continue the last stored reply and,
\* with an ID, stored behind it; and the posts that answer a job come together,
\* before any other job of its channel has posted or been answered.
Asked(j) == Conversing(j) /\ gateway[j] # "none"

ParentOf == [j \in Jobs |-> IF Asked(j) THEN prev[j] ELSE NONE]

PhaseOf == [j \in Jobs |-> IF pc[j] \in Returned THEN "closed"
                          ELSE IF linked[j] THEN "linked"
                          ELSE IF Asked(j) THEN "asked" ELSE "open"]

Conv == INSTANCE Conversation
  WITH tip <- thread, parent <- ParentOf, phase <- PhaseOf, transcript <- posted

KeepsConversations == Conv!Spec

\* Whatever the gateway and Zoho do, and however many jobs wait for the same
\* channel, a run of Dispatch that took its first step returns - unless the
\* process dies.
EveryJobReturns ==
  \A j \in Jobs : pc[j] # "idle" ~> pc[j] \in Returned \/ ~up

\* "Replies are silently dropped if unset" (README.md, ZOHO_REPLY_WEBHOOK_URL):
\* without the webhook nothing worse happens to a job or to the process.
UnsetWebhookDropsReplies ==
  ~config.webhook => up /\ \A j \in Jobs : pc[j] # "panic"

\* "a follow-up message always lands in the same thread rather than starting a
\* new session" (the comment on acquireChannel): a request that starts a new
\* session is the first of its channel the gateway answers.
FollowUpContinuesThread ==
  [][\A j \in Jobs :
       Conversing(j) /\ gateway[j] = "none" /\ gateway'[j] = "working"
         /\ prev'[j] = NONE
       => \A k \in Jobs : Conversing(k) /\ ChannelOf[k] = ChannelOf[j]
                            => gateway[k] # "done"]_vars
=============================================================================
