-------------------------- MODULE DispatcherProofs --------------------------
(***************************************************************************)
(* Proofs about Dispatcher, for any jobs, channels, payloads and replies:  *)
(* the channel lock is owned by one job and always released, the response  *)
(* ID sent with a request is current when the reply arrives, the stored    *)
(* replies of a channel form one thread, and every step is one of          *)
(* Conversation's or none.                                                 *)
(***************************************************************************)
EXTENDS Dispatcher, SequenceTheorems, TLAPS

\* What relates the place of a job to its channel's state, beside LockOwner:
\* a linked job has its reply, and its ID is the channel's while it delivers.
Placed ==
  \A j \in Jobs :
    /\ pc[j] \in {"queued", "locked", "token", "download", "delivering"}
         => Conversing(j)
    /\ linked[j] => Conversing(j) /\ pc[j] \in {"delivering"} \cup Returned
    /\ pc[j] = "delivering" /\ linked[j] => thread[ChannelOf[j]] = j

\* The ID stored for a channel is that of a linked job of it, and there is one
\* as soon as a job of the channel is linked.
Tips ==
  /\ \A c \in Channels :
       thread[c] # NONE => linked[thread[c]] /\ ChannelOf[thread[c]] = c
  /\ \A j \in Jobs : linked[j] => thread[ChannelOf[j]] # NONE

\* Posts come from jobs of the channel that have their reply, and the last one
\* from the job that delivers, once it has posted.
Said ==
  /\ \A c \in Channels, j \in Jobs :
       j \in Range(posted[c]) => /\ ChannelOf[j] = c
                                 /\ pc[j] \in {"delivering"} \cup Returned
  /\ \A j \in Jobs : LET said == posted[ChannelOf[j]] IN
       pc[j] = "delivering" /\ j \in Range(said) => said[Len(said)] = j

-----------------------------------------------------------------------------
(* Types *)

LEMMA TypeInit == Init => TypeOK
<1>1. <<>> \in Seq(Items) /\ <<>> \in Seq(Jobs)
  OBVIOUS
<1> QED
  BY <1>1 DEF Init, TypeOK

\* Leave and Goto keep the types of pc and lock.
LEMMA TypeNext == TypeOK /\ [Next]_vars => TypeOK'
<1> SUFFICES ASSUME TypeOK, [Next]_vars
             PROVE  TypeOK'
  OBVIOUS
<1> USE DispatcherAssumption DEF TypeOK, Inside, Returned
<1>1. ASSUME NEW j \in Jobs, Step(j)
      PROVE  TypeOK'
  <2> USE DEF Goto, Leave
  <2>1. CASE ForwardRaw(j)
    BY <2>1 DEF ForwardRaw
  <2>2. CASE AcquireChannel(j)
    BY <2>2 DEF AcquireChannel
  <2>3. CASE QueueBehind(j)
    BY <2>3 DEF QueueBehind
  <2>4. CASE GiveUp(j)
    BY <2>4 DEF GiveUp
  <2>5. CASE Forward(j)
    BY <2>5 DEF Forward
  <2>6. CASE DropFile(j)
    BY <2>6 DEF DropFile
  <2>7. CASE AskToken(j)
    BY <2>7 DEF AskToken
  <2>8. CASE StartDownload(j)
    BY <2>8 DEF StartDownload
  <2>9. CASE RespondToFile(j)
    BY <2>9 DEF RespondToFile
  <2>10. CASE Fail(j)
    BY <2>10 DEF Fail
  <2>11. CASE TakeReply(j)
    <3>1. PICK r \in Replies :
            /\ thread' = IF r.hasID THEN [thread EXCEPT ![ChannelOf[j]] = j]
                         ELSE thread
            /\ linked' = [linked EXCEPT ![j] = r.hasID]
            /\ todo' = [todo EXCEPT ![j] =
                          IF j \in Addressed THEN r.items ELSE <<>>]
      BY <2>11 DEF TakeReply
    <3>2. r.hasID \in BOOLEAN /\ r.items \in Seq(Items)
      BY DEF ReplyType
    <3>3. thread' \in [Channels -> Jobs \cup {NONE}] /\ linked' \in [Jobs -> BOOLEAN]
      BY <3>1, <3>2
    <3>4. <<>> \in Seq(Items)
      OBVIOUS
    <3>5. todo' \in [Jobs -> Seq(Items)]
      BY <3>1, <3>2, <3>4
    <3>6. /\ UNCHANGED <<config, up, expired, lock, prev, posted, gateway, streamer>>
          /\ pc' = [pc EXCEPT ![j] = "delivering"]
      BY <2>11 DEF TakeReply
    <3> QED
      BY <3>3, <3>5, <3>6
  <2>12. CASE TakeRawReply(j)
    BY <2>12 DEF TakeRawReply
  <2>13. CASE Post(j)
    <3>1. Tail(todo[j]) \in Seq(Items)
      BY <2>13 DEF Post
    <3>2. todo' \in [Jobs -> Seq(Items)]
      BY <2>13, <3>1 DEF Post
    <3>3. Append(posted[ChannelOf[j]], j) \in Seq(Jobs)
      OBVIOUS
    <3>4. posted' \in [Channels -> Seq(Jobs)]
      <4>1. CASE UNCHANGED posted
        BY <4>1
      <4>2. CASE posted' = [posted EXCEPT ![ChannelOf[j]] =
                              Append(posted[ChannelOf[j]], j)]
        <5>1. posted \in [Channels -> Seq(Jobs)]
          OBVIOUS
        <5> HIDE DispatcherAssumption DEF TypeOK
        <5> QED
          BY <3>3, <4>2, <5>1
      <4> QED
        BY <2>13, <4>1, <4>2 DEF Post
    <3>5. UNCHANGED <<config, up, pc, expired, lock, thread, prev, linked,
                      gateway, streamer>>
      BY <2>13 DEF Post
    <3> QED
      BY <3>2, <3>4, <3>5
  <2>14. CASE PostPanics(j)
    BY <2>14 DEF PostPanics
  <2>15. CASE Finish(j)
    BY <2>15 DEF Finish
  <2> QED
    BY <1>1, <2>1, <2>2, <2>3, <2>4, <2>5, <2>6, <2>7, <2>8, <2>9, <2>10,
       <2>11, <2>12, <2>13, <2>14, <2>15 DEF Step
<1>2. ASSUME NEW j \in Jobs, Stream(j)
      PROVE  TypeOK'
  <2>1. CASE StreamFind(j)
    BY <2>1 DEF StreamFind
  <2>2. CASE StreamPanics(j)
    BY <2>2 DEF StreamPanics
  <2>3. CASE StreamStop(j)
    BY <2>3 DEF StreamStop
  <2> QED
    BY <1>2, <2>1, <2>2, <2>3 DEF Stream
<1>3. ASSUME NEW j \in Jobs, Expire(j) \/ GatewayDone(j)
      PROVE  TypeOK'
  <2>1. CASE Expire(j)
    BY <2>1 DEF Expire
  <2>2. CASE GatewayDone(j)
    BY <2>2 DEF GatewayDone
  <2> QED
    BY <1>3, <2>1, <2>2
<1>4. CASE Terminated \/ UNCHANGED vars
  BY <1>4 DEF Terminated, vars
<1> QED
  BY <1>1, <1>2, <1>3, <1>4 DEF Next

\* The state keeps its shape; only an addressed job of a bridge with an agents
\* directory ever has a streamer.
THEOREM TypeCorrect == Spec => []TypeOK
BY TypeInit, TypeNext, PTL DEF Spec

-----------------------------------------------------------------------------
(* The channel lock *)

\* A job that moves on without touching the lock stays on its side of it.
LEMMA LockKept ==
  ASSUME TypeOK, LockOwner, NEW j \in Jobs, NEW where,
         Goto(j, where), lock' = lock,
         Conversing(j) => (pc[j] \in Inside <=> where \in Inside)
  PROVE  LockOwner'
<1>1. /\ pc'[j] = where
      /\ \A k \in Jobs : k # j => pc'[k] = pc[k]
  BY DEF Goto, TypeOK
<1> QED
  BY <1>1 DEF LockOwner, Conversing

\* The deferred release frees the job's own lock and no other.
LEMMA LockReleased ==
  ASSUME TypeOK, LockOwner, NEW j \in Jobs, NEW outcome \in Returned,
         pc[j] \in Inside, Leave(j, outcome)
  PROVE  LockOwner'
<1>1. /\ pc'[j] \notin Inside
      /\ \A k \in Jobs : k # j => pc'[k] = pc[k]
  BY DEF Leave, Goto, TypeOK, Returned, Inside
<1>2. CASE KindOf[j] = "raw"
  BY <1>1, <1>2 DEF Leave, LockOwner, Conversing
<1>3. CASE KindOf[j] # "raw"
  <2>1. lock[ChannelOf[j]] = j
    BY <1>3, DispatcherAssumption DEF LockOwner, Conversing
  <2>2. /\ lock'[ChannelOf[j]] = NONE
        /\ \A c \in Channels : c # ChannelOf[j] => lock'[c] = lock[c]
    BY <1>3, DispatcherAssumption DEF Leave, TypeOK
  <2> QED
    BY <1>1, <2>1, <2>2, DispatcherAssumption DEF LockOwner, Conversing
<1> QED
  BY <1>2, <1>3

LEMMA LockTaken ==
  ASSUME TypeOK, LockOwner, NEW j \in Jobs, AcquireChannel(j)
  PROVE  LockOwner'
<1>1. /\ pc'[j] \in Inside /\ pc[j] \notin Inside
      /\ \A k \in Jobs : k # j => pc'[k] = pc[k]
  BY DEF AcquireChannel, Goto, TypeOK, Inside
<1>2. /\ Conversing(j)
      /\ lock[ChannelOf[j]] = NONE
      /\ lock'[ChannelOf[j]] = j
      /\ \A c \in Channels : c # ChannelOf[j] => lock'[c] = lock[c]
  BY DispatcherAssumption DEF AcquireChannel, TypeOK, Conversing
<1> QED
  BY <1>1, <1>2, DispatcherAssumption DEF LockOwner, Conversing

LEMMA LockNext == TypeOK /\ LockOwner /\ [Next]_vars => LockOwner'
<1> SUFFICES ASSUME TypeOK, LockOwner, [Next]_vars
             PROVE  LockOwner'
  OBVIOUS
<1>1. ASSUME NEW j \in Jobs, Step(j)
      PROVE  LockOwner'
  <2>1. CASE AcquireChannel(j)
    BY <2>1, LockTaken
  <2>2. CASE ForwardRaw(j)
    BY <2>2, LockKept DEF ForwardRaw, Conversing
  <2>3. CASE QueueBehind(j)
    BY <2>3, LockKept DEF QueueBehind, Inside
  <2>4. CASE GiveUp(j)
    BY <2>4, LockKept DEF GiveUp, Inside
  <2>5. CASE Forward(j)
    BY <2>5, LockKept DEF Forward, Inside
  <2>6. CASE AskToken(j)
    BY <2>6, LockKept DEF AskToken, Inside
  <2>7. CASE StartDownload(j)
    BY <2>7, LockKept DEF StartDownload, Inside
  <2>8. CASE RespondToFile(j)
    BY <2>8, LockKept DEF RespondToFile, Inside
  <2>9. CASE TakeReply(j)
    BY <2>9, LockKept DEF TakeReply, Inside
  <2>10. CASE DropFile(j)
    BY <2>10, LockReleased DEF DropFile, Inside, Returned
  <2>11. CASE Fail(j)
    BY <2>11, LockReleased DEF Fail, Inside, Returned
  <2>12. CASE TakeRawReply(j)
    BY <2>12, LockReleased DEF TakeRawReply, Inside, Returned
  <2>13. CASE PostPanics(j)
    BY <2>13, LockReleased DEF PostPanics, Inside, Returned
  <2>14. CASE Finish(j)
    BY <2>14, LockReleased DEF Finish, Inside, Returned
  <2>15. CASE Post(j)
    BY <2>15 DEF Post, LockOwner
  <2> QED
    BY <1>1, <2>1, <2>2, <2>3, <2>4, <2>5, <2>6, <2>7, <2>8, <2>9, <2>10,
       <2>11, <2>12, <2>13, <2>14, <2>15 DEF Step
<1>2. CASE UNCHANGED <<pc, lock>>
  BY <1>2 DEF LockOwner
<1> QED
  BY <1>1, <1>2
     DEF Next, Stream, StreamFind, StreamPanics, StreamStop, Expire,
         GatewayDone, Terminated, vars

\* One job at a time holds a channel, and every way out of Dispatch frees it.
THEOREM LockCorrect == Spec => []LockOwner
<1>1. Init => LockOwner
  BY DispatcherAssumption DEF Init, LockOwner, Inside
<1> QED
  BY <1>1, LockNext, TypeCorrect, PTL DEF Spec

\* Two jobs between acquireChannel and their return are of two channels.
LEMMA Exclusion ==
  ASSUME LockOwner, NEW j \in Jobs, NEW k \in Jobs, Conversing(j), Conversing(k),
         pc[j] \in Inside, pc[k] \in Inside, ChannelOf[j] = ChannelOf[k]
  PROVE  j = k
BY DispatcherAssumption DEF LockOwner

\* What module SessionStream assumes when it starts a request: if the jobs of an
\* OpenClaw session are jobs of one channel, one request of the session at a
\* time is on its way from the sending to the end of the delivery.
THEOREM OneTurnPerSession ==
  ASSUME NEW Sessions, NEW home \in [Jobs -> Sessions],
         \A j, k \in Jobs : home[j] = home[k] => ChannelOf[j] = ChannelOf[k]
  PROVE  Spec => [](\A j, k \in Jobs :
                      /\ Conversing(j) /\ pc[j] \in {"responding", "delivering"}
                      /\ Conversing(k) /\ pc[k] \in {"responding", "delivering"}
                      /\ home[j] = home[k]
                      => j = k)
<1>1. LockOwner => \A j, k \in Jobs :
                      /\ Conversing(j) /\ pc[j] \in {"responding", "delivering"}
                      /\ Conversing(k) /\ pc[k] \in {"responding", "delivering"}
                      /\ home[j] = home[k]
                      => j = k
  BY Exclusion DEF Inside
<1> QED
  BY <1>1, LockCorrect, PTL

-----------------------------------------------------------------------------
(* The thread *)

Thread == PrevIsCurrent /\ ThreadIsChain /\ Placed /\ Tips

\* The steps of a job that neither link it nor begin its delivery.
LEMMA ThreadKept ==
  ASSUME TypeOK, Thread, NEW j \in Jobs, NEW where,
         Goto(j, where), UNCHANGED <<thread, linked>>,
         \/ prev' = prev
         \/ ~linked[j] /\ prev' = [prev EXCEPT ![j] = thread[ChannelOf[j]]],
         where # "delivering",
         where \in {"queued", "locked", "token", "download"} => Conversing(j),
         linked[j] => where \in Returned,
         Conversing(j) /\ where \in {"download", "responding"}
           => prev'[j] = thread[ChannelOf[j]]
  PROVE  Thread'
<1>1. /\ pc'[j] = where
      /\ \A k \in Jobs : k # j => pc'[k] = pc[k]
  BY DEF Goto, TypeOK
<1>2. \A k \in Jobs : (k # j \/ linked[k]) => prev'[k] = prev[k]
  BY DEF TypeOK
<1>3. PrevIsCurrent'
  BY <1>1, <1>2 DEF Thread, PrevIsCurrent, Conversing
<1>4. ThreadIsChain'
  <2>1. \A i, k \in Jobs : linked[k] => (prev'[k] = prev[i] <=> prev[k] = prev[i])
    BY <1>2
  <2> QED
    BY <1>2, <2>1 DEF Thread, ThreadIsChain, TypeOK
<1>5. Placed'
  BY <1>1 DEF Thread, Placed, Conversing, Returned
<1>6. Tips'
  BY DEF Thread, Tips
<1> QED
  BY <1>3, <1>4, <1>5, <1>6 DEF Thread

\* A reply with an ID: its turn is appended to the channel's thread.
LEMMA ThreadGrows ==
  ASSUME TypeOK, LockOwner, Thread, NEW j \in Jobs, Conversing(j),
         pc[j] = "responding", Goto(j, "delivering"), prev' = prev,
         thread' = [thread EXCEPT ![ChannelOf[j]] = j],
         linked' = [linked EXCEPT ![j] = TRUE]
  PROVE  Thread'
<1> DEFINE c == ChannelOf[j]
           t == thread[c]
<1>1. /\ pc'[j] = "delivering"
      /\ \A k \in Jobs : k # j => pc'[k] = pc[k]
      /\ c \in Channels
      /\ thread'[c] = j
      /\ \A d \in Channels : d # c => thread'[d] = thread[d]
      /\ linked'[j]
      /\ \A k \in Jobs : k # j => linked'[k] = linked[k]
  <2>1. /\ DOMAIN pc = Jobs /\ DOMAIN thread = Channels /\ DOMAIN linked = Jobs
        /\ c \in Channels
    BY DispatcherAssumption DEF TypeOK
  <2> QED
    BY <2>1 DEF Goto
<1> USE DispatcherAssumption DEF Thread
<1>2. /\ ~linked[j]
      /\ prev[j] = t
      /\ \A k \in Jobs : prev[k] \in Jobs \cup {NONE}
  BY DEF Placed, PrevIsCurrent, Returned, TypeOK
<1>3. \A k \in Jobs : k # j /\ Conversing(k) /\ ChannelOf[k] = c
                      => pc[k] \notin Inside
  BY Exclusion DEF Inside
<1>4. PrevIsCurrent'
  BY <1>1, <1>3 DEF PrevIsCurrent, Inside, Conversing
<1>5. Placed'
  BY <1>1, <1>3 DEF Placed, Inside, Conversing, Returned
<1>6. Tips'
  BY <1>1 DEF Tips, TypeOK
<1>7. t # NONE => t \in Jobs /\ linked[t] /\ ChannelOf[t] = c /\ t # j
  BY <1>1, <1>2 DEF Tips, TypeOK
<1>8. \A k \in Jobs : linked[k] => prev[k] # j
  BY <1>2 DEF ThreadIsChain
<1>9. \A k \in Jobs : linked[k] /\ ChannelOf[k] = c => prev[k] # t
  <2> SUFFICES ASSUME NEW k \in Jobs, linked[k], ChannelOf[k] = c, prev[k] = t
               PROVE  FALSE
    OBVIOUS
  <2>1. t # NONE
    BY DEF Tips
  <2> QED
    BY <2>1, <1>7 DEF ThreadIsChain
<1>10. ASSUME NEW i \in Jobs, linked'[i]
       PROVE  /\ prev[i] # NONE => /\ linked'[prev[i]]
                                   /\ ChannelOf[prev[i]] = ChannelOf[i]
              /\ \A k \in Jobs :
                   linked'[k] /\ ChannelOf[k] = ChannelOf[i] /\ prev[k] = prev[i]
                     => k = i
              /\ thread'[ChannelOf[i]] = i
                   <=> ~ \E k \in Jobs : linked'[k] /\ prev[k] = i
  <2>1. CASE i = j
    <3>1. prev[i] # NONE => linked'[prev[i]] /\ ChannelOf[prev[i]] = ChannelOf[i]
      BY <2>1, <1>1, <1>2, <1>7
    <3>2. \A k \in Jobs :
            linked'[k] /\ ChannelOf[k] = ChannelOf[i] /\ prev[k] = prev[i] => k = i
      BY <2>1, <1>1, <1>2, <1>9
    <3>3. thread'[ChannelOf[i]] = i
      BY <2>1, <1>1
    <3>4. ~ \E k \in Jobs : linked'[k] /\ prev[k] = i
      BY <2>1, <1>1, <1>2, <1>7, <1>8
    <3> QED
      BY <3>1, <3>2, <3>3, <3>4
  <2>2. CASE i # j
    <3>1. linked[i]
      BY <2>2, <1>1, <1>10
    <3>2. prev[i] # NONE => linked'[prev[i]] /\ ChannelOf[prev[i]] = ChannelOf[i]
      BY <3>1, <1>1, <1>2 DEF ThreadIsChain
    <3>3. \A k \in Jobs :
            linked'[k] /\ ChannelOf[k] = ChannelOf[i] /\ prev[k] = prev[i] => k = i
      BY <2>2, <3>1, <1>1, <1>2, <1>9 DEF ThreadIsChain
    <3>4. CASE ChannelOf[i] # c
      <4>1. thread'[ChannelOf[i]] = thread[ChannelOf[i]]
        BY <3>4, <1>1
      <4>2. prev[j] # i
        BY <3>4, <1>2, <1>7
      <4> QED
        BY <3>1, <3>2, <3>3, <4>1, <4>2, <1>1 DEF ThreadIsChain
    <3>5. CASE ChannelOf[i] = c
      <4>1. thread'[ChannelOf[i]] # i
        BY <2>2, <3>5, <1>1
      <4>2. \E k \in Jobs : linked'[k] /\ prev[k] = i
        <5>1. CASE t = i
          BY <5>1, <1>1, <1>2
        <5>2. CASE t # i
          BY <5>2, <3>1, <3>5, <1>1 DEF ThreadIsChain
        <5> QED
          BY <5>1, <5>2
      <4> QED
        BY <3>2, <3>3, <4>1, <4>2
    <3> QED
      BY <3>4, <3>5
  <2> QED
    BY <2>1, <2>2
<1>11. ThreadIsChain'
  BY <1>10 DEF ThreadIsChain
<1> QED
  BY <1>4, <1>5, <1>6, <1>11

\* A reply without an ID leaves the thread as it is.
LEMMA ThreadSame ==
  ASSUME TypeOK, Thread, NEW j \in Jobs, Conversing(j),
         pc[j] = "responding", Goto(j, "delivering"),
         UNCHANGED <<prev, thread>>, linked' = [linked EXCEPT ![j] = FALSE]
  PROVE  Thread'
<1>1. /\ pc'[j] = "delivering"
      /\ \A k \in Jobs : k # j => pc'[k] = pc[k]
      /\ ~linked[j]
  BY DEF Goto, TypeOK, Thread, Placed, Returned
<1>2. linked' = linked
  BY <1>1 DEF TypeOK
<1>3. PrevIsCurrent'
  BY <1>1 DEF Thread, PrevIsCurrent, Conversing
<1>4. ThreadIsChain' /\ Tips'
  BY <1>2 DEF Thread, ThreadIsChain, Tips
<1>5. Placed'
  BY <1>1, <1>2 DEF Thread, Placed, Conversing, Returned
<1> QED
  BY <1>3, <1>4, <1>5 DEF Thread

LEMMA ThreadNext == TypeOK /\ LockOwner /\ Thread /\ [Next]_vars => Thread'
<1> SUFFICES ASSUME TypeOK, LockOwner, Thread, [Next]_vars
             PROVE  Thread'
  OBVIOUS
<1>1. ASSUME NEW j \in Jobs, Step(j)
      PROVE  Thread'
  <2>1. linked[j] => pc[j] \in {"delivering"} \cup Returned
    BY DEF Thread, Placed
  <2>2. pc[j] \in {"queued", "locked", "token", "download"} => Conversing(j)
    BY DEF Thread, Placed
  <2> USE DEF Returned
  <2>3. CASE ForwardRaw(j)
    BY <2>1, <2>3, ThreadKept DEF ForwardRaw, Conversing
  <2>4. CASE AcquireChannel(j)
    BY <2>1, <2>4, ThreadKept DEF AcquireChannel, Conversing
  <2>5. CASE QueueBehind(j)
    BY <2>1, <2>5, ThreadKept DEF QueueBehind, Conversing
  <2>6. CASE GiveUp(j)
    BY <2>1, <2>6, ThreadKept DEF GiveUp
  <2>7. CASE Forward(j)
    <3>1. prev'[j] = thread[ChannelOf[j]]
      BY <2>7 DEF Forward, TypeOK
    <3> QED
      BY <2>1, <2>2, <2>7, <3>1, ThreadKept DEF Forward
  <2>8. CASE AskToken(j)
    BY <2>1, <2>2, <2>8, ThreadKept DEF AskToken
  <2>9. CASE StartDownload(j)
    <3>1. prev'[j] = thread[ChannelOf[j]]
      BY <2>9 DEF StartDownload, TypeOK
    <3> QED
      BY <2>1, <2>2, <2>9, <3>1, ThreadKept DEF StartDownload
  <2>10. CASE RespondToFile(j)
    <3>1. prev'[j] = thread[ChannelOf[j]]
      BY <2>2, <2>10 DEF RespondToFile, Thread, PrevIsCurrent
    <3> QED
      BY <2>1, <2>2, <2>10, <3>1, ThreadKept DEF RespondToFile
  <2>11. CASE TakeReply(j)
    <3>1. PICK r \in Replies :
            /\ thread' = IF r.hasID THEN [thread EXCEPT ![ChannelOf[j]] = j]
                         ELSE thread
            /\ linked' = [linked EXCEPT ![j] = r.hasID]
      BY <2>11 DEF TakeReply
    <3>2. /\ r.hasID \in BOOLEAN /\ Conversing(j) /\ pc[j] = "responding"
          /\ Goto(j, "delivering") /\ prev' = prev
      BY <2>11, DispatcherAssumption DEF TakeReply, ReplyType, Conversing
    <3>3. CASE r.hasID
      <4>1. linked' = [linked EXCEPT ![j] = TRUE]
        BY <3>1, <3>2, <3>3
      <4> QED
        BY <3>1, <3>2, <3>3, <4>1, ThreadGrows
    <3>4. CASE ~r.hasID
      <4>1. linked' = [linked EXCEPT ![j] = FALSE]
        BY <3>1, <3>2, <3>4
      <4> QED
        BY <3>1, <3>2, <3>4, <4>1, ThreadSame
    <3> QED
      BY <3>3, <3>4
  <2>12. CASE DropFile(j)
    BY <2>1, <2>12, ThreadKept DEF DropFile, Leave
  <2>13. CASE Fail(j)
    BY <2>1, <2>13, ThreadKept DEF Fail, Leave
  <2>14. CASE TakeRawReply(j)
    BY <2>1, <2>14, ThreadKept DEF TakeRawReply, Leave
  <2>15. CASE PostPanics(j)
    BY <2>1, <2>15, ThreadKept DEF PostPanics, Leave
  <2>16. CASE Finish(j)
    BY <2>1, <2>16, ThreadKept DEF Finish, Leave
  <2>17. CASE Post(j)
    BY <2>17 DEF Post, Thread, PrevIsCurrent, ThreadIsChain, Placed, Tips
  <2> QED
    BY <1>1, <2>3, <2>4, <2>5, <2>6, <2>7, <2>8, <2>9, <2>10, <2>11, <2>12,
       <2>13, <2>14, <2>15, <2>16, <2>17 DEF Step
<1>2. CASE UNCHANGED <<pc, thread, prev, linked>>
  BY <1>2 DEF Thread, PrevIsCurrent, ThreadIsChain, Placed, Tips
<1> QED
  BY <1>1, <1>2
     DEF Next, Stream, StreamFind, StreamPanics, StreamStop, Expire,
         GatewayDone, Terminated, vars

LEMMA ThreadInit == Init => Thread
BY DEF Init, Thread, PrevIsCurrent, ThreadIsChain, Placed, Tips, Returned

LEMMA ThreadCorrect == Spec => []Thread
BY ThreadInit, ThreadNext, LockCorrect, TypeCorrect, PTL DEF Spec

\* The response ID read before a download and a request is still the channel's
\* when the reply arrives.
THEOREM PrevCorrect == Spec => []PrevIsCurrent
<1>1. Thread => PrevIsCurrent
  BY DEF Thread
<1> QED
  BY <1>1, ThreadCorrect, PTL

\* The replies stored for a channel form one thread, none forked off.
THEOREM ChainCorrect == Spec => []ThreadIsChain
<1>1. Thread => ThreadIsChain
  BY DEF Thread
<1> QED
  BY <1>1, ThreadCorrect, PTL

-----------------------------------------------------------------------------
(* The posts *)

\* Steps that post nothing and only move jobs forward.
LEMMA SaidKept ==
  ASSUME TypeOK, Said, NEW j \in Jobs, NEW where,
         Goto(j, where), posted' = posted,
         where \in Returned \/ (pc[j] \notin {"delivering"} \cup Returned)
  PROVE  Said'
<1>1. /\ pc'[j] = where
      /\ \A k \in Jobs : k # j => pc'[k] = pc[k]
  BY DEF Goto, TypeOK
<1>2. ASSUME NEW c \in Channels, NEW k \in Jobs, k \in Range(posted[c])
      PROVE  ChannelOf[k] = c /\ pc'[k] \in {"delivering"} \cup Returned
  BY <1>1, <1>2 DEF Said
<1>3. ASSUME NEW k \in Jobs, pc'[k] = "delivering",
             k \in Range(posted[ChannelOf[k]])
      PROVE  posted[ChannelOf[k]][Len(posted[ChannelOf[k]])] = k
  <2>1. ChannelOf[k] \in Channels
    BY DispatcherAssumption
  <2>2. pc[k] = "delivering"
    BY <1>1, <1>3, <2>1 DEF Said, Returned
  <2> QED
    BY <1>3, <2>2 DEF Said
<1> QED
  BY <1>2, <1>3 DEF Said

\* A post of a job that holds its channel: no other job delivers there.
LEMMA SaidGrows ==
  ASSUME TypeOK, LockOwner, Placed, Said, NEW j \in Jobs,
         pc[j] = "delivering", pc' = pc,
         posted' = [posted EXCEPT ![ChannelOf[j]] =
                      Append(posted[ChannelOf[j]], j)]
  PROVE  Said'
<1> DEFINE c == ChannelOf[j]
           s == posted[c]
<1>1. c \in Channels /\ s \in Seq(Jobs) /\ Len(s) \in Nat
  BY DispatcherAssumption DEF TypeOK
<1>2. /\ posted'[c] = Append(s, j)
      /\ \A d \in Channels : d # c => posted'[d] = posted[d]
  BY <1>1 DEF TypeOK
<1>3. /\ Len(Append(s, j)) = Len(s) + 1
      /\ Append(s, j)[Len(s) + 1] = j
      /\ \A i \in 1 .. Len(s) : Append(s, j)[i] = s[i]
      /\ DOMAIN s = 1 .. Len(s)
      /\ DOMAIN Append(s, j) = 1 .. (Len(s) + 1)
  BY <1>1
<1>4. Range(Append(s, j)) = Range(s) \cup {j}
  BY <1>1, <1>3 DEF Range
<1>5. ASSUME NEW d \in Channels, NEW k \in Jobs, k \in Range(posted'[d])
      PROVE  ChannelOf[k] = d /\ pc[k] \in {"delivering"} \cup Returned
  BY <1>2, <1>4, <1>5 DEF Said
<1>6. ASSUME NEW k \in Jobs, pc[k] = "delivering",
             k \in Range(posted'[ChannelOf[k]])
      PROVE  posted'[ChannelOf[k]][Len(posted'[ChannelOf[k]])] = k
  <2>1. CASE ChannelOf[k] = c
    <3>1. Conversing(j) /\ Conversing(k)
      BY <1>6 DEF Placed
    <3>2. k = j
      BY <1>6, <2>1, <3>1, Exclusion DEF Inside
    <3> QED
      BY <1>2, <1>3, <3>2
  <2>2. CASE ChannelOf[k] # c
    BY <1>2, <1>6, <2>2, DispatcherAssumption DEF Said
  <2> QED
    BY <2>1, <2>2
<1> QED
  BY <1>5, <1>6 DEF Said

LEMMA SaidNext ==
  TypeOK /\ LockOwner /\ Thread /\ Said /\ [Next]_vars => Said'
<1> SUFFICES ASSUME TypeOK, LockOwner, Thread, Said, [Next]_vars
             PROVE  Said'
  OBVIOUS
<1>1. ASSUME NEW j \in Jobs, Step(j)
      PROVE  Said'
  <2>1. CASE Post(j)
    <3>1. CASE posted' = posted
      BY <2>1, <3>1 DEF Post, Said
    <3>2. CASE posted' = [posted EXCEPT ![ChannelOf[j]] =
                            Append(posted[ChannelOf[j]], j)]
      BY <2>1, <3>2, SaidGrows DEF Post, Thread
    <3> QED
      BY <2>1, <3>1, <3>2 DEF Post
  <2>2. CASE DropFile(j) \/ Fail(j) \/ TakeRawReply(j) \/ PostPanics(j) \/ Finish(j)
    BY <2>2, SaidKept
       DEF DropFile, Fail, TakeRawReply, PostPanics, Finish, Leave, Returned
  <2>3. CASE \/ ForwardRaw(j) \/ AcquireChannel(j) \/ QueueBehind(j) \/ GiveUp(j)
             \/ Forward(j) \/ AskToken(j) \/ StartDownload(j) \/ RespondToFile(j)
             \/ TakeReply(j)
    BY <2>3, SaidKept
       DEF ForwardRaw, AcquireChannel, QueueBehind, GiveUp, Forward, AskToken,
           StartDownload, RespondToFile, TakeReply, Returned
  <2> QED
    BY <1>1, <2>1, <2>2, <2>3 DEF Step
<1>2. CASE UNCHANGED <<pc, posted>>
  BY <1>2 DEF Said
<1> QED
  BY <1>1, <1>2
     DEF Next, Stream, StreamFind, StreamPanics, StreamStop, Expire,
         GatewayDone, Terminated, vars

LEMMA SaidCorrect == Spec => []Said
<1>1. Init => Said
  BY DispatcherAssumption DEF Init, Said, Range
<1> QED
  BY <1>1, SaidNext, ThreadCorrect, LockCorrect, TypeCorrect, PTL DEF Spec

-----------------------------------------------------------------------------
(* The requests *)

\* A job's request is at the gateway from the sending on, and not before.
Asking ==
  \A j \in Jobs :
    /\ pc[j] \in {"idle", "queued", "locked", "token", "download"}
         => gateway[j] = "none"
    /\ pc[j] \in {"responding", "delivering"} => gateway[j] # "none"

LEMMA AskingNext == TypeOK /\ Asking /\ [Next]_vars => Asking'
<1> SUFFICES ASSUME TypeOK, Asking, [Next]_vars
             PROVE  Asking'
  OBVIOUS
<1> USE DEF TypeOK, Asking, Goto, Returned
<1>1. ASSUME NEW j \in Jobs, Step(j)
      PROVE  Asking'
  <2>1. CASE ForwardRaw(j) \/ Forward(j) \/ RespondToFile(j)
    <3>1. /\ pc' = [pc EXCEPT ![j] = "responding"]
          /\ gateway' = [gateway EXCEPT ![j] = "working"]
      BY <2>1 DEF ForwardRaw, Forward, RespondToFile
    <3> QED
      BY <3>1
  <2>2. CASE AcquireChannel(j) \/ QueueBehind(j) \/ AskToken(j) \/ StartDownload(j)
    <3>1. /\ pc[j] \in {"idle", "queued", "locked", "token"}
          /\ \E w \in {"locked", "queued", "token", "download"} :
               pc' = [pc EXCEPT ![j] = w]
          /\ gateway' = gateway
      BY <2>2 DEF AcquireChannel, QueueBehind, AskToken, StartDownload
    <3> QED
      BY <3>1
  <2>3. CASE \/ DropFile(j) \/ GiveUp(j) \/ Fail(j) \/ TakeRawReply(j)
             \/ PostPanics(j) \/ Finish(j)
    BY <2>3 DEF DropFile, GiveUp, Fail, TakeRawReply, PostPanics, Finish, Leave
  <2>4. CASE TakeReply(j) \/ Post(j)
    BY <2>4 DEF TakeReply, Post
  <2> QED
    BY <1>1, <2>1, <2>2, <2>3, <2>4 DEF Step
<1>2. ASSUME NEW j \in Jobs, GatewayDone(j)
      PROVE  Asking'
  BY <1>2 DEF GatewayDone
<1>3. CASE UNCHANGED <<pc, gateway>>
  BY <1>3
<1> QED
  BY <1>1, <1>2, <1>3
     DEF Next, Stream, StreamFind, StreamPanics, StreamStop, Expire,
         Terminated, vars

LEMMA AskingCorrect == Spec => []Asking
<1>1. Init => Asking
  BY DEF Init, Asking
<1> QED
  BY <1>1, AskingNext, TypeCorrect, PTL DEF Spec

-----------------------------------------------------------------------------
(* The dispatcher implements Conversation *)

\* Steps a conversation does not see.
LEMMA ConvStutters ==
  ASSUME TypeOK, UNCHANGED <<thread, linked, posted>>,
         \A k \in Jobs : Asked(k)' <=> Asked(k),
         \A k \in Jobs : Asked(k) => prev'[k] = prev[k],
         \A k \in Jobs : pc'[k] \in Returned <=> pc[k] \in Returned
  PROVE  UNCHANGED Conv!vars
<1>1. ParentOf' = ParentOf
  BY DEF ParentOf
<1>2. PhaseOf' = PhaseOf
  BY DEF PhaseOf
<1> QED
  BY <1>1, <1>2 DEF Conv!vars

\* Each return of Dispatch closes the job.
LEMMA ConvCloses ==
  ASSUME TypeOK, NEW j \in Jobs, NEW outcome \in Returned,
         pc[j] \notin Returned, Goto(j, outcome),
         UNCHANGED <<thread, linked, posted, prev, gateway>>
  PROVE  Conv!Close(j)
<1>1. /\ pc'[j] \in Returned
      /\ \A k \in Jobs : k # j => pc'[k] = pc[k]
  BY DEF Goto, TypeOK
<1>2. PhaseOf[j] # "closed"
  BY DEF PhaseOf
<1>3. PhaseOf' = [PhaseOf EXCEPT ![j] = "closed"]
  BY <1>1 DEF PhaseOf, Asked
<1>4. ParentOf' = ParentOf
  BY DEF ParentOf, Asked
<1> QED
  BY <1>2, <1>3, <1>4 DEF Conv!Close

\* A request is sent with the channel's last turn and no other one under way.
LEMMA ConvAsks ==
  ASSUME TypeOK, LockOwner, Thread, Asking, NEW j \in Jobs,
         pc[j] \in {"locked", "download"}, Goto(j, "responding"),
         gateway' = [gateway EXCEPT ![j] = "working"],
         prev'[j] = thread[ChannelOf[j]],
         \A k \in Jobs : k # j => prev'[k] = prev[k],
         UNCHANGED <<thread, linked, posted>>
  PROVE  Conv!Ask(j)
<1>1. /\ pc'[j] = "responding" /\ gateway'[j] = "working" /\ gateway[j] = "none"
      /\ \A k \in Jobs : k # j => pc'[k] = pc[k] /\ gateway'[k] = gateway[k]
  BY DEF Goto, TypeOK, Asking
<1>2. Conversing(j) /\ ~linked[j]
  BY DEF Thread, Placed, Returned
<1>3. PhaseOf[j] = "open"
  BY <1>1, <1>2 DEF PhaseOf, Asked, Returned
<1>4. ASSUME NEW k \in Jobs, ChannelOf[k] = ChannelOf[j]
      PROVE  PhaseOf[k] \notin {"asked", "linked"}
  <2>1. PhaseOf[k] \in {"asked", "linked"}
          => Conversing(k) /\ pc[k] \in {"responding", "delivering"}
    BY DEF PhaseOf, Asked, Asking, Thread, Placed, TypeOK, Inside, Returned
  <2>2. pc[j] \in Inside /\ pc[j] \notin {"responding", "delivering"}
    BY DEF Inside
  <2> QED
    BY <1>2, <1>4, <2>1, <2>2, Exclusion DEF Inside
<1>5. PhaseOf' = [PhaseOf EXCEPT ![j] = "asked"]
  BY <1>1, <1>2 DEF PhaseOf, Asked, Conversing, Returned
<1>6. ParentOf' = [ParentOf EXCEPT ![j] = thread[ChannelOf[j]]]
  BY <1>1, <1>2 DEF ParentOf, Asked, Conversing
<1> QED
  BY <1>3, <1>4, <1>5, <1>6 DEF Conv!Ask

\* A reply with an ID is the next turn of its channel.
LEMMA ConvLinks ==
  ASSUME TypeOK, Thread, Asking, NEW j \in Jobs, Conversing(j),
         pc[j] = "responding", Goto(j, "delivering"),
         UNCHANGED <<prev, posted, gateway>>,
         thread' = [thread EXCEPT ![ChannelOf[j]] = j],
         linked' = [linked EXCEPT ![j] = TRUE]
  PROVE  Conv!Link(j)
<1>1. /\ pc'[j] = "delivering" /\ linked'[j] /\ ~linked[j] /\ Asked(j)
      /\ \A k \in Jobs : k # j => pc'[k] = pc[k] /\ linked'[k] = linked[k]
      /\ prev[j] = thread[ChannelOf[j]]
  <2>1. /\ pc'[j] = "delivering" /\ linked'[j]
        /\ \A k \in Jobs : k # j => pc'[k] = pc[k] /\ linked'[k] = linked[k]
    BY DEF Goto, TypeOK
  <2>2. ~linked[j] /\ Asked(j)
    BY DEF Thread, Placed, Returned, Asked, Asking
  <2>3. prev[j] = thread[ChannelOf[j]]
    BY DEF Thread, PrevIsCurrent
  <2> QED
    BY <2>1, <2>2, <2>3
<1>2. PhaseOf[j] = "asked"
  BY <1>1 DEF PhaseOf, Returned
<1>3. PhaseOf' = [PhaseOf EXCEPT ![j] = "linked"]
  BY <1>1 DEF PhaseOf, Returned, Asked
<1>4. ParentOf[j] = thread[ChannelOf[j]] /\ ParentOf' = ParentOf
  BY <1>1 DEF ParentOf, Asked
<1> QED
  BY <1>2, <1>3, <1>4 DEF Conv!Link

\* A post that Zoho took is said while the job's turn is the channel's last.
LEMMA ConvSays ==
  ASSUME TypeOK, Thread, Said, Asking, NEW j \in Jobs, pc[j] = "delivering",
         UNCHANGED <<pc, thread, linked, prev, gateway>>,
         posted' = [posted EXCEPT ![ChannelOf[j]] =
                      Append(posted[ChannelOf[j]], j)]
  PROVE  Conv!Say(j)
<1>1. PhaseOf[j] \in {"asked", "linked"}
  BY DEF PhaseOf, Asked, Asking, Thread, Placed, Returned
<1>2. PhaseOf[j] = "linked" => thread[ChannelOf[j]] = j
  BY DEF PhaseOf, Thread, Placed
<1>3. j \in Range(posted[ChannelOf[j]])
        => posted[ChannelOf[j]][Len(posted[ChannelOf[j]])] = j
  BY DEF Said
<1>4. ParentOf' = ParentOf /\ PhaseOf' = PhaseOf
  BY DEF ParentOf, PhaseOf, Asked
<1> QED
  BY <1>1, <1>2, <1>3, <1>4 DEF Conv!Say, Conv!Range, Range

LEMMA ConvNext ==
  TypeOK /\ LockOwner /\ Thread /\ Said /\ Asking /\ [Next]_vars
    => [Conv!Next]_Conv!vars
<1> SUFFICES ASSUME TypeOK, LockOwner, Thread, Said, Asking, [Next]_vars
             PROVE  [Conv!Next]_Conv!vars
  OBVIOUS
<1>1. ASSUME NEW j \in Jobs, Step(j)
      PROVE  \/ Conv!Ask(j) \/ Conv!Link(j) \/ Conv!Say(j) \/ Conv!Close(j)
             \/ UNCHANGED Conv!vars
  <2>1. linked[j] => pc[j] \in {"delivering"} \cup Returned
    BY DEF Thread, Placed
  <2>2. CASE \/ DropFile(j) \/ GiveUp(j) \/ Fail(j) \/ TakeRawReply(j)
             \/ PostPanics(j) \/ Finish(j)
    BY <2>2, ConvCloses
       DEF DropFile, GiveUp, Fail, TakeRawReply, PostPanics, Finish, Leave,
           Returned
  <2>3. CASE \/ ForwardRaw(j) \/ AcquireChannel(j) \/ QueueBehind(j)
             \/ AskToken(j) \/ StartDownload(j)
    <3>1. /\ UNCHANGED <<thread, linked, posted>>
          /\ \A k \in Jobs :
               k # j => /\ pc'[k] = pc[k] /\ prev'[k] = prev[k]
                        /\ gateway'[k] = gateway[k]
          /\ pc[j] \notin Returned /\ pc'[j] \notin Returned
      BY <2>3 DEF ForwardRaw, AcquireChannel, QueueBehind, AskToken,
                  StartDownload, Goto, TypeOK, Returned
    <3>2. ~Asked(j) /\ ~Asked(j)'
      BY <2>3 DEF ForwardRaw, AcquireChannel, QueueBehind, AskToken,
                  StartDownload, Asked, Asking, Conversing
    <3>3. \A k \in Jobs : k # j => (Asked(k)' <=> Asked(k))
      BY <3>1 DEF Asked, Conversing
    <3>4. /\ \A k \in Jobs : Asked(k)' <=> Asked(k)
          /\ \A k \in Jobs : Asked(k) => prev'[k] = prev[k]
          /\ \A k \in Jobs : pc'[k] \in Returned <=> pc[k] \in Returned
      BY <3>1, <3>2, <3>3
    <3> QED
      BY <3>1, <3>4, ConvStutters
  <2>4. CASE Forward(j)
    <3>1. /\ prev'[j] = thread[ChannelOf[j]]
          /\ \A k \in Jobs : k # j => prev'[k] = prev[k]
      BY <2>4 DEF Forward, TypeOK
    <3> QED
      BY <2>4, <3>1, ConvAsks DEF Forward
  <2>5. CASE RespondToFile(j)
    <3>1. /\ prev'[j] = thread[ChannelOf[j]]
          /\ \A k \in Jobs : k # j => prev'[k] = prev[k]
      BY <2>5 DEF RespondToFile, Thread, PrevIsCurrent, Placed
    <3> QED
      BY <2>5, <3>1, ConvAsks DEF RespondToFile
  <2>6. CASE TakeReply(j)
    <3>1. PICK r \in Replies :
            /\ thread' = IF r.hasID THEN [thread EXCEPT ![ChannelOf[j]] = j]
                         ELSE thread
            /\ linked' = [linked EXCEPT ![j] = r.hasID]
      BY <2>6 DEF TakeReply
    <3>2. /\ r.hasID \in BOOLEAN /\ Conversing(j) /\ pc[j] = "responding"
          /\ Goto(j, "delivering") /\ UNCHANGED <<prev, posted, gateway>>
      BY <2>6, DispatcherAssumption DEF TakeReply, ReplyType, Conversing
    <3>3. CASE r.hasID
      <4>1. linked' = [linked EXCEPT ![j] = TRUE]
        BY <3>1, <3>2, <3>3
      <4> QED
        BY <3>1, <3>2, <3>3, <4>1, ConvLinks
    <3>4. CASE ~r.hasID
      <4>1. ~linked[j] /\ linked' = [linked EXCEPT ![j] = FALSE]
        BY <2>1, <3>1, <3>2, <3>4 DEF Returned
      <4>2. linked' = linked
        BY <4>1 DEF TypeOK
      <4>3. \A k \in Jobs : pc'[k] \in Returned <=> pc[k] \in Returned
        BY <3>2 DEF Goto, TypeOK, Returned
      <4>4. \A k \in Jobs : Asked(k)' <=> Asked(k)
        BY <3>2 DEF Asked
      <4> QED
        BY <3>1, <3>2, <3>4, <4>2, <4>3, <4>4, ConvStutters
    <3> QED
      BY <3>3, <3>4
  <2>7. CASE Post(j)
    <3>1. CASE posted' = posted
      BY <2>7, <3>1, ConvStutters DEF Post, Asked
    <3>2. CASE posted' = [posted EXCEPT ![ChannelOf[j]] =
                            Append(posted[ChannelOf[j]], j)]
      BY <2>7, <3>2, ConvSays DEF Post
    <3> QED
      BY <2>7, <3>1, <3>2 DEF Post
  <2> QED
    BY <1>1, <2>2, <2>3, <2>4, <2>5, <2>6, <2>7 DEF Step
<1>2. ASSUME NEW j \in Jobs, GatewayDone(j)
      PROVE  UNCHANGED Conv!vars
  <2>1. UNCHANGED <<pc, thread, prev, linked, posted>>
    BY <1>2 DEF GatewayDone
  <2>2. \A k \in Jobs : Asked(k)' <=> Asked(k)
    BY <1>2 DEF GatewayDone, Asked, Conversing, TypeOK
  <2> QED
    BY <2>1, <2>2, ConvStutters
<1>3. CASE UNCHANGED <<pc, thread, prev, linked, posted, gateway>>
  BY <1>3, ConvStutters DEF Asked
<1>4. ASSUME NEW j \in Jobs, Step(j)
      PROVE  [Conv!Next]_Conv!vars
  BY <1>1, <1>4 DEF Conv!Next
<1> QED
  BY <1>2, <1>3, <1>4
     DEF Next, Stream, StreamFind, StreamPanics, StreamStop, Expire,
         Terminated, vars

\* Every behaviour of the dispatcher is one of Conversation's: the agent is asked
\* one message of a channel at a time and to continue its last stored reply, so a
\* session is started anew only while the channel has none; and a job's posts
\* come together and in turn.
THEOREM ImplementsConversation == Spec => KeepsConversations
<1>1. Init => Conv!Init
  <2>1. ASSUME Init
        PROVE  ParentOf = [j \in Jobs |-> NONE] /\ PhaseOf = [j \in Jobs |-> "open"]
    BY <2>1 DEF Init, ParentOf, PhaseOf, Asked, Returned
  <2> QED
    BY <2>1 DEF Init, Conv!Init
<1> QED
  BY <1>1, ConvNext, AskingCorrect, SaidCorrect, ThreadCorrect, LockCorrect,
     TypeCorrect, PTL
     DEF Spec, KeepsConversations, Conv!Spec
=============================================================================
