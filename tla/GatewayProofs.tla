---------------------------- MODULE GatewayProofs ----------------------------
(***************************************************************************)
(* Proofs about Gateway, for any set of calls, any sharing of paths and    *)
(* any sizes, streams, retries and backoffs.  The answer and the retries   *)
(* need only the types; the files need to know which call holds which      *)
(* file, and that a call works only on files of its own path.              *)
(***************************************************************************)
EXTENDS Gateway, TLAPS

USE GatewayAssumption

LEMMA FilesAreCalls == Files \subseteq Calls /\ NONE \notin Files /\ HOLE \notin Files
BY DEF Files

USE FilesAreCalls

-----------------------------------------------------------------------------
(* Typing *)

LEMMA TypeInit == Init => TypeOK
BY DEF Init, TypeOK, Returned

LEMMA DownloadType ==
  ASSUME TypeOK, NEW c \in Calls, Download(c)
  PROVE  TypeOK'
<1> USE DEF TypeOK, Goto, Returned, result, files, retry
<1>1. CASE DownloadFails(c)
  BY <1>1 DEF DownloadFails
<1>2. CASE Create(c)
  <2> DEFINE f == IF dir[PathOf[c]] = NONE THEN c ELSE dir[PathOf[c]]
  <2>1. c \in Files /\ PathOf[c] \in Paths
    <3> HIDE DEF TypeOK
    <3> QED
      BY <1>2 DEF Create, Paths
  <2>2. f \in Files /\ f # NONE
    <3>1. dir[PathOf[c]] \in Files \cup {NONE} /\ NONE \notin Files
      BY <2>1 DEF Files
    <3> HIDE DEF TypeOK
    <3> QED
      BY <2>1, <3>1
  <2>3. disturbed' \in [Files -> BOOLEAN]
    BY <1>2 DEF Create, Disturb
  <2>4. /\ dir' = [dir EXCEPT ![PathOf[c]] = f]
        /\ file' = [file EXCEPT ![c] = f]
        /\ data' = [data EXCEPT ![f] = <<>>]
        /\ pc' = [pc EXCEPT ![c] = "copying"]
        /\ UNCHANGED <<made, result, written, lost, retry>>
    BY <1>2 DEF Create
  <2> HIDE DEF f
  <2>5. /\ dir \in [Paths -> Files \cup {NONE}]
        /\ data \in [Files -> Seq(Files \cup {HOLE})]
        /\ file \in [Files -> Files \cup {NONE}]
    OBVIOUS
  <2>6. /\ dir' \in [Paths -> Files \cup {NONE}]
        /\ data' \in [Files -> Seq(Files \cup {HOLE})]
        /\ file' \in [Files -> Files \cup {NONE}]
    <3> HIDE DEF TypeOK
    <3>1. <<>> \in Seq(Files \cup {HOLE})
      OBVIOUS
    <3> QED
      BY <2>2, <2>4, <2>5, <3>1
  <2>7. \A d \in Files : pc'[d] \in {"copying", "removing"} => file'[d] # NONE
    BY <2>1, <2>2, <2>4
  <2> QED
    BY <2>3, <2>4, <2>5, <2>6, <2>7
<1>3. CASE Write(c)
  <2>1. c \in Files /\ file[c] \in Files /\ written[c] \in Nat /\ SizeOf[c] \in Nat
    BY <1>3 DEF Write
  <2>2. disturbed' \in [Files -> BOOLEAN]
    BY <1>3 DEF Write, Disturb
  <2>3. ASSUME NEW s \in Seq(Files \cup {HOLE})
        PROVE  Written(s, c) \in Seq(Files \cup {HOLE})
    <3> HIDE DEF TypeOK
    <3> DEFINE m == IF Len(s) < written[c] + 1 THEN written[c] + 1 ELSE Len(s)
    <3> DEFINE g(i) ==
          IF i = written[c] + 1 THEN c ELSE IF i <= Len(s) THEN s[i] ELSE HOLE
    <3>1. m \in Nat
      BY <2>1
    <3>2. \A i \in 1..m : g(i) \in Files \cup {HOLE}
      <4>1. \A i \in 1..m : i <= Len(s) => s[i] \in Files \cup {HOLE}
        OBVIOUS
      <4> QED
        BY <2>1, <4>1
    <3>3. Written(s, c) = [i \in 1..m |-> g(i)]
      BY DEF Written
    <3> HIDE DEF m, g
    <3> QED
      BY <3>1, <3>2, <3>3
  <2>4. data' \in [Files -> Seq(Files \cup {HOLE})]
    <3>1. data' = [data EXCEPT ![file[c]] = Written(data[file[c]], c)]
      BY <1>3 DEF Write
    <3>2. data \in [Files -> Seq(Files \cup {HOLE})]
      OBVIOUS
    <3> HIDE DEF TypeOK
    <3>3. Written(data[file[c]], c) \in Seq(Files \cup {HOLE})
      BY <2>1, <2>3, <3>2
    <3> QED
      BY <3>1, <3>2, <3>3
  <2>5. /\ written' \in [Files -> Nat]
        /\ \A d \in Files : written'[d] <= SizeOf[d]
    <3>1. /\ written' = [written EXCEPT ![c] = written[c] + 1]
          /\ written[c] < SizeOf[c]
      BY <1>3 DEF Write
    <3>2. /\ written \in [Files -> Nat]
          /\ \A d \in Files : written[d] <= SizeOf[d]
      OBVIOUS
    <3> HIDE DEF TypeOK
    <3> QED
      BY <2>1, <3>1, <3>2
  <2> QED
    BY <1>3, <2>2, <2>4, <2>5 DEF Write
<1>4. CASE Copied(c)
  BY <1>4 DEF Copied
<1>5. CASE CopyFails(c)
  BY <1>5 DEF CopyFails
<1>6. CASE Remove(c)
  <2>1. disturbed' \in [Files -> BOOLEAN]
    BY <1>6 DEF Remove, Disturb
  <2>2. dir' \in [Paths -> Files \cup {NONE}]
    <3>1. dir \in [Paths -> Files \cup {NONE}]
      OBVIOUS
    <3> HIDE DEF TypeOK
    <3> QED
      BY <1>6, <3>1 DEF Remove
  <2>3. /\ c \in Files
        /\ pc' = [pc EXCEPT ![c] = "unsaved"]
        /\ UNCHANGED <<made, stream, responseID, text, toolCalls, data, file, written,
                       lost, attempts, wait, handled>>
    BY <1>6 DEF Remove
  <2> QED
    BY <2>1, <2>2, <2>3
<1>7. CASE CloseFails(c)
  <2>1. c \in Files /\ file[c] \in Files
    BY <1>7 DEF CloseFails
  <2>2. disturbed' \in [Files -> BOOLEAN]
    BY <1>7 DEF CloseFails, Disturb
  <2>3. PICK n \in 0..Len(data[file[c]]) :
          data' = [data EXCEPT ![file[c]] = SubSeq(data[file[c]], 1, n)]
    BY <1>7 DEF CloseFails
  <2>4. data' \in [Files -> Seq(Files \cup {HOLE})]
    <3>1. data \in [Files -> Seq(Files \cup {HOLE})]
      OBVIOUS
    <3> HIDE DEF TypeOK
    <3>2. SubSeq(data[file[c]], 1, n) \in Seq(Files \cup {HOLE})
      BY <2>1, <3>1
    <3> QED
      BY <2>3, <3>1, <3>2
  <2> QED
    BY <1>7, <2>2, <2>4 DEF CloseFails
<1> QED
  BY <1>1, <1>2, <1>3, <1>4, <1>5, <1>6, <1>7 DEF Download

LEMMA RespondType ==
  ASSUME TypeOK, NEW c \in Calls, Respond(c)
  PROVE  TypeOK'
<1> USE DEF TypeOK, Goto, Returned, result, files, retry
<1>1. CASE Answered(c)
  BY <1>1 DEF Answered
<1>2. CASE AskFails(c)
  BY <1>2 DEF AskFails
<1>3. CASE Read(c)
  <2>1. PICK e \in StreamOf[c] :
          /\ stream' = [stream EXCEPT ![c] = Append(@, e)]
          /\ responseID' = [responseID EXCEPT ![c] =
               IF e = "completed" \/ (e = "created" /\ @ = 0) THEN Len(stream[c]) + 1 ELSE @]
          /\ text' = [text EXCEPT ![c] = IF e = "text" THEN Len(stream[c]) + 1 ELSE @]
          /\ toolCalls' = [toolCalls EXCEPT ![c] =
               IF e = "tool" THEN Append(@, Len(stream[c]) + 1) ELSE @]
    BY <1>3 DEF Read
  <2>2. e \in Events
    OBVIOUS
  <2>3. Len(stream[c]) + 1 \in Nat
    OBVIOUS
  <2>4. stream' \in [Calls -> Seq(Events)]
    BY <2>1, <2>2
  <2>5. responseID' \in [Calls -> Nat] /\ text' \in [Calls -> Nat]
    BY <2>1, <2>3
  <2>6. toolCalls' \in [Calls -> Seq(Nat)]
    BY <2>1, <2>3
  <2> QED
    BY <1>3, <2>4, <2>5, <2>6 DEF Read
<1>4. CASE Done(c)
  BY <1>4 DEF Done
<1>5. CASE ReadFails(c)
  BY <1>5 DEF ReadFails
<1> QED
  BY <1>1, <1>2, <1>3, <1>4, <1>5 DEF Respond

-----------------------------------------------------------------------------
(* The retries *)

\* Every wait is capped, also one whose product overflows.
LEMMA BackoffCapped ==
  ASSUME NEW n \in Nat, NEW d \in Backoff(n)
  PROVE  d \in Int /\ d <= MaxBackoff
<1>1. 2 ^ n \in Int /\ 2 ^ (Width - 1) \in Int
  <2>1. \A m \in Nat : 2 ^ m \in Int
    BY SMT
  <2>2. Width - 1 \in Nat
    OBVIOUS
  <2> QED
    BY <2>1, <2>2
<1>2. InitialBackoff * 2 ^ n \in Int
  BY <1>1
<1> QED
  BY <1>1, <1>2 DEF Backoff

\* No step of a call puts another one between two attempts.
RetryOf(c) ==
  /\ pc[c] = "ok" /\ KindOf[c] = "hook" => handled[c] > 0
  /\ pc[c] \in {"asking", "streaming"} => KindOf[c] # "hook"
  /\ handled[c] <= attempts[c]
  /\ pc[c] \in {"idle", "trying", "waiting"} => attempts[c] <= MaxRetries
  /\ wait[c] <= MaxBackoff
  /\ pc[c] \in {"downloading", "copying", "removing", "unsaved"} => c \in Files

RetryInv == \A c \in Calls : RetryOf(c)

LEMMA ForwardType ==
  ASSUME TypeOK, RetryInv, NEW c \in Calls, Forward(c)
  PROVE  TypeOK'
<1> USE DEF TypeOK, Goto, Returned, result, files, retry
<1>0. ASSUME pc[c] = "trying", attempts' = [attempts EXCEPT ![c] = @ + 1]
      PROVE  attempts' \in [Calls -> 0..(MaxRetries + 1)]
  <2>1. attempts[c] \in Nat /\ attempts[c] <= MaxRetries
    BY <1>0 DEF RetryInv, RetryOf
  <2>2. attempts[c] + 1 \in 0..(MaxRetries + 1)
    BY <2>1
  <2> QED
    BY <1>0, <2>2
<1>1. CASE HookTaken(c)
  <2>1. handled' = [handled EXCEPT ![c] = handled[c] + 1] /\ handled[c] \in Nat
    BY <1>1 DEF HookTaken
  <2>2. handled' \in [Calls -> Nat]
    BY <2>1
  <2> QED
    BY <1>0, <1>1, <2>2 DEF HookTaken
<1>2. CASE HookRefused(c)
  BY <1>0, <1>2 DEF HookRefused
<1>3. ASSUME pc[c] = "trying", Again(c)
      PROVE  /\ pc' \in [Calls -> {"idle", "downloading", "copying", "removing", "asking",
                                   "streaming", "trying", "waiting"} \cup Returned]
             /\ attempts' \in [Calls -> 0..(MaxRetries + 1)]
             /\ wait' \in [Calls -> Int]
             /\ pc'[c] \in {"waiting", "error"}
             /\ \A d \in Calls \ {c} : pc'[d] = pc[d]
  <2>1. attempts[c] \in Nat /\ attempts[c] <= MaxRetries
    BY <1>3 DEF RetryInv, RetryOf
  <2>2. attempts' \in [Calls -> 0..(MaxRetries + 1)]
    BY <1>0, <1>3 DEF Again
  <2>3. wait' \in [Calls -> Int]
    <3>1. \/ wait' = wait
          \/ \E d \in Backoff(attempts[c]) : wait' = [wait EXCEPT ![c] = d]
      BY <1>3 DEF Again
    <3>2. \A d \in Backoff(attempts[c]) : d \in Int
      BY <2>1, BackoffCapped
    <3>3. wait \in [Calls -> Int]
      OBVIOUS
    <3>4. \A d \in Int : [wait EXCEPT ![c] = d] \in [Calls -> Int]
      BY <3>3
    <3> HIDE DEF TypeOK
    <3> QED
      BY <3>1, <3>2, <3>3, <3>4
  <2>4. pc' = [pc EXCEPT ![c] = "error"] \/ pc' = [pc EXCEPT ![c] = "waiting"]
    BY <1>3 DEF Again
  <2>5. pc' \in [Calls -> {"idle", "downloading", "copying", "removing", "asking",
                          "streaming", "trying", "waiting"} \cup Returned]
    <3>1. CASE pc' = [pc EXCEPT ![c] = "error"]
      BY <3>1
    <3>2. CASE pc' = [pc EXCEPT ![c] = "waiting"]
      BY <3>2
    <3> QED
      BY <2>4, <3>1, <3>2
  <2> QED
    BY <2>2, <2>3, <2>4, <2>5
<1>4. CASE HookBusy(c)
  <2>1. pc[c] = "trying" /\ Again(c) /\ UNCHANGED <<made, result, files, handled>>
    BY <1>4 DEF HookBusy
  <2> QED
    BY <1>3, <2>1
<1>5. CASE HookLost(c)
  <2>1. pc[c] = "trying" /\ Again(c) /\ UNCHANGED <<made, result, files>>
    BY <1>5 DEF HookLost
  <2>2. handled' \in [Calls -> Nat]
    <3>1. /\ handled' = handled \/ handled' = [handled EXCEPT ![c] = handled[c] + 1]
          /\ handled \in [Calls -> Nat]
      BY <1>5 DEF HookLost
    <3>2. handled[c] + 1 \in Nat
      BY <3>1
    <3> HIDE DEF TypeOK
    <3> QED
      BY <3>1, <3>2
  <2> QED
    BY <1>3, <2>1, <2>2
<1>6. CASE WaitOver(c)
  BY <1>6 DEF WaitOver
<1>7. CASE Cancelled(c)
  BY <1>7 DEF Cancelled
<1> QED
  BY <1>1, <1>2, <1>4, <1>5, <1>6, <1>7 DEF Forward

LEMMA TypeNext == TypeOK /\ RetryInv /\ [Next]_vars => TypeOK'
<1> SUFFICES ASSUME TypeOK, RetryInv, [Next]_vars
             PROVE  TypeOK'
  OBVIOUS
<1>1. ASSUME NEW c \in Calls, Begin(c)
      PROVE  TypeOK'
  BY <1>1 DEF TypeOK, Begin, Goto, Returned, result, files, retry
<1>2. CASE UNCHANGED vars
  BY <1>2 DEF TypeOK, vars, result, files, retry, Returned
<1> QED
  BY <1>1, <1>2, DownloadType, RespondType, ForwardType DEF Next, Terminated

LEMMA RetryInit == Init => RetryInv
<1> SUFFICES ASSUME Init, NEW c \in Calls
             PROVE  RetryOf(c)
  BY DEF RetryInv
<1>1. pc[c] = "idle" /\ handled[c] = 0 /\ attempts[c] = 0 /\ wait[c] = 0
  BY DEF Init
<1>2. 0 <= MaxRetries /\ 0 <= MaxBackoff /\ 0 <= 0
  OBVIOUS
<1> QED
  BY <1>1, <1>2 DEF RetryOf

LEMMA RetryNext == TypeOK /\ RetryInv /\ [Next]_vars => RetryInv'
<1> SUFFICES ASSUME TypeOK, RetryInv, [Next]_vars, NEW d \in Calls
             PROVE  RetryOf(d)'
  BY DEF RetryInv
<1>0. /\ RetryOf(d)
      /\ DOMAIN pc = Calls /\ DOMAIN attempts = Calls
      /\ DOMAIN wait = Calls /\ DOMAIN handled = Calls
      /\ attempts[d] \in Nat /\ wait[d] \in Int /\ handled[d] \in Nat
  BY DEF TypeOK, RetryInv
<1> USE DEF Goto, result, files, retry
<1>1. ASSUME NEW c \in Calls, Begin(c)
      PROVE  RetryOf(d)'
  BY <1>0, <1>1 DEF Begin, RetryOf, Files
<1>2. ASSUME NEW c \in Calls, Download(c)
      PROVE  RetryOf(d)'
  <2>1. UNCHANGED retry
    BY <1>2 DEF Download, DownloadFails, Create, Write, Copied, CloseFails,
               CopyFails, Remove
  <2>2. PICK w \in {"error", "copying", "asking", "removing", "unsaved"} :
          pc' = pc \/ pc' = [pc EXCEPT ![c] = w]
    BY <1>2 DEF Download, DownloadFails, Create, Write, Copied, CloseFails,
               CopyFails, Remove
  <2>3. pc[c] \in {"downloading", "copying", "removing"}
    BY <1>2 DEF Download, DownloadFails, Create, Write, Copied, CloseFails,
               CopyFails, Remove
  <2>4. c \in Files /\ KindOf[c] # "hook"
    BY <2>3 DEF RetryInv, RetryOf, Files
  <2> QED
    BY <1>0, <2>1, <2>2, <2>4 DEF RetryOf
<1>3. ASSUME NEW c \in Calls, Respond(c)
      PROVE  RetryOf(d)'
  <2>1. UNCHANGED retry
    BY <1>3 DEF Respond, Answered, AskFails, Read, Done, ReadFails
  <2>2. PICK w \in {"error", "streaming", "ok"} :
          pc' = pc \/ pc' = [pc EXCEPT ![c] = w]
    BY <1>3 DEF Respond, Answered, AskFails, Read, Done, ReadFails
  <2>3. pc[c] \in {"asking", "streaming"}
    BY <1>3 DEF Respond, Answered, AskFails, Read, Done, ReadFails
  <2>4. KindOf[c] # "hook"
    BY <2>3 DEF RetryInv, RetryOf
  <2> QED
    BY <1>0, <2>1, <2>2, <2>4 DEF RetryOf
<1>4. ASSUME NEW c \in Calls, HookTaken(c)
      PROVE  RetryOf(d)'
  <2>1. /\ attempts' = [attempts EXCEPT ![c] = attempts[c] + 1]
        /\ handled' = [handled EXCEPT ![c] = handled[c] + 1]
        /\ pc' = [pc EXCEPT ![c] = "ok"]
        /\ UNCHANGED wait
    BY <1>4 DEF HookTaken
  <2> QED
    BY <1>0, <2>1 DEF RetryOf
<1>5. ASSUME NEW c \in Calls, HookRefused(c)
      PROVE  RetryOf(d)'
  <2>1. /\ attempts' = [attempts EXCEPT ![c] = attempts[c] + 1]
        /\ pc' = [pc EXCEPT ![c] = "error"]
        /\ UNCHANGED <<wait, handled>>
    BY <1>5 DEF HookRefused
  <2> QED
    BY <1>0, <2>1 DEF RetryOf
<1>6. ASSUME NEW c \in Calls, HookBusy(c) \/ HookLost(c)
      PROVE  RetryOf(d)'
  <2>1. /\ pc[c] = "trying" /\ Again(c)
        /\ handled' = handled \/ handled' = [handled EXCEPT ![c] = handled[c] + 1]
    BY <1>6 DEF HookBusy, HookLost
  <2>2. attempts' = [attempts EXCEPT ![c] = attempts[c] + 1]
    BY <2>1 DEF Again
  <2>3. wait'[d] <= MaxBackoff
    <3>1. CASE wait' = wait
      BY <1>0, <3>1 DEF RetryOf
    <3>2. ASSUME NEW w \in Backoff(attempts[c]), wait' = [wait EXCEPT ![c] = w]
          PROVE  wait'[d] <= MaxBackoff
      <4>1. attempts[c] \in Nat
        BY DEF TypeOK
      <4>2. w <= MaxBackoff
        BY <4>1, BackoffCapped
      <4> QED
        BY <1>0, <3>2, <4>2 DEF RetryOf
    <3> QED
      BY <2>1, <3>1, <3>2 DEF Again
  <2>4. handled'[d] <= attempts'[d]
    BY <1>0, <2>1, <2>2 DEF RetryOf
  <2>5. \/ attempts'[c] = MaxRetries + 1 /\ pc' = [pc EXCEPT ![c] = "error"]
        \/ attempts'[c] # MaxRetries + 1 /\ pc' = [pc EXCEPT ![c] = "waiting"]
    BY <2>1 DEF Again, LastAttempt
  <2>6. pc'[d] \in {"idle", "trying", "waiting"} => attempts'[d] <= MaxRetries
    <3>1. CASE d = c
      <4>1. attempts[c] <= MaxRetries
        BY <1>0, <2>1, <3>1 DEF RetryOf
      <4>2. attempts'[c] = attempts[c] + 1
        BY <1>0, <2>2
      <4> QED
        BY <1>0, <2>5, <3>1, <4>1, <4>2
    <3>2. CASE d # c
      BY <1>0, <2>2, <2>5, <3>2 DEF RetryOf
    <3> QED
      BY <3>1, <3>2
  <2>7. pc'[d] = "ok" /\ KindOf[d] = "hook" => handled'[d] > 0
    BY <1>0, <2>1, <2>5 DEF RetryOf
  <2>8. /\ pc'[d] \in {"asking", "streaming"} => KindOf[d] # "hook"
        /\ pc'[d] \in {"downloading", "copying", "removing", "unsaved"} => d \in Files
    BY <1>0, <2>5 DEF RetryOf
  <2> QED
    BY <2>3, <2>4, <2>6, <2>7, <2>8 DEF RetryOf
<1>7. ASSUME NEW c \in Calls, WaitOver(c) \/ Cancelled(c)
      PROVE  RetryOf(d)'
  <2>1. /\ pc[c] \in {"trying", "waiting"} /\ UNCHANGED retry
        /\ pc' = [pc EXCEPT ![c] = "trying"] \/ pc' = [pc EXCEPT ![c] = "error"]
    BY <1>7 DEF WaitOver, Cancelled
  <2> QED
    BY <1>0, <2>1 DEF RetryOf
<1>8. CASE UNCHANGED vars
  BY <1>0, <1>8 DEF vars, RetryOf
<1> QED
  BY <1>1, <1>2, <1>3, <1>4, <1>5, <1>6, <1>7, <1>8 DEF Next, Forward, Terminated

LEMMA TypeAndRetry == Spec => [](TypeOK /\ RetryInv)
<1>1. Init => TypeOK /\ RetryInv
  BY TypeInit, RetryInit
<1>2. TypeOK /\ RetryInv /\ [Next]_vars => (TypeOK /\ RetryInv)'
  BY TypeNext, RetryNext
<1> QED
  BY <1>1, <1>2, PTL DEF Spec

\* The types, among them that a call copies or removes only a file it has opened,
\* never writes more than the attachment has, and sends at most MaxRetries + 1
\* requests.
THEOREM TypeCorrect == Spec => []TypeOK
BY TypeAndRetry, PTL

\* doWithRetry reports success only for a hook that was taken, stops after
\* MaxRetries + 1 attempts and caps every wait, overflow included.
THEOREM RetriesBounded == Spec => []RetriesAreBounded
<1>1. RetryInv => RetriesAreBounded
  BY DEF RetryInv, RetryOf, RetriesAreBounded
<1> QED
  BY <1>1, TypeAndRetry, PTL

-----------------------------------------------------------------------------
(* The answer *)

\* What ReplyMatchesStream says of one call.
ReplyOf(c) ==
  /\ text[c] \in At(c, "text") \cup {0}
  /\ \A i \in At(c, "text") : i <= text[c]
  /\ IF At(c, "completed") # {}
     THEN /\ responseID[c] \in At(c, "completed")
          /\ \A i \in At(c, "completed") : i <= responseID[c]
     ELSE /\ responseID[c] \in At(c, "created") \cup {0}
          /\ \A i \in At(c, "created") : 0 < responseID[c] /\ responseID[c] <= i
  /\ {toolCalls[c][n] : n \in DOMAIN toolCalls[c]} = At(c, "tool")
  /\ \A m, n \in DOMAIN toolCalls[c] : m < n => toolCalls[c][m] < toolCalls[c][n]

LEMMA ReplyIsReplyOf == ReplyMatchesStream <=> \A c \in Calls : ReplyOf(c)
BY DEF ReplyMatchesStream, ReplyOf

LEMMA ReplyInit == Init => ReplyMatchesStream
<1> SUFFICES ASSUME Init, NEW c \in Calls
             PROVE  ReplyOf(c)
  BY ReplyIsReplyOf
<1>1. stream[c] = <<>> /\ text[c] = 0 /\ responseID[c] = 0 /\ toolCalls[c] = <<>>
  BY DEF Init
<1>2. \A e : At(c, e) = {}
  BY <1>1 DEF At
<1> QED
  BY <1>1, <1>2 DEF ReplyOf

\* One more event adds its place to those of its kind.
LEMMA AtAppend ==
  ASSUME TypeOK, NEW c \in Calls, NEW e \in Events,
         stream' = [stream EXCEPT ![c] = Append(@, e)]
  PROVE  \A x : At(c, x)' = IF x = e THEN At(c, x) \cup {Len(stream[c]) + 1} ELSE At(c, x)
<1>1. stream[c] \in Seq(Events) /\ stream'[c] = Append(stream[c], e)
  BY DEF TypeOK
<1>2. /\ DOMAIN stream'[c] = DOMAIN stream[c] \cup {Len(stream[c]) + 1}
      /\ stream'[c][Len(stream[c]) + 1] = e
      /\ \A i \in DOMAIN stream[c] : stream'[c][i] = stream[c][i]
      /\ Len(stream[c]) + 1 \notin DOMAIN stream[c]
  BY <1>1
<1> QED
  BY <1>2 DEF At

LEMMA AtBound ==
  ASSUME TypeOK, NEW c \in Calls, NEW x
  PROVE  \A i \in At(c, x) : i \in Nat /\ 0 < i /\ i < Len(stream[c]) + 1
<1>1. stream[c] \in Seq(Events)
  BY DEF TypeOK
<1> QED
  BY <1>1 DEF At

LEMMA ReplyRead ==
  ASSUME TypeOK, NEW c \in Calls, ReplyOf(c), Read(c)
  PROVE  ReplyOf(c)'
<1> DEFINE n == Len(stream[c]) + 1
<1>1. PICK e \in StreamOf[c] :
        /\ stream' = [stream EXCEPT ![c] = Append(@, e)]
        /\ responseID' = [responseID EXCEPT ![c] =
             IF e = "completed" \/ (e = "created" /\ @ = 0) THEN n ELSE @]
        /\ text' = [text EXCEPT ![c] = IF e = "text" THEN n ELSE @]
        /\ toolCalls' = [toolCalls EXCEPT ![c] = IF e = "tool" THEN Append(@, n) ELSE @]
  BY DEF Read
<1>2. e \in Events
  OBVIOUS
<1>3. /\ responseID'[c] =
           IF e = "completed" \/ (e = "created" /\ responseID[c] = 0) THEN n ELSE responseID[c]
      /\ text'[c] = IF e = "text" THEN n ELSE text[c]
      /\ toolCalls'[c] = IF e = "tool" THEN Append(toolCalls[c], n) ELSE toolCalls[c]
      /\ n \in Nat /\ 0 < n
      /\ text[c] \in Nat /\ responseID[c] \in Nat /\ toolCalls[c] \in Seq(Nat)
  BY <1>1 DEF TypeOK
<1> HIDE DEF n
<1>4. /\ At(c, "text")' = IF e = "text" THEN At(c, "text") \cup {n} ELSE At(c, "text")
      /\ At(c, "tool")' = IF e = "tool" THEN At(c, "tool") \cup {n} ELSE At(c, "tool")
      /\ At(c, "created")' =
           IF e = "created" THEN At(c, "created") \cup {n} ELSE At(c, "created")
      /\ At(c, "completed")' =
           IF e = "completed" THEN At(c, "completed") \cup {n} ELSE At(c, "completed")
  BY <1>1, <1>2, AtAppend DEF n
<1>5. \A x : \A i \in At(c, x) : i \in Nat /\ 0 < i /\ i < n
  BY AtBound DEF n
<1>6. /\ text'[c] \in At(c, "text")' \cup {0}
      /\ \A i \in At(c, "text")' : i <= text'[c]
  BY <1>3, <1>4, <1>5 DEF ReplyOf
<1>7. IF At(c, "completed")' # {}
      THEN /\ responseID'[c] \in At(c, "completed")'
           /\ \A i \in At(c, "completed")' : i <= responseID'[c]
      ELSE /\ responseID'[c] \in At(c, "created")' \cup {0}
           /\ \A i \in At(c, "created")' : 0 < responseID'[c] /\ responseID'[c] <= i
  <2>1. CASE e = "completed"
    <3>1. n \in At(c, "completed")' /\ responseID'[c] = n
      BY <1>3, <1>4, <2>1
    <3>2. \A i \in At(c, "completed")' : i <= n
      BY <1>3, <1>4, <1>5, <2>1
    <3> QED
      BY <3>1, <3>2
  <2>2. CASE e # "completed" /\ At(c, "completed") # {}
    <3>1. responseID[c] \in At(c, "completed") /\ responseID[c] # 0
      BY <1>5, <2>2 DEF ReplyOf
    <3> QED
      BY <1>3, <1>4, <2>2, <3>1 DEF ReplyOf
  <2>3. CASE e # "completed" /\ At(c, "completed") = {} /\ e = "created"
    <3>1. CASE responseID[c] = 0
      <4>1. At(c, "created") = {}
        BY <2>3, <3>1 DEF ReplyOf
      <4> QED
        BY <1>3, <1>4, <2>3, <3>1, <4>1
    <3>2. CASE responseID[c] # 0
      <4>1. responseID[c] \in At(c, "created")
        BY <2>3, <3>2 DEF ReplyOf
      <4>2. responseID[c] <= n /\ 0 < responseID[c]
        BY <1>3, <1>5, <4>1
      <4> QED
        BY <1>3, <1>4, <2>3, <3>2, <4>1, <4>2 DEF ReplyOf
    <3> QED
      BY <3>1, <3>2
  <2>4. CASE e # "completed" /\ At(c, "completed") = {} /\ e # "created"
    BY <1>3, <1>4, <2>4 DEF ReplyOf
  <2> QED
    BY <2>1, <2>2, <2>3, <2>4
<1>8. /\ {toolCalls'[c][m] : m \in DOMAIN toolCalls'[c]} = At(c, "tool")'
      /\ \A m, k \in DOMAIN toolCalls'[c] : m < k => toolCalls'[c][m] < toolCalls'[c][k]
  <2>1. CASE e # "tool"
    BY <1>3, <1>4, <2>1 DEF ReplyOf
  <2>2. CASE e = "tool"
    <3> DEFINE s == toolCalls[c]
               t == toolCalls'[c]
               z == Len(toolCalls[c]) + 1
    <3>1. /\ DOMAIN t = DOMAIN s \cup {z} /\ t[z] = n
          /\ \A m \in DOMAIN s : t[m] = s[m] /\ m \in Nat /\ m < z
          /\ z \in Nat
      <4>1. t = Append(s, n) /\ s \in Seq(Nat) /\ n \in Nat /\ z = Len(s) + 1
        BY <1>3, <2>2
      <4> HIDE DEF s, t, z
      <4> QED
        BY <4>1
    <3>2. /\ {s[m] : m \in DOMAIN s} = At(c, "tool")
          /\ \A m, k \in DOMAIN s : m < k => s[m] < s[k]
      BY DEF ReplyOf
    <3>3. \A m \in DOMAIN s : s[m] \in Nat /\ s[m] < n
      BY <1>5, <3>2
    <3> HIDE DEF s, t, z
    <3>4. {t[m] : m \in DOMAIN t} = At(c, "tool") \cup {n}
      BY <3>1, <3>2
    <3>5. \A m, k \in DOMAIN t : m < k => t[m] < t[k]
      BY <3>1, <3>2, <3>3
    <3> QED
      BY <1>4, <2>2, <3>4, <3>5 DEF t
  <2> QED
    BY <2>1, <2>2
<1> QED
  BY <1>6, <1>7, <1>8 DEF ReplyOf

LEMMA ReplyNext == TypeOK /\ ReplyMatchesStream /\ [Next]_vars => ReplyMatchesStream'
<1> SUFFICES ASSUME TypeOK, [Next]_vars, \A c \in Calls : ReplyOf(c),
                    NEW d \in Calls
             PROVE  ReplyOf(d)'
  BY ReplyIsReplyOf DEF ReplyMatchesStream, ReplyOf
<1>1. ASSUME stream'[d] = stream[d], text'[d] = text[d],
             responseID'[d] = responseID[d], toolCalls'[d] = toolCalls[d]
      PROVE  ReplyOf(d)'
  <2>1. \A x : At(d, x)' = At(d, x)
    BY <1>1 DEF At
  <2> QED
    BY <1>1, <2>1 DEF ReplyOf
<1>2. ASSUME NEW c \in Calls, Read(c)
      PROVE  ReplyOf(d)'
  <2>1. CASE c = d
    BY <1>2, <2>1, ReplyRead
  <2>2. CASE c # d
    BY <1>1, <1>2, <2>2 DEF Read, TypeOK
  <2> QED
    BY <2>1, <2>2
<1>3. ASSUME UNCHANGED result
      PROVE  ReplyOf(d)'
  BY <1>1, <1>3 DEF result
<1>4. CASE UNCHANGED vars
  BY <1>3, <1>4 DEF vars
<1>5. ASSUME NEW c \in Calls, Begin(c) \/ Download(c) \/ Respond(c) \/ Forward(c), ~Read(c)
      PROVE  UNCHANGED result
  BY <1>5 DEF Begin, Download, DownloadFails, Create, Write, Copied, CloseFails,
              CopyFails, Remove,
              Respond, Answered, AskFails, Done, ReadFails, Forward, HookTaken,
              HookRefused, HookBusy, HookLost, WaitOver, Cancelled
<1> QED
  BY <1>2, <1>3, <1>4, <1>5 DEF Next, Terminated

\* Respond's one pass over the events yields what the whole stream says: the last
\* text, the completed ID before a created one, the tools in order.
THEOREM ReplyMatches == Spec => []ReplyMatchesStream
<1>1. TypeOK /\ RetryInv /\ ReplyMatchesStream /\ [Next]_vars => ReplyMatchesStream'
  BY ReplyNext
<1> QED
  BY <1>1, ReplyInit, TypeAndRetry, PTL DEF Spec

-----------------------------------------------------------------------------
(* The files *)

\* Where c stands with its file.  The last says what the property says, with the
\* parts written so far while c copies.
FileOf(c) ==
  /\ pc[c] \in {"idle", "downloading"} => file[c] = NONE /\ written[c] = 0
  /\ pc[c] \in {"copying", "removing", "asking", "streaming", "ok", "unsaved"} =>
       file[c] # NONE
  /\ pc[c] \in {"asking", "streaming", "ok"} => written[c] = SizeOf[c]
  /\ file[c] # NONE => PathOf[file[c]] = PathOf[c]
  /\ ~disturbed[c] /\ ~lost[c] /\ pc[c] \in {"copying", "asking", "streaming", "ok"} =>
       /\ dir[PathOf[c]] = file[c]
       /\ data[file[c]] = [i \in 1..written[c] |-> c]

\* A name in the directory leads to a file made under it.
Named == \A p \in Paths : dir[p] # NONE => PathOf[dir[p]] = p

\* A hook is no file: what is sent to the hooks endpoint never holds one.
FileInv ==
  /\ Named
  /\ \A c \in Files : pc[c] \notin {"trying", "waiting"}
  /\ \A c \in Files : FileOf(c)

LEMMA FileInit == Init => FileInv
<1> SUFFICES ASSUME Init
             PROVE  FileInv
  OBVIOUS
<1>1. \A c \in Files : pc[c] = "idle" /\ file[c] = NONE /\ written[c] = 0
  BY DEF Init
<1>2. Named
  BY DEF Init, Named
<1> QED
  BY <1>1, <1>2 DEF FileInv, FileOf

\* What the files look like to d if neither its own state nor its file changes.
LEMMA FileKept ==
  ASSUME NEW d \in Files, FileOf(d),
         pc'[d] = pc[d], file'[d] = file[d], written'[d] = written[d],
         lost'[d] = lost[d],
         disturbed'[d] \/ (~disturbed[d]
           /\ dir'[PathOf[d]] = dir[PathOf[d]]
           /\ (file[d] # NONE => data'[file[d]] = data[file[d]]))
         \/ file[d] = NONE
  PROVE  FileOf(d)'
BY DEF FileOf

\* A write of c extends what c alone has written.
LEMMA OwnWrite ==
  ASSUME NEW c, NEW n \in Nat, written[c] = n
  PROVE  Written([i \in 1..n |-> c], c) = [i \in 1..(n + 1) |-> c]
<1> DEFINE s == [i \in 1..n |-> c]
<1>1. Len(s) = n
  OBVIOUS
<1>2. Written(s, c) = [i \in 1..(n + 1) |->
        IF i = n + 1 THEN c ELSE IF i <= n THEN s[i] ELSE HOLE]
  BY <1>1 DEF Written
<1>3. \A i \in 1..(n + 1) :
        (IF i = n + 1 THEN c ELSE IF i <= n THEN s[i] ELSE HOLE) = c
  OBVIOUS
<1> QED
  BY <1>2, <1>3

LEMMA FileCreate ==
  ASSUME TypeOK, FileInv, NEW c \in Files, Create(c)
  PROVE  FileInv'
<1> DEFINE p == PathOf[c]
           f == IF dir[p] = NONE THEN c ELSE dir[p]
<1>1. /\ pc[c] = "downloading"
      /\ pc' = [pc EXCEPT ![c] = "copying"]
      /\ dir' = [dir EXCEPT ![p] = f]
      /\ file' = [file EXCEPT ![c] = f]
      /\ data' = [data EXCEPT ![f] = <<>>]
      /\ UNCHANGED <<written, lost>>
  BY DEF Create, Goto
<1>2. \A d \in Files : disturbed'[d] <=>
        (disturbed[d] \/ (d # c /\ PathOf[d] = PathOf[c] /\ file[d] # NONE))
  BY DEF Create, Disturb
<1>3. /\ DOMAIN pc = Calls /\ DOMAIN dir = Paths /\ DOMAIN file = Files
      /\ DOMAIN data = Files /\ p \in Paths
      /\ \A d \in Files : PathOf[d] \in Paths /\ file[d] \in Files \cup {NONE}
      /\ dir[p] \in Files \cup {NONE}
  <2>1. \A d \in Files : PathOf[d] \in Paths
    BY DEF Paths
  <2>2. dir[p] \in Files \cup {NONE}
    BY <2>1 DEF TypeOK
  <2> QED
    BY <2>1, <2>2 DEF TypeOK
<1>4. f \in Files /\ PathOf[f] = p
  <2>1. dir[p] # NONE => PathOf[dir[p]] = p
    BY <1>3 DEF FileInv, Named
  <2> QED
    BY <1>3, <2>1
<1>5. f # NONE
  BY <1>4
<1> HIDE DEF f, p
<1>6. Named'
  BY <1>1, <1>3, <1>4 DEF FileInv, Named
<1>7. \A d \in Files : pc'[d] \notin {"trying", "waiting"}
  BY <1>1, <1>3 DEF FileInv
<1>8. FileOf(c)'
  <2>1. file'[c] = f /\ dir'[PathOf[c]] = f /\ data'[f] = <<>> /\ pc'[c] = "copying"
    BY <1>1, <1>3, <1>4 DEF p
  <2>2. written'[c] = 0
    BY <1>1 DEF FileInv, FileOf
  <2>3. <<>> = [i \in 1..0 |-> c]
    OBVIOUS
  <2> QED
    BY <1>4, <1>5, <2>1, <2>2, <2>3 DEF FileOf, p
<1>9. ASSUME NEW d \in Files, d # c
      PROVE  FileOf(d)'
  <2>1. /\ pc'[d] = pc[d] /\ file'[d] = file[d] /\ written'[d] = written[d]
        /\ lost'[d] = lost[d]
    BY <1>1, <1>3, <1>9
  <2>2. CASE file[d] = NONE \/ disturbed'[d]
    BY <2>1, <2>2, FileKept DEF FileInv
  <2>3. CASE file[d] # NONE /\ ~disturbed'[d]
    <3>1. ~disturbed[d] /\ PathOf[d] # p
      BY <1>2, <1>9, <2>3 DEF p
    <3>2. dir'[PathOf[d]] = dir[PathOf[d]]
      BY <1>1, <1>3, <3>1
    <3>3. PathOf[file[d]] = PathOf[d]
      BY <2>3 DEF FileInv, FileOf
    <3>4. data'[file[d]] = data[file[d]]
      BY <1>1, <1>3, <1>4, <2>3, <3>1, <3>3
    <3> QED
      BY <2>1, <3>1, <3>2, <3>4, FileKept DEF FileInv
  <2> QED
    BY <2>2, <2>3
<1> QED
  BY <1>6, <1>7, <1>8, <1>9 DEF FileInv

LEMMA FileWrite ==
  ASSUME TypeOK, FileInv, NEW c \in Files, Write(c)
  PROVE  FileInv'
<1>1. /\ pc[c] = "copying" /\ UNCHANGED <<pc, dir, file, lost>>
      /\ data' = [data EXCEPT ![file[c]] = Written(@, c)]
      /\ written' = [written EXCEPT ![c] = written[c] + 1]
  BY DEF Write
<1>2. \A d \in Files : disturbed'[d] <=>
        (disturbed[d] \/ (d # c /\ PathOf[d] = PathOf[c] /\ file[d] # NONE))
  BY DEF Write, Disturb
<1>3. /\ DOMAIN data = Files /\ DOMAIN written = Files
      /\ \A d \in Files : file[d] \in Files \cup {NONE}
      /\ written[c] \in Nat
  BY DEF TypeOK
<1>4. file[c] \in Files /\ PathOf[file[c]] = PathOf[c]
  BY <1>1, <1>3 DEF FileInv, FileOf
<1>5. Named' /\ \A d \in Files : pc'[d] \notin {"trying", "waiting"}
  BY <1>1 DEF FileInv, Named
<1>6. FileOf(c)'
  <2>1. ASSUME ~disturbed'[c], ~lost'[c]
        PROVE  /\ dir'[PathOf[c]] = file'[c]
               /\ data'[file'[c]] = [i \in 1..written'[c] |-> c]
    <3>1. /\ dir[PathOf[c]] = file[c]
          /\ data[file[c]] = [i \in 1..written[c] |-> c]
      BY <1>1, <1>2, <2>1 DEF FileInv, FileOf
    <3>2. data'[file[c]] = Written(data[file[c]], c) /\ written'[c] = written[c] + 1
      BY <1>1, <1>3, <1>4
    <3>3. Written([i \in 1..written[c] |-> c], c) = [i \in 1..(written[c] + 1) |-> c]
      BY <1>3, OwnWrite
    <3>4. file'[c] = file[c] /\ dir'[PathOf[c]] = dir[PathOf[c]]
      BY <1>1
    <3> QED
      BY <3>1, <3>2, <3>3, <3>4
  <2>2. pc'[c] = "copying" /\ file'[c] # NONE /\ PathOf[file'[c]] = PathOf[c]
    BY <1>1, <1>4
  <2> QED
    BY <2>1, <2>2 DEF FileOf
<1>7. ASSUME NEW d \in Files, d # c
      PROVE  FileOf(d)'
  <2>1. /\ pc'[d] = pc[d] /\ file'[d] = file[d] /\ written'[d] = written[d]
        /\ lost'[d] = lost[d]
    BY <1>1, <1>3, <1>7
  <2>2. CASE file[d] = NONE \/ disturbed'[d]
    BY <2>1, <2>2, FileKept DEF FileInv
  <2>3. CASE file[d] # NONE /\ ~disturbed'[d]
    <3>1. ~disturbed[d] /\ PathOf[d] # PathOf[c]
      BY <1>2, <1>7, <2>3
    <3>2. PathOf[file[d]] = PathOf[d]
      BY <2>3 DEF FileInv, FileOf
    <3>3. data'[file[d]] = data[file[d]]
      BY <1>1, <1>3, <1>4, <2>3, <3>1, <3>2
    <3> QED
      BY <1>1, <2>1, <3>1, <3>3, FileKept DEF FileInv
  <2> QED
    BY <2>2, <2>3
<1> QED
  BY <1>5, <1>6, <1>7 DEF FileInv

LEMMA FileRemove ==
  ASSUME TypeOK, FileInv, NEW c \in Files, Remove(c)
  PROVE  FileInv'
<1>1. /\ pc[c] = "removing" /\ pc' = [pc EXCEPT ![c] = "unsaved"]
      /\ dir' \in {dir, [dir EXCEPT ![PathOf[c]] = NONE]}
      /\ UNCHANGED <<data, file, written, lost>>
  BY DEF Remove, Goto
<1>2. \A d \in Files : disturbed'[d] <=>
        (disturbed[d] \/ (d # c /\ PathOf[d] = PathOf[c] /\ file[d] # NONE))
  BY DEF Remove, Disturb
<1>3. /\ DOMAIN pc = Calls /\ DOMAIN dir = Paths
      /\ \A d \in Files : PathOf[d] \in Paths
  <2>1. DOMAIN pc = Calls /\ DOMAIN dir = Paths
    BY DEF TypeOK
  <2> QED
    BY <2>1 DEF Paths
<1>4. Named' /\ \A d \in Files : pc'[d] \notin {"trying", "waiting"}
  BY <1>1, <1>3 DEF FileInv, Named
<1>5. FileOf(c)'
  <2>1. pc'[c] = "unsaved"
    BY <1>1, <1>3
  <2>2. file'[c] # NONE /\ PathOf[file'[c]] = PathOf[c]
    BY <1>1 DEF FileInv, FileOf
  <2> QED
    BY <2>1, <2>2 DEF FileOf
<1>6. ASSUME NEW d \in Files, d # c
      PROVE  FileOf(d)'
  <2>1. /\ pc'[d] = pc[d] /\ file'[d] = file[d] /\ written'[d] = written[d]
        /\ lost'[d] = lost[d]
    BY <1>1, <1>3, <1>6
  <2>2. CASE file[d] = NONE \/ disturbed'[d]
    BY <2>1, <2>2, FileKept DEF FileInv
  <2>3. CASE file[d] # NONE /\ ~disturbed'[d]
    <3>1. ~disturbed[d] /\ PathOf[d] # PathOf[c]
      BY <1>2, <1>6, <2>3
    <3>2. dir'[PathOf[d]] = dir[PathOf[d]]
      BY <1>1, <1>3, <3>1
    <3> QED
      BY <1>1, <2>1, <3>1, <3>2, FileKept DEF FileInv
  <2> QED
    BY <2>2, <2>3
<1> QED
  BY <1>4, <1>5, <1>6 DEF FileInv

\* What a failed close loses was written under the path of c.
LEMMA FileClose ==
  ASSUME TypeOK, FileInv, NEW c \in Files, CloseFails(c)
  PROVE  FileInv'
<1>1. /\ pc[c] = "copying" /\ pc' = [pc EXCEPT ![c] = "asking"]
      /\ lost' = [lost EXCEPT ![c] = TRUE]
      /\ UNCHANGED <<dir, file, written>>
      /\ written[c] = SizeOf[c]
  BY DEF CloseFails, Goto
<1>2. PICK s : data' = [data EXCEPT ![file[c]] = s]
  BY DEF CloseFails
<1>3. \A d \in Files : disturbed'[d] <=>
        (disturbed[d] \/ (d # c /\ PathOf[d] = PathOf[c] /\ file[d] # NONE))
  BY DEF CloseFails, Disturb
<1>4. /\ DOMAIN pc = Calls /\ DOMAIN data = Files /\ DOMAIN lost = Files
      /\ \A d \in Files : file[d] \in Files \cup {NONE}
  BY DEF TypeOK
<1>5. file[c] \in Files /\ PathOf[file[c]] = PathOf[c]
  BY <1>1, <1>4 DEF FileInv, FileOf
<1>6. Named' /\ \A d \in Files : pc'[d] \notin {"trying", "waiting"}
  BY <1>1, <1>4 DEF FileInv, Named
<1>7. FileOf(c)'
  <2>1. lost'[c] /\ pc'[c] = "asking" /\ file'[c] = file[c] /\ written'[c] = SizeOf[c]
    BY <1>1, <1>4
  <2> QED
    BY <1>5, <2>1 DEF FileOf
<1>8. ASSUME NEW d \in Files, d # c
      PROVE  FileOf(d)'
  <2>1. /\ pc'[d] = pc[d] /\ file'[d] = file[d] /\ written'[d] = written[d]
        /\ lost'[d] = lost[d]
    BY <1>1, <1>4, <1>8
  <2>2. CASE file[d] = NONE \/ disturbed'[d]
    BY <2>1, <2>2, FileKept DEF FileInv
  <2>3. CASE file[d] # NONE /\ ~disturbed'[d]
    <3>1. ~disturbed[d] /\ PathOf[d] # PathOf[c]
      BY <1>3, <1>8, <2>3
    <3>2. PathOf[file[d]] = PathOf[d]
      BY <2>3 DEF FileInv, FileOf
    <3>3. data'[file[d]] = data[file[d]]
      BY <1>2, <1>4, <1>5, <2>3, <3>1, <3>2
    <3> QED
      BY <1>1, <2>1, <3>1, <3>3, FileKept DEF FileInv
  <2> QED
    BY <2>2, <2>3
<1> QED
  BY <1>6, <1>7, <1>8 DEF FileInv

\* Every other step of c only moves c.
LEMMA FileMove ==
  ASSUME TypeOK, FileInv, NEW c \in Calls, UNCHANGED files,
         NEW w, pc' = [pc EXCEPT ![c] = w],
         c \in Files => /\ w \notin {"trying", "waiting"}
                        /\ \/ w = "downloading" /\ pc[c] = "idle"
                           \/ w = "error"
                           \/ w = "removing" /\ pc[c] = "copying"
                           \/ w = "asking" /\ pc[c] = "copying" /\ written[c] = SizeOf[c]
                           \/ w = "streaming" /\ pc[c] = "asking"
                           \/ w = "ok" /\ pc[c] = "streaming"
  PROVE  FileInv'
<1>1. Named'
  BY DEF FileInv, Named, files
<1>2. ASSUME NEW d \in Files
      PROVE  FileOf(d)' /\ pc'[d] \notin {"trying", "waiting"}
  <2>1. DOMAIN pc = Calls
    BY DEF TypeOK
  <2> QED
    BY <2>1 DEF FileInv, FileOf, files
<1> QED
  BY <1>1, <1>2 DEF FileInv

LEMMA FileNext == TypeOK /\ RetryInv /\ FileInv /\ [Next]_vars => FileInv'
<1> SUFFICES ASSUME TypeOK, RetryInv, FileInv, [Next]_vars
             PROVE  FileInv'
  OBVIOUS
<1> USE DEF Goto
<1>1. ASSUME NEW c \in Calls, Begin(c)
      PROVE  FileInv'
  <2>1. CASE KindOf[c] = "file"
    BY <1>1, <2>1, FileMove DEF Begin
  <2>2. CASE KindOf[c] # "file"
    <3>1. c \notin Files /\ UNCHANGED files
      BY <1>1, <2>2 DEF Begin, Files
    <3>2. PICK w : pc' = [pc EXCEPT ![c] = w]
      BY <1>1 DEF Begin
    <3> QED
      BY <3>1, <3>2, FileMove
  <2> QED
    BY <2>1, <2>2
<1>2. ASSUME NEW c \in Calls, Download(c)
      PROVE  FileInv'
  <2>1. CASE Create(c)
    BY <2>1, FileCreate DEF Create
  <2>2. CASE Write(c)
    BY <2>2, FileWrite DEF Write
  <2>3. CASE Remove(c)
    BY <2>3, FileRemove DEF Remove
  <2>4. CASE DownloadFails(c)
    BY <2>4, FileMove DEF DownloadFails
  <2>5. CASE Copied(c)
    BY <2>5, FileMove DEF Copied
  <2>6. CASE CopyFails(c)
    BY <2>6, FileMove DEF CopyFails
  <2>7. CASE CloseFails(c)
    BY <2>7, FileClose DEF CloseFails
  <2> QED
    BY <1>2, <2>1, <2>2, <2>3, <2>4, <2>5, <2>6, <2>7 DEF Download
<1>3. ASSUME NEW c \in Calls, Respond(c)
      PROVE  FileInv'
  <2>1. CASE Answered(c)
    BY <2>1, FileMove DEF Answered
  <2>2. CASE AskFails(c)
    BY <2>2, FileMove DEF AskFails
  <2>3. CASE Read(c)
    BY <2>3 DEF Read, FileInv, Named, FileOf, files
  <2>4. CASE Done(c)
    BY <2>4, FileMove DEF Done
  <2>5. CASE ReadFails(c)
    BY <2>5, FileMove DEF ReadFails
  <2> QED
    BY <1>3, <2>1, <2>2, <2>3, <2>4, <2>5 DEF Respond
<1>4. ASSUME NEW c \in Calls, Forward(c)
      PROVE  FileInv'
  <2>1. pc[c] \in {"trying", "waiting"} /\ UNCHANGED files
    BY <1>4 DEF Forward, HookTaken, HookRefused, HookBusy, HookLost, WaitOver, Cancelled
  <2>2. PICK w : pc' = [pc EXCEPT ![c] = w]
    BY <1>4 DEF Forward, HookTaken, HookRefused, HookBusy, HookLost, WaitOver,
                Cancelled, Again
  <2>3. c \notin Files
    BY <2>1 DEF FileInv
  <2> QED
    BY <2>1, <2>2, <2>3, FileMove
<1>5. CASE UNCHANGED vars
  BY <1>5 DEF vars, files, FileInv, Named, FileOf
<1> QED
  BY <1>1, <1>2, <1>3, <1>4, <1>5 DEF Next, Terminated

\* DownloadAndRespond's attachment is whole while the agent works on it, as long
\* as its file was closed well and no other call has used the path since.
THEOREM FileIsWhole == Spec => []UndisturbedFileIsWhole
<1>1. TypeOK /\ FileInv => UndisturbedFileIsWhole
  BY DEF FileInv, FileOf, UndisturbedFileIsWhole, Told, Whole
<1>2. TypeOK /\ RetryInv /\ FileInv /\ [Next]_vars => FileInv'
  BY FileNext
<1> QED
  BY <1>1, <1>2, FileInit, TypeAndRetry, PTL DEF Spec

-----------------------------------------------------------------------------
(* Who can spoil a file *)

Namesake(c, d) ==
  d \in (made \ {c}) \cap Files /\ PathOf[d] = PathOf[c] /\ file[d] # NONE

\* Only the calls that are made do anything, and what is disturbed was disturbed
\* by another of them.
CulpritInv ==
  /\ \A c \in Calls \ made : pc[c] = "idle"
  /\ \A c \in Files : disturbed[c] => \E d \in Files : Namesake(c, d)

\* A step of c that may disturb the others leaves c with a file of its path.
LEMMA CulpritDisturb ==
  ASSUME CulpritInv, NEW c \in Files, c \in made, Disturb(c), file'[c] # NONE,
         UNCHANGED made, \A d \in Files : file[d] # NONE => file'[d] # NONE
  PROVE  \A d \in Files : disturbed'[d] => \E e \in Files : Namesake(d, e)'
<1> SUFFICES ASSUME NEW d \in Files, disturbed'[d]
             PROVE  \E e \in Files : Namesake(d, e)'
  OBVIOUS
<1>1. CASE disturbed[d]
  BY <1>1 DEF CulpritInv, Namesake
<1>2. CASE ~disturbed[d]
  <2>1. d # c /\ PathOf[d] = PathOf[c]
    BY <1>2 DEF Disturb
  <2> QED
    BY <2>1 DEF Namesake
<1> QED
  BY <1>1, <1>2

LEMMA CulpritNext == TypeOK /\ FileInv /\ CulpritInv /\ [Next]_vars => CulpritInv'
<1> SUFFICES ASSUME TypeOK, FileInv, CulpritInv, [Next]_vars
             PROVE  CulpritInv'
  OBVIOUS
<1> USE DEF Goto
<1>1. CASE UNCHANGED vars
  BY <1>1 DEF vars, files, CulpritInv, Namesake
<1>2. ASSUME NEW c \in Calls, Begin(c) \/ Download(c) \/ Respond(c) \/ Forward(c)
      PROVE  CulpritInv'
  <2>1. c \in made
    BY <1>2 DEF CulpritInv, Begin, Download, DownloadFails, Create, Write, Copied,
                CloseFails, CopyFails, Remove, Respond, Answered, AskFails, Read, Done,
                ReadFails, Forward, HookTaken, HookRefused, HookBusy, HookLost,
                WaitOver, Cancelled
  <2>2. made' = made /\ \A d \in Calls : d # c => pc'[d] = pc[d]
    <3>1. made' = made /\ (pc' = pc \/ \E w : pc' = [pc EXCEPT ![c] = w])
      <4>1. CASE Begin(c)
        BY <4>1 DEF Begin
      <4>2. CASE Download(c)
        BY <4>2 DEF Download, DownloadFails, Create, Write, Copied, CloseFails,
                    CopyFails, Remove
      <4>3. CASE Respond(c)
        BY <4>3 DEF Respond, Answered, AskFails, Read, Done, ReadFails
      <4>4. CASE Forward(c)
        BY <4>4 DEF Forward, HookTaken, HookRefused, HookBusy, HookLost, WaitOver,
                    Cancelled, Again
      <4> QED
        BY <1>2, <4>1, <4>2, <4>3, <4>4
    <3>2. DOMAIN pc = Calls
      BY DEF TypeOK
    <3> QED
      BY <3>1, <3>2
  <2>3. \A d \in Files : disturbed'[d] => \E e \in Files : Namesake(d, e)'
    <3>1. CASE Create(c)
      <4>1. c \in Files /\ PathOf[c] \in Paths
        BY <3>1 DEF Create, Paths
      <4>2. PICK f \in Files : file' = [file EXCEPT ![c] = f]
        <5>1. dir[PathOf[c]] \in Files \cup {NONE}
          BY <4>1 DEF TypeOK
        <5> QED
          BY <3>1, <4>1, <5>1 DEF Create
      <4>3. file'[c] # NONE /\ \A d \in Files : file[d] # NONE => file'[d] # NONE
        <5>1. DOMAIN file = Files /\ NONE \notin Files
          BY DEF TypeOK, Files
        <5> QED
          BY <4>1, <4>2, <5>1
      <4> QED
        BY <2>1, <2>2, <3>1, <4>1, <4>3, CulpritDisturb DEF Create
    <3>2. CASE Write(c) \/ CloseFails(c) \/ Remove(c)
      <4>1. c \in Files /\ file' = file /\ Disturb(c)
        BY <3>2 DEF Write, CloseFails, Remove
      <4>2. file[c] # NONE
        BY <3>2, <4>1 DEF Write, CloseFails, Remove, FileInv, FileOf
      <4> QED
        BY <2>1, <2>2, <4>1, <4>2, CulpritDisturb
    <3>3. CASE ~(Create(c) \/ Write(c) \/ CloseFails(c) \/ Remove(c))
      <4>1. disturbed' = disturbed /\ file' = file
        BY <1>2, <3>3 DEF Begin, Download, DownloadFails, Copied, CopyFails, Respond,
                Answered, AskFails, Read, Done, ReadFails, Forward, HookTaken,
                HookRefused, HookBusy, HookLost, WaitOver, Cancelled, files
      <4> QED
        BY <2>2, <4>1 DEF CulpritInv, Namesake
    <3> QED
      BY <3>1, <3>2, <3>3
  <2> QED
    BY <2>1, <2>2, <2>3 DEF CulpritInv
<1> QED
  BY <1>1, <1>2 DEF Next, Terminated

\* For any sharing of paths, sizes and failures: what spoils an attachment is its
\* own f.Close or a call that has opened a file of the same base name, never a
\* call with another one.
THEOREM NamesakesSpoil == Spec => []OnlyNamesakesSpoil
<1>1. Init => CulpritInv
  BY DEF Init, CulpritInv
<1>2. TypeOK /\ FileInv /\ CulpritInv /\ [Next]_vars => CulpritInv'
  BY CulpritNext
<1>3. TypeOK /\ RetryInv /\ FileInv /\ [Next]_vars => FileInv'
  BY FileNext
<1>4. TypeOK /\ FileInv /\ CulpritInv => OnlyNamesakesSpoil
  BY DEF FileInv, FileOf, CulpritInv, Namesake, OnlyNamesakesSpoil, Told, Whole
<1> QED
  BY <1>1, <1>2, <1>3, <1>4, FileInit, TypeAndRetry, PTL DEF Spec
=============================================================================
