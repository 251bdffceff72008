------------------------------- MODULE Gateway -------------------------------
(***************************************************************************)
(* The gateway client, internal/gateway/client.go: Respond, which reads    *)
(* the answer as a stream of events; DownloadAndRespond, which first saves *)
(* an attachment in the uploads directory that all channels share;         *)
(* Forward, which posts to the hooks endpoint and retries, and which only  *)
(* the tests call.                                                         *)
(*                                                                         *)
(* OpenClaw and Zoho are external: a request may fail at any point and a   *)
(* stream may bring any events.  The file system keeps a directory and     *)
(* files apart, as a file that is removed can still be written.            *)
(***************************************************************************)
EXTENDS Integers, Sequences

CONSTANTS Calls,          \* calls of the client
          Loads,          \* sets of calls that may be made together
          KindOf,         \* call -> "text", "file" or "hook"
          PathOf,         \* file call -> destPath, from the base name
          SizeOf,         \* file call -> parts of the attachment
          StreamOf,       \* call -> the events its stream may bring
          MaxEvents,      \* bound of the length of a stream
          MaxRetries, InitialBackoff, MaxBackoff,   \* of Config
          Width,          \* bits of time.Duration: 64
          HOLE,           \* bytes nobody wrote
          NONE            \* no file

Events == {"created", "tool", "text", "completed", "other"}

Files == {c \in Calls : KindOf[c] = "file"}

Paths == {PathOf[c] : c \in Files}

ASSUME GatewayAssumption ==
  /\ Loads \subseteq SUBSET Calls
  /\ KindOf \in [Calls -> {"text", "file", "hook"}]
  /\ SizeOf \in [Files -> Nat \ {0}]
  /\ StreamOf \in [Calls -> SUBSET Events]
  /\ MaxEvents \in Nat /\ MaxRetries \in Nat
  /\ InitialBackoff \in Nat \ {0} /\ MaxBackoff \in Nat /\ Width \in Nat \ {0}
  /\ NONE \notin Calls /\ HOLE \notin Calls

VARIABLES made,        \* the calls that are made
          pc,          \* where a call is, or how it returned
          stream,      \* history: the events read so far
          responseID,  \* responseID, text and toolCalls of Respond; an ID, a text
          text,        \* and a name are named by the place of their event in the
          toolCalls,   \* stream, 0 is the empty string
          dir,         \* the uploads directory: path -> file, or NONE
          data,        \* file -> who wrote each part; a file is named by the call
                       \* that created it
          file,        \* f, the file a call has opened
          written,     \* parts it has written
          disturbed,   \* history: since it opened f, another call has created,
                       \* written or removed a file of the same path
          lost,        \* history: f.Close failed, with a part of the attachment
          attempts,    \* requests doWithRetry has sent
          wait,        \* the most that it waits before the next
          handled      \* history: times OpenClaw took the hook

files == <<dir, data, file, written, disturbed, lost>>
result == <<stream, responseID, text, toolCalls>>
retry == <<attempts, wait, handled>>
vars == <<made, pc, result, files, retry>>

Returned == {"ok", "error", "unsaved"}

TypeOK ==
  /\ made \in Loads
  /\ pc \in [Calls -> {"idle", "downloading", "copying", "removing", "asking",
                       "streaming", "trying", "waiting"} \cup Returned]
  /\ stream \in [Calls -> Seq(Events)]
  /\ responseID \in [Calls -> Nat]
  /\ text \in [Calls -> Nat]
  /\ toolCalls \in [Calls -> Seq(Nat)]
  /\ dir \in [Paths -> Files \cup {NONE}]
  /\ data \in [Files -> Seq(Files \cup {HOLE})]
  /\ file \in [Files -> Files \cup {NONE}]
  /\ written \in [Files -> Nat]
  /\ disturbed \in [Files -> BOOLEAN]
  /\ lost \in [Files -> BOOLEAN]
  /\ attempts \in [Calls -> 0..(MaxRetries + 1)]
  /\ wait \in [Calls -> Int]
  /\ handled \in [Calls -> Nat]
  /\ \A c \in Files : /\ written[c] <= SizeOf[c]
                      /\ pc[c] \in {"copying", "removing"} => file[c] # NONE

Init ==
  /\ made \in Loads
  /\ pc = [c \in Calls |-> "idle"]
  /\ stream = [c \in Calls |-> <<>>]
  /\ responseID = [c \in Calls |-> 0]
  /\ text = [c \in Calls |-> 0]
  /\ toolCalls = [c \in Calls |-> <<>>]
  /\ dir = [p \in Paths |-> NONE]
  /\ data = [c \in Files |-> <<>>]
  /\ file = [c \in Files |-> NONE]
  /\ written = [c \in Files |-> 0]
  /\ disturbed = [c \in Files |-> FALSE]
  /\ lost = [c \in Files |-> FALSE]
  /\ attempts = [c \in Calls |-> 0]
  /\ wait = [c \in Calls |-> 0]
  /\ handled = [c \in Calls |-> 0]

-----------------------------------------------------------------------------

Goto(c, where) == pc' = [pc EXCEPT ![c] = where]

\* The calls that have saved, or are saving, a file under the path of c.
Disturb(c) ==
  disturbed' = [d \in Files |->
    disturbed[d] \/ (d # c /\ PathOf[d] = PathOf[c] /\ file[d] # NONE)]

\* What a write of c leaves in a file: at its own offset, behind zeros if another
\* call has truncated the file meanwhile.
Written(s, c) ==
  LET n == written[c] + 1
  IN  [i \in 1..(IF Len(s) < n THEN n ELSE Len(s)) |->
         IF i = n THEN c ELSE IF i <= Len(s) THEN s[i] ELSE HOLE]

(* Faulty variants, each a slip this code could have.  No specification     *)
(* uses them: they show which property tells each one from the real step.  *)

\* os.OpenFile without O_TRUNC.
CreateKeeps(c) ==
  /\ pc[c] = "downloading" /\ c \in Files
  /\ Goto(c, "copying")
  /\ LET p == PathOf[c]
         f == IF dir[p] = NONE THEN c ELSE dir[p]
     IN  /\ dir' = [dir EXCEPT ![p] = f]
         /\ file' = [file EXCEPT ![c] = f]
  /\ Disturb(c)
  /\ UNCHANGED <<made, result, data, written, lost, retry>>

\* A failed copy clears the uploads directory: os.RemoveAll.
RemoveAll(c) ==
  /\ pc[c] = "removing" /\ c \in Files
  /\ Goto(c, "unsaved")
  /\ dir' = [p \in Paths |-> NONE]
  /\ Disturb(c)
  /\ UNCHANGED <<made, result, data, file, written, lost, retry>>

\* The text of a message item is taken only if there is none yet.
ReadKeepsFirst(c) ==
  /\ pc[c] = "streaming" /\ Len(stream[c]) < MaxEvents
  /\ LET n == Len(stream[c]) + 1
     IN  \E e \in StreamOf[c] :
           /\ stream' = [stream EXCEPT ![c] = Append(@, e)]
           /\ responseID' = [responseID EXCEPT ![c] =
                IF e = "completed" \/ (e = "created" /\ @ = 0) THEN n ELSE @]
           /\ text' = [text EXCEPT ![c] = IF e = "text" /\ @ = 0 THEN n ELSE @]
           /\ toolCalls' = [toolCalls EXCEPT ![c] =
                IF e = "tool" THEN Append(@, n) ELSE @]
  /\ UNCHANGED <<made, pc, files, retry>>

\* The wait is not capped.
BackoffUncapped(n) == {InitialBackoff * 2 ^ n}

\* The attempt is not counted.
TransportNotCounted(c) ==
  /\ pc[c] = "trying"
  /\ Goto(c, "waiting")
  /\ UNCHANGED <<made, result, files, retry>>

\* The last attempt is followed by another wait.
Overrun(n) == n = MaxRetries + 2

-----------------------------------------------------------------------------
(* DownloadAndRespond *)

\* A call starts with the download, the request or the first attempt.
Begin(c) ==
  /\ c \in made
  /\ pc[c] = "idle"
  /\ Goto(c, CASE KindOf[c] = "file" -> "downloading"
               [] KindOf[c] = "text" -> "asking"
               [] KindOf[c] = "hook" -> "trying")
  /\ UNCHANGED <<made, result, files, retry>>

\* Zoho does not answer with the attachment, or the file cannot be created.
DownloadFails(c) ==
  /\ pc[c] = "downloading"
  /\ Goto(c, "error")
  /\ UNCHANGED <<made, result, files, retry>>

\* os.Create truncates the file that has the path, or makes a new one.
Create(c) ==
  /\ pc[c] = "downloading" /\ c \in Files
  /\ Goto(c, "copying")
  /\ LET p == PathOf[c]
         f == IF dir[p] = NONE THEN c ELSE dir[p]
     IN  /\ dir' = [dir EXCEPT ![p] = f]
         /\ file' = [file EXCEPT ![c] = f]
         /\ data' = [data EXCEPT ![f] = <<>>]
  /\ Disturb(c)
  /\ UNCHANGED <<made, result, written, lost, retry>>

\* io.Copy writes a part ...
Write(c) ==
  /\ pc[c] = "copying" /\ c \in Files
  /\ written[c] < SizeOf[c]
  /\ data' = [data EXCEPT ![file[c]] = Written(@, c)]
  /\ written' = [written EXCEPT ![c] = @ + 1]
  /\ Disturb(c)
  /\ UNCHANGED <<made, pc, result, dir, file, lost, retry>>

\* ... and ends with the body.  What f.Close returns is not looked at ...
Copied(c) ==
  /\ pc[c] = "copying" /\ c \in Files
  /\ written[c] = SizeOf[c]
  /\ Goto(c, "asking")
  /\ UNCHANGED <<made, result, files, retry>>

\* ... also if it is the error of a write that the disk did not take.
CloseFails(c) ==
  /\ pc[c] = "copying" /\ c \in Files
  /\ written[c] = SizeOf[c]
  /\ \E n \in 0..Len(data[file[c]]) :
       data' = [data EXCEPT ![file[c]] = SubSeq(@, 1, n)]
  /\ lost' = [lost EXCEPT ![c] = TRUE]
  /\ Goto(c, "asking")
  /\ Disturb(c)
  /\ UNCHANGED <<made, result, dir, file, written, retry>>

\* The copy ends with an error of the body, the disk or the context,
CopyFails(c) ==
  /\ pc[c] = "copying"
  /\ Goto(c, "removing")
  /\ UNCHANGED <<made, result, files, retry>>

\* and os.Remove removes what has the path by then, or fails unnoticed.
Remove(c) ==
  /\ pc[c] = "removing" /\ c \in Files
  /\ Goto(c, "unsaved")
  /\ dir' \in {dir, [dir EXCEPT ![PathOf[c]] = NONE]}
  /\ Disturb(c)
  /\ UNCHANGED <<made, result, data, file, written, lost, retry>>

-----------------------------------------------------------------------------
(* Respond *)

\* The request for the agent is answered with a 2xx status ...
Answered(c) ==
  /\ pc[c] = "asking"
  /\ Goto(c, "streaming")
  /\ UNCHANGED <<made, result, files, retry>>

\* ... or fails, or has another status.
AskFails(c) ==
  /\ pc[c] = "asking"
  /\ Goto(c, "error")
  /\ UNCHANGED <<made, result, files, retry>>

\* One data line.  Events with an empty ID, name or text change nothing and are
\* like the other lines the loop passes over.
Read(c) ==
  /\ pc[c] = "streaming" /\ Len(stream[c]) < MaxEvents
  /\ LET n == Len(stream[c]) + 1
     IN  \E e \in StreamOf[c] :
           /\ stream' = [stream EXCEPT ![c] = Append(@, e)]
           /\ responseID' = [responseID EXCEPT ![c] =
                IF e = "completed" \/ (e = "created" /\ @ = 0) THEN n ELSE @]
           /\ text' = [text EXCEPT ![c] = IF e = "text" THEN n ELSE @]
           /\ toolCalls' = [toolCalls EXCEPT ![c] =
                IF e = "tool" THEN Append(@, n) ELSE @]
  /\ UNCHANGED <<made, pc, files, retry>>

\* "[DONE]", or the end of the body: what was read is the result.
Done(c) ==
  /\ pc[c] = "streaming"
  /\ Goto(c, "ok")
  /\ UNCHANGED <<made, result, files, retry>>

\* The body breaks off, a line is too long, or RespondTimeout passes.
ReadFails(c) ==
  /\ pc[c] = "streaming"
  /\ Goto(c, "error")
  /\ UNCHANGED <<made, result, files, retry>>

-----------------------------------------------------------------------------
(* Forward and doWithRetry *)

\* backoffDuration before its random factor.  The product is a float64; beyond
\* 64 bits its conversion gives the least or the greatest Duration, as the
\* platform has it, and only the latter is capped.
Backoff(n) ==
  LET exact == InitialBackoff * 2 ^ n
      limit == 2 ^ (Width - 1)
      capped(d) == IF d > MaxBackoff THEN MaxBackoff ELSE d
  IN  IF exact < limit THEN {capped(exact)}
      ELSE {capped(-limit), capped(limit - 1)}

LastAttempt(n) == n = MaxRetries + 1

\* After an attempt that may be retried: wait, or give up after the last.
Again(c) ==
  /\ attempts' = [attempts EXCEPT ![c] = @ + 1]
  /\ IF LastAttempt(attempts'[c]) THEN Goto(c, "error") /\ UNCHANGED wait
     ELSE /\ Goto(c, "waiting")
          /\ \E d \in Backoff(attempts[c]) : wait' = [wait EXCEPT ![c] = d]

\* A 2xx status: OpenClaw has taken the hook.
HookTaken(c) ==
  /\ pc[c] = "trying"
  /\ attempts' = [attempts EXCEPT ![c] = @ + 1]
  /\ handled' = [handled EXCEPT ![c] = @ + 1]
  /\ Goto(c, "ok")
  /\ UNCHANGED <<made, result, files, wait>>

\* Any other status below 500 but 429 is final.
HookRefused(c) ==
  /\ pc[c] = "trying"
  /\ attempts' = [attempts EXCEPT ![c] = @ + 1]
  /\ Goto(c, "error")
  /\ UNCHANGED <<made, result, files, wait, handled>>

\* Status 429, 5xx.
HookBusy(c) ==
  /\ pc[c] = "trying"
  /\ Again(c)
  /\ UNCHANGED <<made, result, files, handled>>

\* No answer: OpenClaw may have taken the hook all the same.
HookLost(c) ==
  /\ pc[c] = "trying"
  /\ Again(c)
  /\ handled' \in {handled, [handled EXCEPT ![c] = @ + 1]}
  /\ UNCHANGED <<made, result, files>>

WaitOver(c) ==
  /\ pc[c] = "waiting"
  /\ Goto(c, "trying")
  /\ UNCHANGED <<made, result, files, retry>>

\* The context is over, before an attempt or during the wait.
Cancelled(c) ==
  /\ pc[c] \in {"trying", "waiting"}
  /\ Goto(c, "error")
  /\ UNCHANGED <<made, result, files, retry>>

-----------------------------------------------------------------------------

Download(c) ==
  DownloadFails(c) \/ Create(c) \/ Write(c) \/ Copied(c) \/ CloseFails(c)
    \/ CopyFails(c) \/ Remove(c)

Respond(c) == Answered(c) \/ AskFails(c) \/ Read(c) \/ Done(c) \/ ReadFails(c)

Forward(c) ==
  HookTaken(c) \/ HookRefused(c) \/ HookBusy(c) \/ HookLost(c) \/ WaitOver(c)
    \/ Cancelled(c)

Terminated == (\A c \in made : pc[c] \in Returned) /\ UNCHANGED vars

Next ==
  \/ \E c \in Calls : Begin(c) \/ Download(c) \/ Respond(c) \/ Forward(c)
  \/ Terminated

Spec == Init /\ [][Next]_vars

\* A download is under HTTPTimeout and an agent's answer under RespondTimeout:
\* both end, though neither peer need ever send anything.  A single hook request
\* is under HTTPTimeout; the job's context need not end.
Fairness ==
  \A c \in Calls :
    /\ WF_vars(DownloadFails(c) \/ Create(c))
    /\ WF_vars(Copied(c) \/ CloseFails(c) \/ CopyFails(c))
    /\ WF_vars(Remove(c))
    /\ WF_vars(Answered(c) \/ AskFails(c))
    /\ WF_vars(Done(c) \/ ReadFails(c))
    /\ WF_vars(HookBusy(c) \/ HookLost(c))
    /\ WF_vars(WaitOver(c))

FairSpec == Spec /\ Fairness

-----------------------------------------------------------------------------
(* Properties *)

\* The attachment is in the uploads directory, whole and alone in its file.
Whole(c) ==
  /\ dir[PathOf[c]] # NONE
  /\ data[dir[PathOf[c]]] = [i \in 1..SizeOf[c] |-> c]

Told(c) == pc[c] \in {"asking", "streaming", "ok"}

\* The attachment the agent is told of is whole if f.Close did not fail and no
\* other call has used the same path since this one opened its file.
UndisturbedFileIsWhole ==
  \A c \in Files : Told(c) /\ ~disturbed[c] /\ ~lost[c] => Whole(c)

\* Calls hold the locks of different channels and share the directory: one can
\* spoil the attachment of another only if the two have the same base name, and
\* only from the time it has opened its own file.
OnlyNamesakesSpoil ==
  \A c \in Files : Told(c) /\ ~Whole(c) =>
    \/ lost[c]
    \/ \E d \in made \ {c} : d \in Files /\ PathOf[d] = PathOf[c] /\ file[d] # NONE

At(c, e) == {i \in DOMAIN stream[c] : stream[c][i] = e}

\* The result, collected event by event, is what the whole stream says: the last
\* text, the ID of the last completion or else of the first creation, and every
\* tool in the order of its announcement.
ReplyMatchesStream ==
  \A c \in Calls :
    /\ text[c] \in At(c, "text") \cup {0}
    /\ \A i \in At(c, "text") : i <= text[c]
    /\ IF At(c, "completed") # {}
       THEN /\ responseID[c] \in At(c, "completed")
            /\ \A i \in At(c, "completed") : i <= responseID[c]
       ELSE /\ responseID[c] \in At(c, "created") \cup {0}
            /\ \A i \in At(c, "created") : 0 < responseID[c] /\ responseID[c] <= i
    /\ {toolCalls[c][n] : n \in DOMAIN toolCalls[c]} = At(c, "tool")
    /\ \A m, n \in DOMAIN toolCalls[c] : m < n => toolCalls[c][m] < toolCalls[c][n]

\* Forward reports success only for a hook that was taken, sends it at most
\* MaxRetries + 1 times, and never waits longer than MaxBackoff between two
\* attempts, also where the doubling leaves the range of a Duration.
RetriesAreBounded ==
  \A c \in Calls :
    /\ pc[c] = "ok" /\ KindOf[c] = "hook" => handled[c] > 0
    /\ handled[c] <= attempts[c]
    /\ pc[c] \in {"trying", "waiting"} => attempts[c] <= MaxRetries
    /\ wait[c] <= MaxBackoff

\* Every call returns, whatever the peers do.
CallsReturn == \A c \in Calls : pc[c] # "idle" ~> pc[c] \in Returned
=============================================================================
