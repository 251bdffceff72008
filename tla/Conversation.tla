---------------------------- MODULE Conversation ----------------------------
(***************************************************************************)
(* What the dispatcher promises of the conversations it keeps, with no     *)
(* lock, gateway or process in sight: the agent is asked one message of a  *)
(* channel at a time, each request continues the last turn of the channel  *)
(* until its answer is the next one, and what is posted in answer to them  *)
(* is posted one turn at a time.                                           *)
(***************************************************************************)
EXTENDS Naturals, Sequences, Functions

CONSTANTS Jobs, Channels, ChannelOf, NONE

VARIABLES tip,         \* channel -> the last turn of its thread, NONE at first
          parent,      \* job -> the turn its request continues, NONE if none
          phase,       \* job -> "open", "asked", "linked" (in the thread) or
                      \* "closed"
          transcript   \* channel -> for each post, the job that posted it

vars == <<tip, parent, phase, transcript>>

Init ==
  /\ tip = [c \in Channels |-> NONE]
  /\ parent = [j \in Jobs |-> NONE]
  /\ phase = [j \in Jobs |-> "open"]
  /\ transcript = [c \in Channels |-> <<>>]

\* The agent is asked, to continue the thread where it ends; a channel with no
\* turn yet starts a new session.
Ask(j) ==
  /\ phase[j] = "open"
  /\ \A k \in Jobs :
       ChannelOf[k] = ChannelOf[j] => phase[k] \notin {"asked", "linked"}
  /\ phase' = [phase EXCEPT ![j] = "asked"]
  /\ parent' = [parent EXCEPT ![j] = tip[ChannelOf[j]]]
  /\ UNCHANGED <<tip, transcript>>

\* The thread of the channel, still where the request found it, grows by the
\* turn j.
Link(j) ==
  /\ phase[j] = "asked"
  /\ parent[j] = tip[ChannelOf[j]]
  /\ phase' = [phase EXCEPT ![j] = "linked"]
  /\ tip' = [tip EXCEPT ![ChannelOf[j]] = j]
  /\ UNCHANGED <<parent, transcript>>

\* j posts an answer: no other job of the channel posted since j began to, and
\* no turn was added after that of j.
Say(j) ==
  LET said == transcript[ChannelOf[j]] IN
  /\ phase[j] \in {"asked", "linked"}
  /\ phase[j] = "linked" => tip[ChannelOf[j]] = j
  /\ j \in Range(said) => said[Len(said)] = j
  /\ transcript' = [transcript EXCEPT ![ChannelOf[j]] = Append(said, j)]
  /\ UNCHANGED <<tip, parent, phase>>

Close(j) ==
  /\ phase[j] # "closed"
  /\ phase' = [phase EXCEPT ![j] = "closed"]
  /\ UNCHANGED <<tip, parent, transcript>>

Next == \E j \in Jobs : Ask(j) \/ Link(j) \/ Say(j) \/ Close(j)

Spec == Init /\ [][Next]_vars
=============================================================================
