---------------------------- MODULE MCDispatcher ----------------------------
(***************************************************************************)
(* Dispatcher on a small instance.  Two jobs of a channel race for its     *)
(* lock; with a third one waits while the other two change hands and a     *)
(* thread can fork.  A payload that does not parse takes no lock.          *)
(***************************************************************************)
EXTENDS Dispatcher

CONSTANTS j1, j2, j3, j4, c1, c2

\* A message, an attachment and a message in one channel, or a message and a payload
\* that does not parse.
ThreeOrTwo == {{j1, j2, j3}, {j1, j4}}
OneChannel == [j \in {j1, j2, j3, j4} |-> c1]
TextsFileRaw ==
  [j \in {j1, j2, j3, j4} |->
     CASE j = j2 -> "file" [] j = j4 -> "raw" [] OTHER -> "text"]

\* A reply of two posts, one whose events carried no ID, one with nothing to
\* deliver.
ThreeReplies == {
  [hasID |-> TRUE, items |-> <<"summary", "text">>],
  [hasID |-> FALSE, items |-> <<"file">>],
  [hasID |-> TRUE, items |-> <<>>]}

TwoReplies == {
  [hasID |-> TRUE, items |-> <<"summary", "text">>],
  [hasID |-> FALSE, items |-> <<"file">>]}
=============================================================================
