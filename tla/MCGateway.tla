------------------------------ MODULE MCGateway ------------------------------
(***************************************************************************)
(* Gateway on small instances: three attachments of which two have the     *)
(* same base name and different sizes, one message whose stream brings     *)
(* every kind of event, and one hook that is retried until its backoff     *)
(* leaves the range of a Duration, cut to Width bits.                      *)
(***************************************************************************)
EXTENDS Gateway

CONSTANTS a1, a2, a3, msg, hook, p1, p2

OneLoad == {{a1, a2, a3}, {msg}, {hook}}

Kinds == [c \in {a1, a2, a3, msg, hook} |->
  CASE c = msg -> "text" [] c = hook -> "hook" [] OTHER -> "file"]

TwoOnePath == [c \in {a1, a2, a3} |-> IF c = a3 THEN p2 ELSE p1]

Sizes == [c \in {a1, a2, a3} |-> IF c = a1 THEN 2 ELSE 1]

\* The file calls are about files: their streams bring nothing.
Streams == [c \in {a1, a2, a3, msg, hook} |-> IF c = msg THEN Events ELSE {}]
=============================================================================
