--------------------------- MODULE MCSessionStream ---------------------------
(***************************************************************************)
(* SessionStream on a small instance: two jobs, of one channel or of two,  *)
(* and a channel of names with one place.                                  *)
(***************************************************************************)
EXTENDS SessionStream

CONSTANTS j1, j2, f1, f2, a, b

OneOrTwoSessions ==
  {[j \in {j1, j2} |-> f1], [j \in {j1, j2} |-> IF j = j1 THEN f1 ELSE f2]}

\* The agent of j1 makes two calls or writes text; that of j2 writes a call with
\* an ID of the other, or a line that is too long.
SomeLines ==
  [j \in {j1, j2} |-> IF j = j1 THEN {a, b, TEXT} ELSE {b, LONG}]
=============================================================================
