------------------------------ MODULE MCHandlers ------------------------------
(***************************************************************************)
(* Handlers on all short requests: bodies of up to three bytes of any      *)
(* class and up to five of the classes that interact, which is long enough *)
(* for an escaped quote or backslash in a string and what follows it;      *)
(* notifications of up to six tokens, enough for two tags.                 *)
(***************************************************************************)
EXTENDS Handlers

UpTo(n, S) == UNION {[1..k -> S] : k \in 0..n}

ShortBodies == UpTo(3, Bytes) \cup UpTo(5, {"quote", "slash", "nl", "ctrl", "n", "plain"})

ShortNotes == UpTo(6, Tokens)
=============================================================================
