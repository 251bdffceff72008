------------------------------- MODULE Handlers -------------------------------
(***************************************************************************)
(* What the HTTP handlers do with the content of a request.                *)
(*                                                                         *)
(* HandleZoho (internal/handler/webhook.go) repairs the JSON of Zoho's     *)
(* link previews byte by byte before it dispatches the job; encoding/json, *)
(* which decodes it, is external and reads along.  Handle                  *)
(* (internal/handler/notify.go) takes apart a notification of the agent    *)
(* (parseReply, internal/handler/dispatcher.go) and posts its text and     *)
(* sends its file to Zoho (internal/zoho/sender.go), which is external.    *)
(***************************************************************************)
EXTENDS Integers, Sequences

CONSTANTS Bodies,     \* of webhooks: sequences of Bytes
          Notes        \* texts of notifications: sequences of Tokens

Raw == {"nl", "cr", "tab", "ctrl"}     \* illegal in a JSON string

Letters == {"n", "r", "t"}             \* what may stand for one after a backslash

Bytes == Raw \cup Letters \cup {"quote", "slash", "plain"}   \* slash: a backslash

Tokens == {"word", "space", "open", "close"}   \* open is "[FILE:", close is "]"

ASSUME HandlersAssumption ==
  /\ Bodies \subseteq Seq(Bytes)
  /\ Notes \subseteq Seq(Tokens)

VARIABLES pc,         \* where the request is, or how it was answered
          body, i, inString, escaped, out,   \* of sanitizeJSON; out is result
          read,       \* history: what the body means to a lenient reader
          decoded,    \* history: what encoding/json makes of out
          note,       \* p.Text
          text,       \* parseReply: the places of the note's tokens in the text
          path,       \* and in the path of the file
          posted,     \* history: what Zoho has taken as a message
          uploaded,   \* history: ... as a file
          tried       \* history: what was handed to SendFile

sanitizer == <<body, i, inString, escaped, out, read, decoded>>
notifier == <<note, text, path, posted, uploaded, tried>>
vars == <<pc, sanitizer, notifier>>

Reader == [mode : {"outside", "inside", "escape"},
           means : Seq({"json", "text"} \X Bytes),
           illegal : BOOLEAN]

TypeOK ==
  /\ pc \in {"scanning", "checking", "parsed", "posting", "sending", "ok200",
             "invalid400", "denied401", "busy429", "error500"}
  /\ body \in Seq(Bytes) /\ i \in 0..Len(body)
  /\ inString \in BOOLEAN /\ escaped \in BOOLEAN
  /\ escaped => inString
  /\ out \in Seq(Bytes)
  /\ read \in Reader /\ decoded \in Reader
  /\ note \in Seq(Tokens)
  /\ \A s \in {text, path, posted, uploaded, tried} : s \subseteq DOMAIN note

Start == [mode |-> "outside", means |-> <<>>, illegal |-> FALSE]

Init ==
  /\ \/ pc = "scanning" /\ body \in Bodies /\ note = <<>>
     \/ pc = "checking" /\ body = <<>> /\ note \in Notes
  /\ i = 0 /\ inString = FALSE /\ escaped = FALSE /\ out = <<>>
  /\ read = Start /\ decoded = Start
  /\ text = {} /\ path = {} /\ posted = {} /\ uploaded = {} /\ tried = {}

-----------------------------------------------------------------------------
(* Reading JSON *)

\* Where the byte b leaves a reader.
Mode(m, b) ==
  CASE m = "outside" -> IF b = "quote" THEN "inside" ELSE "outside"
    [] m = "inside"  -> IF b = "quote" THEN "outside"
                        ELSE IF b = "slash" THEN "escape" ELSE "inside"
    [] m = "escape"  -> "inside"

Unescape(b) ==
  CASE b = "n" -> "nl" [] b = "r" -> "cr" [] b = "t" -> "tab" [] OTHER -> b

\* What the byte adds to the document: JSON, or a character of a string.
Means(m, b) ==
  CASE m = "outside" \/ (m = "inside" /\ b = "quote") -> <<<<"json", b>>>>
    [] m = "inside" /\ b = "slash"                    -> <<>>
    [] m = "inside" /\ b \notin {"quote", "slash"}    -> <<<<"text", b>>>>
    [] m = "escape"                                   -> <<<<"text", Unescape(b)>>>>

Feed(r, b) ==
  [mode    |-> Mode(r.mode, b),
   means   |-> r.means \o Means(r.mode, b),
   illegal |-> r.illegal \/ (r.mode # "outside" /\ b \in Raw)]

FeedAll(r, s) == IF Len(s) = 1 THEN Feed(r, s[1]) ELSE Feed(Feed(r, s[1]), s[2])

-----------------------------------------------------------------------------
(* Faulty variants, each a slip this code could have.  No specification     *)
(* uses them: they show which property tells each one from the real step.  *)

\* sanitizeJSON takes a backslash outside a string for an escape.
EscapedAnywhere(b) == b = "slash" /\ ~escaped

\* The tab is forgotten.
SanitizedButTab(b) ==
  IF inString /\ ~escaped /\ b \in {"nl", "cr"}
  THEN <<"slash", IF b = "nl" THEN "n" ELSE "r">> ELSE <<b>>

\* An escaped quote ends the string.
ToggledByAny(b) == IF b = "quote" THEN ~inString ELSE inString

\* parseReply keeps only what stands before the tag.
OutsideBefore(o, c) == 1..(o - 1)

-----------------------------------------------------------------------------
(* HandleZoho *)

\* What sanitizeJSON writes for the byte b ...
Sanitized(b) ==
  IF inString /\ ~escaped /\ b \in {"nl", "cr", "tab"}
  THEN <<"slash", CASE b = "nl" -> "n" [] b = "cr" -> "r" [] b = "tab" -> "t">>
  ELSE <<b>>

\* ... and how b changes its flags.
Toggled(b) == IF b = "quote" /\ ~escaped THEN ~inString ELSE inString

Escaped(b) == b = "slash" /\ inString /\ ~escaped

ScanByte ==
  /\ pc = "scanning" /\ i < Len(body)
  /\ LET b == body[i + 1]
     IN  /\ out' = out \o Sanitized(b)
         /\ inString' = Toggled(b)
         /\ escaped' = Escaped(b)
         /\ read' = Feed(read, b)
         /\ decoded' = FeedAll(decoded, Sanitized(b))
  /\ i' = i + 1
  /\ UNCHANGED <<pc, body, notifier>>

\* The body could not be read.
Unreadable ==
  /\ pc = "scanning" /\ i = 0
  /\ pc' = "error500"
  /\ UNCHANGED <<sanitizer, notifier>>

\* out is the job, also if it does not decode; the pool takes it or is full.
Dispatch ==
  /\ pc = "scanning" /\ i = Len(body)
  /\ pc' \in {"ok200", "busy429"}
  /\ UNCHANGED <<sanitizer, notifier>>

-----------------------------------------------------------------------------
(* parseReply *)

\* The tag: an opening o and the next closing c behind it.  The first one counts.
Tag(o, c) ==
  /\ o \in DOMAIN note /\ c \in DOMAIN note /\ o < c
  /\ note[o] = "open" /\ note[c] = "close"
  /\ \A k \in 1..(o - 1) : note[k] # "open"
  /\ \A k \in (o + 1)..(c - 1) : note[k] # "close"

\* strings.TrimSpace of the tokens at the places s.
Trim(s) ==
  {k \in s : /\ \E a \in s : a <= k /\ note[a] # "space"
             /\ \E z \in s : k <= z /\ note[z] # "space"}

Inside(o, c) == (o + 1)..(c - 1)

Outside(o, c) == 1..(o - 1) \cup (c + 1)..Len(note)

-----------------------------------------------------------------------------
(* Handle *)

\* The secret is not the shared one ...
Deny ==
  /\ pc = "checking"
  /\ pc' = "denied401"
  /\ UNCHANGED <<sanitizer, notifier>>

\* ... the body cannot be read ...
NotifyUnreadable ==
  /\ pc = "checking"
  /\ pc' = "error500"
  /\ UNCHANGED <<sanitizer, notifier>>

\* ... is no JSON, as when it is cut at 1 MiB, or has no text.
Invalid ==
  /\ pc = "checking"
  /\ pc' = "invalid400"
  /\ UNCHANGED <<sanitizer, notifier>>

Parse ==
  /\ pc = "checking" /\ note # <<>>
  /\ \/ \E o, c \in DOMAIN note :
          Tag(o, c) /\ path' = Trim(Inside(o, c)) /\ text' = Trim(Outside(o, c))
     \/ /\ \A o, c \in DOMAIN note : ~Tag(o, c)
        /\ path' = {} /\ text' = Trim(DOMAIN note)
  /\ pc' = "parsed"
  /\ UNCHANGED <<sanitizer, note, posted, uploaded, tried>>

\* An empty text is not posted, an empty path not sent.
Skip ==
  \/ pc = "parsed" /\ pc' = (IF text # {} THEN "posting" ELSE "sending")
                   /\ UNCHANGED <<sanitizer, notifier>>
  \/ pc = "sending" /\ path = {} /\ pc' = "ok200"
                    /\ UNCHANGED <<sanitizer, notifier>>

Post ==
  /\ pc = "posting"
  /\ posted' = text
  /\ pc' = "sending"
  /\ UNCHANGED <<sanitizer, note, text, path, uploaded, tried>>

\* An error status or no answer, with which Zoho may have taken the post.  Without
\* a configured webhook the sender is nil, which panics: chi answers 500 too.
PostFails ==
  /\ pc = "posting"
  /\ posted' \in {{}, text}
  /\ pc' = "error500"
  /\ UNCHANGED <<sanitizer, note, text, path, uploaded, tried>>

\* The file is sent, or it is not and Zoho may have it all the same: the error is
\* only logged.
Send ==
  /\ pc = "sending" /\ path # {}
  /\ tried' = path
  /\ uploaded' \in {{}, path}
  /\ pc' = "ok200"
  /\ UNCHANGED <<sanitizer, note, text, path, posted>>

\* A nil sender.
SendPanics ==
  /\ pc = "sending" /\ path # {} /\ posted = {}
  /\ pc' = "error500"
  /\ UNCHANGED <<sanitizer, notifier>>

-----------------------------------------------------------------------------

Terminated ==
  /\ pc \in {"ok200", "invalid400", "denied401", "busy429", "error500"}
  /\ UNCHANGED vars

Next ==
  \/ ScanByte \/ Unreadable \/ Dispatch
  \/ Deny \/ NotifyUnreadable \/ Invalid \/ Parse \/ Skip
  \/ Post \/ PostFails \/ Send \/ SendPanics
  \/ Terminated

Spec == Init /\ [][Next]_vars

-----------------------------------------------------------------------------
(* Properties *)

\* The document of the job is the one Zoho meant: inside its strings a raw control
\* character is read as itself and everything else as the JSON it was, whatever
\* quotes and backslashes the message contains.
MeaningKept == decoded.means = read.means

\* sanitizeJSON leaves a control character in a string of its output only where
\* the body has one that it does not know, or one right behind a backslash; with
\* any other the job would not decode and go to the agent raw, outside its channel.
StringsSanitized ==
  decoded.illegal =>
    \E k \in 1..i :
      \/ body[k] = "ctrl"
      \/ k > 1 /\ body[k - 1] = "slash" /\ body[k] \in Raw

Words == {k \in DOMAIN note : note[k] = "word"}

\* A notification that is answered with 200, or whose file is on its way, has had
\* every word posted or used in the path of the file, and none for both; one
\* answered with an error has sent no file, so a repetition sends it once.
NothingSwallowed ==
  /\ pc = "ok200" \/ tried # {} => Words \subseteq posted \cup tried
  /\ posted \cap tried = {}
  /\ pc = "error500" => uploaded = {}
=============================================================================
