---------------------------- MODULE HandlersProofs ----------------------------
(***************************************************************************)
(* Proofs about Handlers, for bodies and notifications of any length.      *)
(* sanitizeJSON is right because its two flags follow the mode of both     *)
(* readers, the lenient one of the body and encoding/json on its output.   *)
(***************************************************************************)
EXTENDS Handlers, TLAPS

USE HandlersAssumption

-----------------------------------------------------------------------------
(* The readers *)

Modes == {"outside", "inside", "escape"}

Meanings == Seq({"json", "text"} \X Bytes)

LEMMA ReaderFields ==
  ASSUME NEW r \in Reader
  PROVE  r.mode \in Modes /\ r.means \in Meanings /\ r.illegal \in BOOLEAN
BY DEF Reader, Modes, Meanings

LEMMA FeedType ==
  ASSUME NEW r \in Reader, NEW b \in Bytes
  PROVE  Feed(r, b) \in Reader
<1>1. Mode(r.mode, b) \in Modes
  BY ReaderFields DEF Mode, Modes
<1>2. Unescape(b) \in Bytes
  BY DEF Unescape, Bytes, Raw, Letters
<1>3. Means(r.mode, b) \in Meanings
  <2>1. <<"json", b>> \in {"json", "text"} \X Bytes
    OBVIOUS
  <2>2. <<"text", b>> \in {"json", "text"} \X Bytes
    OBVIOUS
  <2>3. <<"text", Unescape(b)>> \in {"json", "text"} \X Bytes
    BY <1>2
  <2>4. Means(r.mode, b) \in {<<<<"json", b>>>>, <<>>, <<<<"text", b>>>>,
                              <<<<"text", Unescape(b)>>>>}
    BY ReaderFields DEF Means, Modes
  <2>5. \A x \in {"json", "text"} \X Bytes : <<x>> \in Meanings
    BY DEF Meanings
  <2>6. <<>> \in Meanings
    BY DEF Meanings
  <2> QED
    BY <2>1, <2>2, <2>3, <2>4, <2>5, <2>6
<1>4. r.means \o Means(r.mode, b) \in Meanings
  BY <1>3, ReaderFields DEF Meanings
<1>5. (r.illegal \/ (r.mode # "outside" /\ b \in Raw)) \in BOOLEAN
  BY ReaderFields
<1> QED
  BY <1>1, <1>4, <1>5 DEF Feed, Reader, Modes, Meanings

\* What one byte of the output, or the two of a replacement, are.
LEMMA SanitizedIs ==
  ASSUME NEW b \in Bytes
  PROVE  \/ Sanitized(b) = <<b>>
         \/ \E l \in Letters : /\ Sanitized(b) = <<"slash", l>> /\ Unescape(l) = b
                               /\ inString /\ ~escaped /\ b \in {"nl", "cr", "tab"}
BY DEF Sanitized, Letters, Unescape

LEMMA FeedAllType ==
  ASSUME NEW r \in Reader, NEW b \in Bytes
  PROVE  FeedAll(r, Sanitized(b)) \in Reader
<1>1. CASE Sanitized(b) = <<b>>
  BY <1>1, FeedType DEF FeedAll
<1>2. ASSUME NEW l \in Letters, Sanitized(b) = <<"slash", l>>
      PROVE  FeedAll(r, Sanitized(b)) \in Reader
  <2>1. "slash" \in Bytes /\ l \in Bytes
    BY DEF Bytes
  <2>2. FeedAll(r, Sanitized(b)) = Feed(Feed(r, "slash"), l)
    BY <1>2 DEF FeedAll
  <2> QED
    BY <2>1, <2>2, FeedType
<1> QED
  BY <1>1, <1>2, SanitizedIs

-----------------------------------------------------------------------------
(* Typing, with the flags of the scan *)

\* The flags follow the mode of both readers, which agree.
FlagsInv ==
  /\ read.mode = decoded.mode
  /\ inString <=> read.mode # "outside"
  /\ escaped <=> read.mode = "escape"

LEMMA TypeInit == Init => TypeOK /\ FlagsInv
<1> SUFFICES ASSUME Init
             PROVE  TypeOK /\ FlagsInv
  OBVIOUS
<1>1. Start \in Reader
  BY DEF Start, Reader
<1>2. body \in Seq(Bytes) /\ note \in Seq(Tokens)
  <2>1. body = <<>> \/ body \in Bodies
    BY DEF Init
  <2>2. note = <<>> \/ note \in Notes
    BY DEF Init
  <2>3. <<>> \in Seq(Bytes) /\ <<>> \in Seq(Tokens)
    OBVIOUS
  <2> QED
    BY <2>1, <2>2, <2>3
<1>3. 0 \in 0..Len(body)
  BY <1>2
<1>4. /\ pc \in {"scanning", "checking"} /\ i = 0 /\ out = <<>>
      /\ inString = FALSE /\ escaped = FALSE
      /\ read = Start /\ decoded = Start
      /\ text = {} /\ path = {} /\ posted = {} /\ uploaded = {} /\ tried = {}
  BY DEF Init
<1>5. Start.mode = "outside"
  BY DEF Start
<1>6. FlagsInv
  BY <1>4, <1>5 DEF FlagsInv
<1>7. <<>> \in Seq(Bytes)
  OBVIOUS
<1>8. TypeOK
  BY <1>1, <1>2, <1>3, <1>4, <1>7 DEF TypeOK
<1> QED
  BY <1>6, <1>8

LEMMA ScanStep ==
  ASSUME TypeOK, FlagsInv, ScanByte
  PROVE  TypeOK' /\ FlagsInv'
<1> DEFINE b == body[i + 1]
<1>1. /\ i < Len(body) /\ i' = i + 1
      /\ out' = out \o Sanitized(b)
      /\ inString' = Toggled(b) /\ escaped' = Escaped(b)
      /\ read' = Feed(read, b)
      /\ decoded' = FeedAll(decoded, Sanitized(b))
      /\ UNCHANGED <<pc, body, notifier>>
  BY DEF ScanByte
<1>2. b \in Bytes /\ i' \in 0..Len(body)
  BY <1>1 DEF TypeOK
<1>3. read \in Reader /\ decoded \in Reader
  BY DEF TypeOK
<1> HIDE DEF b
<1>4. read' \in Reader /\ decoded' \in Reader
  BY <1>1, <1>2, <1>3, FeedType, FeedAllType
<1>5. Sanitized(b) \in Seq(Bytes)
  <2>1. <<b>> \in Seq(Bytes)
    BY <1>2
  <2>2. \A l \in Letters : <<"slash", l>> \in Seq(Bytes)
    BY DEF Bytes
  <2> QED
    BY <1>2, <2>1, <2>2, SanitizedIs
<1>6. out' \in Seq(Bytes)
  BY <1>1, <1>5 DEF TypeOK
<1>7. inString' \in BOOLEAN /\ escaped' \in BOOLEAN /\ (escaped' => inString')
  BY <1>1, <1>2 DEF TypeOK, Toggled, Escaped
<1>8. TypeOK'
  BY <1>1, <1>2, <1>4, <1>6, <1>7 DEF TypeOK, notifier
<1>9. read'.mode = Mode(read.mode, b)
  BY <1>1 DEF Feed
<1>10. (inString' <=> read'.mode # "outside") /\ (escaped' <=> read'.mode = "escape")
  BY <1>1, <1>2, <1>3, <1>9, ReaderFields DEF FlagsInv, Mode, Modes, Toggled, Escaped
<1>11. read'.mode = decoded'.mode
  <2>1. CASE Sanitized(b) = <<b>>
    BY <1>1, <1>9, <2>1 DEF FeedAll, Feed, FlagsInv
  <2>2. ASSUME NEW l \in Letters, Sanitized(b) = <<"slash", l>>,
               inString, ~escaped, b \in {"nl", "cr", "tab"}
        PROVE  read'.mode = decoded'.mode
    <3>1. decoded.mode = "inside" /\ read.mode = "inside"
      BY <1>3, <2>2, ReaderFields DEF FlagsInv, Modes
    <3>2. decoded' = Feed(Feed(decoded, "slash"), l)
      BY <1>1, <2>2 DEF FeedAll
    <3>3. decoded'.mode = Mode(Mode("inside", "slash"), l)
      BY <3>1, <3>2 DEF Feed
    <3> QED
      BY <1>9, <2>2, <3>1, <3>3 DEF Mode
  <2> QED
    BY <1>2, <2>1, <2>2, SanitizedIs
<1> QED
  BY <1>8, <1>10, <1>11 DEF FlagsInv

LEMMA TypeNext == TypeOK /\ FlagsInv /\ [Next]_vars => TypeOK' /\ FlagsInv'
<1> SUFFICES ASSUME TypeOK, FlagsInv, [Next]_vars
             PROVE  TypeOK' /\ FlagsInv'
  OBVIOUS
<1>1. CASE ScanByte
  BY <1>1, ScanStep
<1>2. CASE Unreadable \/ Dispatch \/ Deny \/ NotifyUnreadable \/ Invalid \/ Skip
           \/ Post \/ PostFails \/ Send \/ SendPanics
  <2>1. UNCHANGED sanitizer /\ UNCHANGED <<note, text, path>>
    BY <1>2 DEF Unreadable, Dispatch, Deny, NotifyUnreadable, Invalid, Skip, Post,
                PostFails, Send, SendPanics, notifier
  <2>2. pc' \in {"posting", "sending", "ok200", "invalid400", "denied401", "busy429",
                 "error500"}
    BY <1>2 DEF Unreadable, Dispatch, Deny, NotifyUnreadable, Invalid, Skip, Post,
                PostFails, Send, SendPanics
  <2>3. \A s \in {posted', uploaded', tried'} : s \subseteq DOMAIN note
    BY <1>2 DEF Unreadable, Dispatch, Deny, NotifyUnreadable, Invalid, Skip, Post,
                PostFails, Send, SendPanics, notifier, TypeOK
  <2> QED
    BY <2>1, <2>2, <2>3 DEF TypeOK, FlagsInv, sanitizer
<1>3. CASE Parse
  <2>1. UNCHANGED <<sanitizer, note, posted, uploaded, tried>> /\ pc' = "parsed"
    BY <1>3 DEF Parse
  <2>2. DOMAIN note = 1..Len(note) /\ Len(note) \in Nat
    BY DEF TypeOK
  <2>3. \A s : Trim(s) \subseteq s
    BY DEF Trim
  <2>4. \A o, c \in DOMAIN note :
          Inside(o, c) \subseteq DOMAIN note /\ Outside(o, c) \subseteq DOMAIN note
    BY <2>2 DEF Inside, Outside
  <2>5. path' \subseteq DOMAIN note /\ text' \subseteq DOMAIN note
    BY <1>3, <2>3, <2>4 DEF Parse
  <2> QED
    BY <2>1, <2>5 DEF TypeOK, FlagsInv, sanitizer
<1>4. CASE UNCHANGED vars
  BY <1>4 DEF vars, sanitizer, notifier, TypeOK, FlagsInv
<1> QED
  BY <1>1, <1>2, <1>3, <1>4 DEF Next, Terminated

LEMMA TypeAndFlags == Spec => [](TypeOK /\ FlagsInv)
<1>1. Init => TypeOK /\ FlagsInv
  BY TypeInit
<1>2. (TypeOK /\ FlagsInv) /\ [Next]_vars => (TypeOK /\ FlagsInv)'
  BY TypeNext
<1> QED
  BY <1>1, <1>2, PTL DEF Spec

\* The types, among them that sanitizeJSON sees an escape only inside a string and
\* never reads beyond the body.
THEOREM TypeCorrect == Spec => []TypeOK
BY TypeAndFlags, PTL

-----------------------------------------------------------------------------
(* The meaning of the body *)

LEMMA MeaningInit == Init => MeaningKept
BY DEF Init, MeaningKept

LEMMA MeaningNext == TypeOK /\ FlagsInv /\ MeaningKept /\ [Next]_vars => MeaningKept'
<1> SUFFICES ASSUME TypeOK, FlagsInv, MeaningKept, [Next]_vars
             PROVE  MeaningKept'
  OBVIOUS
<1>1. CASE UNCHANGED <<read, decoded>>
  BY <1>1 DEF MeaningKept
<1>2. CASE ScanByte
  <2> DEFINE b == body[i + 1]
  <2>1. /\ read' = Feed(read, b)
        /\ decoded' = FeedAll(decoded, Sanitized(b))
    BY <1>2 DEF ScanByte
  <2>2. b \in Bytes
    BY <1>2 DEF ScanByte, TypeOK
  <2>3. read.mode = decoded.mode /\ read.means = decoded.means
    BY DEF FlagsInv, MeaningKept
  <2>4. read.means \in Meanings /\ decoded.mode \in Modes
    BY ReaderFields DEF TypeOK
  <2> HIDE DEF b
  <2>5. CASE Sanitized(b) = <<b>>
    <3>1. decoded' = Feed(decoded, b)
      BY <2>1, <2>5 DEF FeedAll
    <3>2. decoded'.means = decoded.means \o Means(decoded.mode, b)
      BY <3>1 DEF Feed
    <3>3. read'.means = read.means \o Means(read.mode, b)
      BY <2>1 DEF Feed
    <3> QED
      BY <2>3, <3>2, <3>3 DEF MeaningKept
  <2>6. ASSUME NEW l \in Letters, Sanitized(b) = <<"slash", l>>, Unescape(l) = b,
               inString, ~escaped, b \in {"nl", "cr", "tab"}
        PROVE  MeaningKept'
    <3>1. decoded.mode = "inside"
      BY <2>3, <2>4, <2>6 DEF FlagsInv, Modes
    <3>2. decoded' = Feed(Feed(decoded, "slash"), l)
      BY <2>1, <2>6 DEF FeedAll
    <3>3. /\ Mode("inside", "slash") = "escape"
          /\ Means("inside", "slash") = <<>>
          /\ Means("escape", l) = <<<<"text", b>>>>
          /\ Means("inside", b) = <<<<"text", b>>>>
      BY <2>6 DEF Mode, Means
    <3>4. decoded'.means = (decoded.means \o <<>>) \o <<<<"text", b>>>>
      BY <3>1, <3>2, <3>3 DEF Feed
    <3>5. read'.means = read.means \o <<<<"text", b>>>>
      BY <2>1, <2>3, <3>1, <3>3 DEF Feed
    <3>6. read.means \o <<>> = read.means
      BY <2>4 DEF Meanings
    <3> QED
      BY <2>3, <3>4, <3>5, <3>6 DEF MeaningKept
  <2> QED
    BY <2>2, <2>5, <2>6, SanitizedIs
<1>3. [Next]_vars => ScanByte \/ UNCHANGED <<read, decoded>>
  BY DEF Next, Unreadable, Dispatch, Deny, NotifyUnreadable, Invalid, Parse, Skip, Post,
         PostFails, Send, SendPanics, Terminated, vars, sanitizer
<1> QED
  BY <1>1, <1>2, <1>3

\* The job's document is the one the body meant, for every body.
THEOREM MeaningIsKept == Spec => []MeaningKept
<1>1. (TypeOK /\ FlagsInv) /\ MeaningKept /\ [Next]_vars => MeaningKept'
  BY MeaningNext
<1> QED
  BY <1>1, MeaningInit, TypeAndFlags, PTL DEF Spec

-----------------------------------------------------------------------------
(* The characters of the strings *)

\* While a byte is escaped the one before it was the backslash.
EscapeInv == escaped => i > 0 /\ body[i] = "slash"

SanitizedInv == EscapeInv /\ StringsSanitized

LEMMA SanitizedInit == Init => SanitizedInv
BY DEF Init, SanitizedInv, EscapeInv, StringsSanitized, Start

LEMMA SanitizedNext == TypeOK /\ FlagsInv /\ SanitizedInv /\ [Next]_vars => SanitizedInv'
<1> SUFFICES ASSUME TypeOK, FlagsInv, SanitizedInv, [Next]_vars
             PROVE  SanitizedInv'
  OBVIOUS
<1>1. CASE UNCHANGED sanitizer
  BY <1>1 DEF sanitizer, SanitizedInv, EscapeInv, StringsSanitized
<1>2. CASE ScanByte
  <2> DEFINE b == body[i + 1]
  <2>1. /\ i < Len(body) /\ i' = i + 1 /\ body' = body
        /\ escaped' = Escaped(b)
        /\ decoded' = FeedAll(decoded, Sanitized(b))
    BY <1>2 DEF ScanByte
  <2>2. b \in Bytes /\ i \in Nat /\ decoded \in Reader
    BY <2>1 DEF TypeOK
  <2>3. body'[i'] = b
    BY <2>1
  <2> HIDE DEF b
  <2>4. EscapeInv'
    <3>1. escaped' => b = "slash"
      BY <2>1 DEF Escaped
    <3>2. i' > 0
      BY <2>1, <2>2
    <3> QED
      BY <2>3, <3>1, <3>2 DEF EscapeInv
  <2>5. CASE decoded.illegal
    <3>1. PICK k \in 1..i :
            body[k] = "ctrl" \/ (k > 1 /\ body[k - 1] = "slash" /\ body[k] \in Raw)
      BY <2>5 DEF SanitizedInv, StringsSanitized
    <3>2. k \in 1..i'
      BY <2>1, <2>2
    <3> QED
      BY <2>1, <2>4, <3>1, <3>2 DEF SanitizedInv, StringsSanitized
  <2>6. CASE ~decoded.illegal /\ Sanitized(b) = <<b>>
    <3>1. decoded'.illegal <=> (decoded.mode # "outside" /\ b \in Raw)
      <4>1. decoded' = Feed(decoded, b)
        BY <2>1, <2>6 DEF FeedAll
      <4>2. decoded'.illegal = (decoded.illegal \/ (decoded.mode # "outside" /\ b \in Raw))
        BY <4>1 DEF Feed
      <4> QED
        BY <2>6, <4>2
    <3>2. CASE decoded'.illegal
      <4>1. inString /\ b \in Raw
        BY <3>1, <3>2 DEF FlagsInv
      <4>2. i' \in 1..i' /\ i' - 1 = i
        BY <2>1, <2>2
      <4>3. CASE escaped
        <5>1. i > 0 /\ body[i] = "slash"
          BY <4>3 DEF SanitizedInv, EscapeInv
        <5>2. i' > 1 /\ body'[i' - 1] = "slash" /\ body'[i'] \in Raw
          BY <2>1, <2>2, <2>3, <4>1, <4>2, <5>1
        <5> QED
          BY <2>4, <4>2, <5>2 DEF SanitizedInv, StringsSanitized
      <4>4. CASE ~escaped
        <5>1. b = "ctrl"
          BY <2>6, <4>1, <4>4 DEF Sanitized, Raw
        <5> QED
          BY <2>3, <2>4, <4>2, <5>1 DEF SanitizedInv, StringsSanitized
      <4> QED
        BY <4>3, <4>4
    <3> QED
      BY <2>4, <3>2 DEF SanitizedInv, StringsSanitized
  <2>7. ASSUME NEW l \in Letters, Sanitized(b) = <<"slash", l>>, ~decoded.illegal
        PROVE  SanitizedInv'
    <3>1. decoded' = Feed(Feed(decoded, "slash"), l)
      BY <2>1, <2>7 DEF FeedAll
    <3>2. "slash" \notin Raw /\ l \notin Raw
      BY DEF Raw, Letters
    <3>3. ~decoded'.illegal
      BY <2>7, <3>1, <3>2 DEF Feed
    <3> QED
      BY <2>4, <3>3 DEF SanitizedInv, StringsSanitized
  <2> QED
    BY <2>2, <2>5, <2>6, <2>7, SanitizedIs
<1>3. [Next]_vars => ScanByte \/ UNCHANGED sanitizer
  BY DEF Next, Unreadable, Dispatch, Deny, NotifyUnreadable, Invalid, Parse, Skip, Post,
         PostFails, Send, SendPanics, Terminated, vars
<1> QED
  BY <1>1, <1>2, <1>3

\* No raw newline, return or tab is left in a string, unless behind a backslash.
THEOREM StringsAreSanitized == Spec => []StringsSanitized
<1>1. SanitizedInv => StringsSanitized
  BY DEF SanitizedInv
<1>2. (TypeOK /\ FlagsInv) /\ SanitizedInv /\ [Next]_vars => SanitizedInv'
  BY SanitizedNext
<1> QED
  BY <1>1, <1>2, SanitizedInit, TypeAndFlags, PTL DEF Spec

-----------------------------------------------------------------------------
(* Legal bodies *)

\* JSON without illegal characters is dispatched byte for byte, so that the
\* repair cannot do harm; and no body more than doubles.
LegalUntouched ==
  /\ ~read.illegal /\ i = Len(body) => out = body
  /\ i <= Len(out) /\ Len(out) <= 2 * i

\* The same of the part that is scanned.
SameSoFar == ~read.illegal => Len(out) = i /\ \A k \in 1..i : out[k] = body[k]

CopyInv == SameSoFar /\ i <= Len(out) /\ Len(out) <= 2 * i

LEMMA CopyStep ==
  ASSUME TypeOK, FlagsInv, CopyInv, ScanByte
  PROVE  CopyInv'
<1> DEFINE b == body[i + 1]
           w == Sanitized(b)
<1>1. /\ i < Len(body) /\ i' = i + 1 /\ body' = body
      /\ out' = out \o w
      /\ read' = Feed(read, b)
  BY DEF ScanByte
<1>2. b \in Bytes /\ i \in Nat /\ out \in Seq(Bytes) /\ Len(out) \in Nat
  BY <1>1 DEF TypeOK
<1>3. w \in Seq(Bytes) /\ Len(w) \in {1, 2}
  <2>1. <<b>> \in Seq(Bytes) /\ Len(<<b>>) = 1
    BY <1>2
  <2>2. \A l \in Letters : <<"slash", l>> \in Seq(Bytes) /\ Len(<<"slash", l>>) = 2
    BY DEF Bytes
  <2> HIDE DEF b
  <2> QED
    BY <1>2, <2>1, <2>2, SanitizedIs
<1>4. read'.illegal = (read.illegal \/ (read.mode # "outside" /\ b \in Raw))
  BY <1>1 DEF Feed
<1>5. ~read'.illegal => ~read.illegal /\ w = <<b>>
  <2>1. inString /\ ~escaped /\ b \in {"nl", "cr", "tab"} => read'.illegal
    BY <1>4 DEF FlagsInv, Raw
  <2> HIDE DEF b
  <2> QED
    BY <1>2, <1>4, <2>1, SanitizedIs
<1> HIDE DEF b, w
<1>6. Len(out') = Len(out) + Len(w)
  BY <1>1, <1>2, <1>3
<1>7. i' <= Len(out') /\ Len(out') <= 2 * i'
  <2>1. i <= Len(out) /\ Len(out) <= 2 * i
    BY DEF CopyInv
  <2>2. ASSUME NEW n \in Nat, NEW m \in {1, 2}, i <= n, n <= 2 * i
        PROVE  i + 1 <= n + m /\ n + m <= 2 * (i + 1)
    BY <1>2, <2>2
  <2> QED
    BY <1>1, <1>2, <1>3, <1>6, <2>1, <2>2
<1>8. SameSoFar'
  <2> SUFFICES ASSUME ~read'.illegal
               PROVE  Len(out') = i' /\ \A k \in 1..i' : out'[k] = body'[k]
    BY DEF SameSoFar
  <2>1. Len(out) = i /\ \A k \in 1..i : out[k] = body[k]
    BY <1>5 DEF CopyInv, SameSoFar
  <2>2. out' = out \o <<b>> /\ Len(out') = i'
    BY <1>1, <1>2, <1>5, <1>6, <2>1
  <2>3. out'[i'] = b /\ \A k \in 1..i : out'[k] = out[k]
    BY <1>1, <1>2, <2>1, <2>2
  <2>4. body'[i'] = b
    BY <1>1 DEF b
  <2>5. \A k \in 1..i' : k \in 1..i \/ k = i'
    BY <1>1, <1>2
  <2> QED
    BY <1>1, <2>1, <2>2, <2>3, <2>4, <2>5
<1> QED
  BY <1>7, <1>8 DEF CopyInv

\* For every body sanitizeJSON changes nothing but illegal characters: a legal
\* one leaves as it came.
THEOREM LegalIsUntouched == Spec => []LegalUntouched
<1>1. Init => CopyInv
  <2>1. Len(<<>>) = 0
    OBVIOUS
  <2> QED
    BY <2>1 DEF Init, CopyInv, SameSoFar
<1>2. (TypeOK /\ FlagsInv) /\ CopyInv /\ [Next]_vars => CopyInv'
  <2>1. [Next]_vars => ScanByte \/ UNCHANGED sanitizer
    BY DEF Next, Unreadable, Dispatch, Deny, NotifyUnreadable, Invalid, Parse, Skip, Post,
           PostFails, Send, SendPanics, Terminated, vars
  <2>2. CopyInv /\ UNCHANGED sanitizer => CopyInv'
    BY DEF CopyInv, SameSoFar, sanitizer
  <2> QED
    BY <2>1, <2>2, CopyStep
<1>3. TypeOK /\ CopyInv => LegalUntouched
  <2> SUFFICES ASSUME TypeOK, CopyInv, ~read.illegal, i = Len(body)
               PROVE  out = body
    BY DEF CopyInv, LegalUntouched
  <2>1. out \in Seq(Bytes) /\ body \in Seq(Bytes)
    BY DEF TypeOK
  <2>2. Len(out) = Len(body) /\ \A k \in 1..Len(body) : out[k] = body[k]
    BY DEF CopyInv, SameSoFar
  <2> QED
    BY <2>1, <2>2
<1> QED
  BY <1>1, <1>2, <1>3, TypeAndFlags, PTL DEF Spec

-----------------------------------------------------------------------------
(* The notification *)

\* What a handler that has parsed the note still owes it, by where it is.
OwedInv ==
  /\ pc \in {"parsed", "posting", "sending"} => Words \subseteq text \cup path
  /\ text \cap path = {}
  /\ posted \in {{}, text} /\ tried \in {{}, path}
  /\ pc \in {"scanning", "checking", "parsed", "posting"} => posted = {}
  /\ pc \notin {"ok200"} => tried = {} /\ uploaded = {}
  /\ pc = "sending" => posted = text
  /\ pc = "ok200" => Words \subseteq posted \cup tried
  /\ pc \in {"scanning", "busy429"} => note = <<>>

LEMMA OwedInit == Init => OwedInv
BY DEF Init, OwedInv

\* Trimming loses spaces only.
LEMMA TrimKeepsWords ==
  ASSUME NEW s, s \subseteq Int
  PROVE  Trim(s) \subseteq s /\ \A k \in s : note[k] = "word" => k \in Trim(s)
BY DEF Trim

\* The words are in the text or the path, and in one of them only.
LEMMA ParseSplits ==
  ASSUME TypeOK, Parse
  PROVE  Words \subseteq text' \cup path' /\ text' \cap path' = {}
<1>1. DOMAIN note = 1..Len(note) /\ Len(note) \in Nat /\ DOMAIN note \subseteq Int
  BY DEF TypeOK
<1>2. ASSUME NEW o \in DOMAIN note, NEW c \in DOMAIN note, Tag(o, c),
             path' = Trim(Inside(o, c)), text' = Trim(Outside(o, c))
      PROVE  Words \subseteq text' \cup path' /\ text' \cap path' = {}
  <2>1. note[o] # "word" /\ note[c] # "word" /\ o < c
    BY <1>2 DEF Tag
  <2>2. Inside(o, c) \subseteq Int /\ Outside(o, c) \subseteq Int
    BY <1>1 DEF Inside, Outside
  <2>3. Inside(o, c) \cap Outside(o, c) = {}
    BY <1>1, <2>1 DEF Inside, Outside
  <2>4. \A k \in DOMAIN note : k \in {o, c} \/ k \in Inside(o, c) \/ k \in Outside(o, c)
    BY <1>1 DEF Inside, Outside
  <2>5. Words \subseteq Inside(o, c) \cup Outside(o, c)
    BY <2>1, <2>4 DEF Words
  <2> QED
    BY <1>2, <2>2, <2>3, <2>5, TrimKeepsWords DEF Words
<1>3. CASE path' = {} /\ text' = Trim(DOMAIN note)
  BY <1>1, <1>3, TrimKeepsWords DEF Words
<1> QED
  BY <1>2, <1>3 DEF Parse

LEMMA OwedNext == TypeOK /\ OwedInv /\ [Next]_vars => OwedInv'
<1> SUFFICES ASSUME TypeOK, OwedInv, [Next]_vars
             PROVE  OwedInv'
  OBVIOUS
<1> USE DEF OwedInv, Words
<1>1. CASE ScanByte \/ Unreadable \/ Dispatch \/ Deny \/ NotifyUnreadable \/ Invalid
  BY <1>1 DEF ScanByte, Unreadable, Dispatch, Deny, NotifyUnreadable, Invalid, notifier
<1>2. CASE Parse
  <2>1. Words \subseteq text' \cup path' /\ text' \cap path' = {}
    BY <1>2, ParseSplits
  <2> QED
    BY <1>2, <2>1 DEF Parse
<1>3. CASE Skip
  BY <1>3 DEF Skip, notifier
<1>4. CASE Post
  BY <1>4 DEF Post
<1>5. CASE PostFails
  BY <1>5 DEF PostFails
<1>6. CASE Send
  BY <1>6 DEF Send
<1>7. CASE SendPanics
  BY <1>7 DEF SendPanics, notifier
<1>8. CASE UNCHANGED vars
  BY <1>8 DEF vars, notifier
<1> QED
  BY <1>1, <1>2, <1>3, <1>4, <1>5, <1>6, <1>7, <1>8 DEF Next, Terminated

\* Every word of an answered notification has been posted or named a file that
\* was sent off; an error answer means that no file was.
THEOREM NothingIsSwallowed == Spec => []NothingSwallowed
<1>1. OwedInv => NothingSwallowed
  BY DEF OwedInv, NothingSwallowed
<1>2. (TypeOK /\ FlagsInv) /\ OwedInv /\ [Next]_vars => OwedInv'
  BY OwedNext
<1> QED
  BY <1>1, <1>2, OwedInit, TypeAndFlags, PTL DEF Spec
=============================================================================
