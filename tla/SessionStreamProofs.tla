------------------------ MODULE SessionStreamProofs ------------------------
(***************************************************************************)
(* Proofs about SessionStream, for any number of jobs, files, calls and    *)
(* places in the channel of names.  Three facts carry the order of the     *)
(* notices: a session file only grows, the IDs in seen are those of the    *)
(* calls told, and a scan takes the first occurrence of each new ID.       *)
(***************************************************************************)
EXTENDS SessionStream, FiniteSetTheorems, WellFoundedInduction, TLAPS

USE StreamAssumption

-----------------------------------------------------------------------------
(* Typing *)

LEMMA TypeInit == Init => TypeOK
BY DEF Init, TypeOK

LEMMA FoundType ==
  ASSUME NEW j \in Jobs, TypeOK, file[j] # NONE
  PROVE  /\ Found(j) \subseteq Nat
         /\ {IDAt(j, i) : i \in Found(j)} \subseteq IDs
<1>1. log[file[j]] \in Seq(Entry)
  BY DEF TypeOK
<1>2. DOMAIN log[file[j]] \subseteq Nat
  BY <1>1
<1> QED
  BY <1>2 DEF Found, Visible, VisibleIn, IDAt

LEMMA TypeNext == TypeOK /\ [Next]_vars => TypeOK'
<1> SUFFICES ASSUME TypeOK, [Next]_vars
             PROVE  TypeOK'
  OBVIOUS
<1> USE DEF TypeOK
<1>1. ASSUME NEW j \in Jobs, Worker(j)
      PROVE  TypeOK'
  <2>1. CASE Start(j)
    BY <2>1 DEF Start
  <2>2. CASE Return(j)
    BY <2>2 DEF Return
  <2>3. CASE Reply(j)
    BY <2>3 DEF Reply
  <2> QED
    BY <1>1, <2>1, <2>2, <2>3 DEF Worker
<1>2. ASSUME NEW j \in Jobs, Streamer(j)
      PROVE  TypeOK'
  <2>1. CASE FindFile(j)
    <3>1. PICK f \in Files : file' = [file EXCEPT ![j] = f]
      BY <2>1 DEF FindFile, Latest
    <3>2. f # NONE
      OBVIOUS
    <3> QED
      BY <2>1, <3>1, <3>2 DEF FindFile
  <2>2. CASE Take(j)
    <3>1. PICK s \in {"listening", "posting"} :
            streamer' = [streamer EXCEPT ![j] = s]
      BY <2>2 DEF Take
    <3>2. file[j] # NONE
      BY <2>2 DEF Take
    <3>3. taken[j] \in Nat /\ Len(sent[j]) \in Nat /\ taken[j] < Len(sent[j])
      BY <2>2 DEF Take
    <3>4. taken' = [taken EXCEPT ![j] = taken[j] + 1]
      BY <2>2 DEF Take
    <3>5. taken' \in [Jobs -> Nat] /\ taken'[j] <= Len(sent[j])
      BY <3>3, <3>4
    <3>6. \A k \in Jobs : tail'[k] \/ streamer'[k] \in {"listening", "posting"}
                            => file'[k] # NONE
      BY <2>2, <3>1, <3>2 DEF Take
    <3>7. \A k \in Jobs : /\ taken'[k] <= Len(sent'[k])
                           /\ Len(sent'[k]) <= taken'[k] + Capacity
      BY <2>2, <3>3, <3>4, <3>5 DEF Take
    <3> QED
      BY <2>2, <3>1, <3>5, <3>6, <3>7 DEF Take
  <2>3. CASE Posted(j)
    <3>1. late' = [late EXCEPT ![j] = late[j] + 1] \/ late' = late
      BY <2>3 DEF Posted
    <3>2. late \in [Jobs -> Nat] => late' \in [Jobs -> Nat]
      <4> HIDE DEF TypeOK
      <4> QED
        BY <3>1
    <3>3. \A k \in Jobs : tail'[k] \/ streamer'[k] \in {"listening", "posting"}
                            => file'[k] # NONE
      BY <2>3 DEF Posted
    <3> QED
      BY <2>3, <3>2, <3>3 DEF Posted
  <2>4. CASE StreamerStop(j)
    BY <2>4 DEF StreamerStop
  <2> QED
    BY <1>2, <2>1, <2>2, <2>3, <2>4 DEF Streamer
<1>3. ASSUME NEW j \in Jobs, TailStep(j)
      PROVE  TypeOK'
  <2>1. CASE Scan(j)
    BY <2>1, FoundType DEF Scan
  <2>2. CASE Send(j)
    <3>1. PICK i \in batch[j] :
            /\ batch' = [batch EXCEPT ![j] = @ \ {i}]
            /\ sent' = [sent EXCEPT ![j] = Append(@, i)]
      BY <2>2 DEF Send
    <3>2. i \in Nat
      OBVIOUS
    <3>3. sent[j] \in Seq(Nat) /\ Len(sent[j]) < taken[j] + Capacity
      BY <2>2 DEF Send
    <3>4. /\ Append(sent[j], i) \in Seq(Nat)
          /\ Len(Append(sent[j], i)) = Len(sent[j]) + 1
      BY <3>2, <3>3
    <3>5. sent' \in [Jobs -> Seq(Nat)] /\ batch' \in [Jobs -> SUBSET Nat]
      BY <3>1, <3>4
    <3>6. \A k \in Jobs : sent'[k] = IF k = j THEN Append(sent[j], i) ELSE sent[k]
      BY <3>1
    <3>7. /\ Capacity \in Nat /\ sent[j] \in Seq(Nat)
          /\ \A k \in Jobs : /\ taken[k] \in Nat /\ Len(sent[k]) \in Nat
                             /\ taken[k] <= Len(sent[k])
                             /\ Len(sent[k]) <= taken[k] + Capacity
      OBVIOUS
    <3>8. \A k \in Jobs : /\ taken[k] <= Len(sent'[k])
                           /\ Len(sent'[k]) <= taken[k] + Capacity
      <4> HIDE DEF TypeOK
      <4>1. SUFFICES ASSUME NEW k \in Jobs
                     PROVE  /\ taken[k] <= Len(sent'[k])
                            /\ Len(sent'[k]) <= taken[k] + Capacity
        OBVIOUS
      <4>2. CASE k = j
        <5>1. Len(sent'[k]) = Len(sent[k]) + 1 /\ Len(sent[k]) < taken[k] + Capacity
          BY <3>3, <3>4, <3>6, <4>2
        <5> QED
          BY <3>7, <5>1
      <4>3. CASE k # j
        <5>1. sent'[k] = sent[k]
          BY <3>6, <4>3
        <5> QED
          BY <3>7, <5>1
      <4> QED
        BY <4>2, <4>3
    <3>9. /\ UNCHANGED <<now, home, log, pc, asked, streamer, file, tail, seen,
                         taken, late>>
      BY <2>2 DEF Send
    <3> QED
      BY <3>5, <3>8, <3>9
  <2>3. CASE TailStop(j)
    BY <2>3 DEF TailStop
  <2> QED
    BY <1>3, <2>1, <2>2, <2>3 DEF TailStep
<1>4. ASSUME NEW j \in Jobs, Write(j)
      PROVE  TypeOK'
  <2>1. PICK x \in Lines[j] :
          log' = [log EXCEPT ![home[j]] =
                    Append(@, [by |-> j, id |-> x, time |-> now])]
    BY <1>4 DEF Write
  <2>2. [by |-> j, id |-> x, time |-> now] \in Entry
    BY DEF Entry
  <2>3. log' \in [Files -> Seq(Entry)]
    BY <2>1, <2>2
  <2> QED
    BY <1>4, <2>3 DEF Write
<1>5. CASE Tick
  BY <1>5 DEF Tick
<1>6. CASE Terminated \/ UNCHANGED vars
  BY <1>6 DEF Terminated, vars
<1> QED
  BY <1>1, <1>2, <1>3, <1>4, <1>5, <1>6 DEF Next

\* The two goroutines, the file they read and the channel between them keep
\* their shape; in particular the channel never holds more than its capacity.
THEOREM TypeCorrect == Spec => []TypeOK
BY TypeInit, TypeNext, PTL DEF Spec

-----------------------------------------------------------------------------
(* Files grow *)

Grows ==
  \A f \in Files : /\ Len(log[f]) <= Len(log'[f])
                   /\ \A i \in 1..Len(log[f]) : log'[f][i] = log[f][i]

LEMMA LogGrows == TypeOK /\ TypeOK' /\ [Next]_vars => Grows
<1> SUFFICES ASSUME TypeOK, TypeOK', [Next]_vars
             PROVE  Grows
  OBVIOUS
<1>1. ASSUME NEW j \in Jobs, Write(j)
      PROVE  Grows
  <2>1. PICK e \in Entry : log' = [log EXCEPT ![home[j]] = Append(@, e)]
    <3>1. PICK x \in Lines[j] :
            log' = [log EXCEPT ![home[j]] =
                      Append(@, [by |-> j, id |-> x, time |-> now])]
      BY <1>1 DEF Write
    <3>2. [by |-> j, id |-> x, time |-> now] \in Entry
      BY DEF Entry, TypeOK
    <3> QED
      BY <3>1, <3>2
  <2>2. log \in [Files -> Seq(Entry)]
    BY DEF TypeOK
  <2> QED
    BY <2>1, <2>2 DEF Grows
<1>2. CASE log' = log
  <2>1. \A f \in Files : log[f] \in Seq(Entry)
    BY DEF TypeOK
  <2> QED
    BY <1>2, <2>1 DEF Grows
<1> QED
  BY <1>1, <1>2 DEF Next, Worker, Streamer, TailStep, Start, Return, Reply,
                    FindFile, Take, Posted, StreamerStop, Scan, Send,
                    TailStop, Tick, Terminated, vars

\* What a scan sees of the lines that were there, it sees again.
LEMMA VisibleStable ==
  ASSUME NEW j \in Jobs, TypeOK, TypeOK', Grows, file[j] # NONE,
         file'[j] = file[j], asked'[j] = asked[j],
         NEW i \in 1..Len(log[file[j]])
  PROVE  /\ Visible(j, i)' <=> Visible(j, i)
         /\ IDAt(j, i)' = IDAt(j, i)
<1>1. file[j] \in Files
  BY DEF TypeOK
<1>2. log[file[j]] \in Seq(Entry) /\ log'[file[j]] \in Seq(Entry)
  BY <1>1 DEF TypeOK
<1>3. /\ i \in DOMAIN log[file[j]] /\ i \in DOMAIN log'[file[j]]
      /\ \A k \in 1..i : log'[file[j]][k] = log[file[j]][k]
  BY <1>1, <1>2 DEF Grows
<1> QED
  BY <1>3 DEF Visible, VisibleIn, IDAt

-----------------------------------------------------------------------------
(* The order of the notices *)

\* A goroutine has a file once it is past the search, and a job that has none
\* has told nothing yet.
Shape(j) ==
  /\ pc[j] = "idle" => streamer[j] = "off"
  /\ pc[j] = "idle" \/ streamer[j] = "searching" => file[j] = NONE
  /\ file[j] = NONE => ~tail[j] /\ sent[j] = <<>> /\ batch[j] = {} /\ seen[j] = {}

SeenIsTold(j) == tail[j] => seen[j] = {IDAt(j, i) : i \in Told(j)}

OrderInv(j) == Shape(j) /\ InOrder(j) /\ SeenIsTold(j)

ShapeInv == \A j \in Jobs : Shape(j)

AllOrdered == \A j \in Jobs : OrderInv(j)

LEMMA ToldIsNat ==
  ASSUME NEW j \in Jobs, TypeOK
  PROVE  /\ Told(j) \subseteq Nat
         /\ \A i \in Told(j) : Visible(j, i) =>
              /\ i \in 1..Len(log[file[j]])
              /\ file[j] \in Files
<1>1. sent[j] \in Seq(Nat) /\ batch[j] \subseteq Nat
  BY DEF TypeOK
<1>2. file[j] # NONE => file[j] \in Files /\ log[file[j]] \in Seq(Entry)
  BY DEF TypeOK
<1> QED
  BY <1>1, <1>2 DEF Told, Visible, VisibleIn

\* A job whose goroutines do not tell anything in a step keeps the order, though
\* its file may grow.
LEMMA Kept ==
  ASSUME NEW j \in Jobs, TypeOK, TypeOK', Grows, OrderInv(j),
         file'[j] = file[j], asked'[j] = asked[j] \/ file[j] = NONE,
         sent'[j] = sent[j], batch'[j] = batch[j], seen'[j] = seen[j],
         tail'[j] => tail[j]
  PROVE  InOrder(j)' /\ SeenIsTold(j)'
<1>1. Told(j)' = Told(j)
  BY DEF Told
<1>2. CASE file[j] = NONE
  BY <1>2 DEF OrderInv, Shape, InOrder, SeenIsTold, Told
<1>3. CASE file[j] # NONE
  <2>1. \A i \in Told(j) : /\ i \in 1..Len(log[file[j]])
                           /\ Visible(j, i)' /\ IDAt(j, i)' = IDAt(j, i)
    BY <1>3, ToldIsNat, VisibleStable DEF OrderInv, InOrder
  <2>2. \A i \in Told(j) : \A k \in 1..i :
          /\ Visible(j, k)' <=> Visible(j, k)
          /\ IDAt(j, k)' = IDAt(j, k)
    <3> SUFFICES ASSUME NEW i \in Told(j), NEW k \in 1..i
                 PROVE  /\ Visible(j, k)' <=> Visible(j, k)
                        /\ IDAt(j, k)' = IDAt(j, k)
      OBVIOUS
    <3>1. Len(log[file[j]]) \in Nat
      BY <1>3 DEF TypeOK
    <3>2. k \in 1..Len(log[file[j]])
      BY <2>1, <3>1
    <3> QED
      BY <1>3, <3>2, VisibleStable
  <2>3. InOrder(j)'
    BY <1>1, <2>1, <2>2 DEF OrderInv, InOrder
  <2>4. SeenIsTold(j)'
    BY <1>1, <2>1 DEF OrderInv, SeenIsTold
  <2> QED
    BY <2>3, <2>4
<1> QED
  BY <1>2, <1>3

\* A set of positions has a least one: of the intervals below its members one
\* contains no other strictly.
LEMMA LeastOf ==
  ASSUME NEW S \in SUBSET Nat, S # {}
  PROVE  \E x \in S : \A y \in S : x <= y
<1> DEFINE I == {1..x : x \in S}
           R == StrictSubsetOrdering(Nat)
<1>1. IsWellFoundedOn(R, FiniteSubsetsOf(Nat))
  BY FS_StrictSubsetOrderingWellFounded
<1>2. I \subseteq FiniteSubsetsOf(Nat)
  BY FS_Interval DEF FiniteSubsetsOf
<1>3. I # {}
  <2>1. PICK x : x \in S
    OBVIOUS
  <2>2. 1..x \in I
    BY <2>1
  <2> QED
    BY <2>2
<1> HIDE DEF I, R
<1>4. PICK m \in I : \A y \in I : <<y, m>> \notin R
  BY <1>1, <1>2, <1>3, WFMin
<1>5. PICK x \in S : m = 1..x
  BY DEF I
<1>6. ASSUME NEW y \in S, ~(x <= y)
      PROVE  FALSE
  <2>1. 1..y \in I /\ 1..y \in FiniteSubsetsOf(Nat)
    BY <1>2 DEF I
  <2>2. 1..y \subseteq m /\ 1..y # m
    BY <1>5, <1>6
  <2>3. <<1..y, m>> \in R
    BY <1>2, <2>1, <2>2 DEF R, StrictSubsetOrdering, FiniteSubsetsOf
  <2> QED
    BY <1>4, <2>1, <2>3
<1> QED
  BY <1>6

\* A scan finds new calls only behind all that were told, and leaves none out.
LEMMA ScanKeeps ==
  ASSUME NEW j \in Jobs, TypeOK, OrderInv(j), Scan(j)
  PROVE  InOrder(j)' /\ SeenIsTold(j)'
<1> DEFINE F == Found(j)
           S == Told(j)
<1>1. /\ file[j] # NONE /\ file' = file /\ log' = log /\ asked' = asked
      /\ sent' = sent /\ tail' = tail /\ tail[j]
      /\ batch[j] = {} /\ batch'[j] = F
      /\ seen'[j] = seen[j] \cup {IDAt(j, i) : i \in F}
  BY DEF Scan, TypeOK
<1>2. \A i : /\ Visible(j, i)' <=> Visible(j, i)
             /\ IDAt(j, i)' = IDAt(j, i)
  BY <1>1 DEF Visible, VisibleIn, IDAt
<1>3. /\ S \subseteq Nat /\ F \subseteq Nat
      /\ S = {sent[j][n] : n \in DOMAIN sent[j]}
      /\ Told(j)' = S \cup F
  BY <1>1, ToldIsNat, FoundType DEF Told
<1>4. /\ seen[j] = {IDAt(j, i) : i \in S}
      /\ \A i \in S : Visible(j, i)
      /\ \A i, k \in S : IDAt(j, i) = IDAt(j, k) => i = k
      /\ \A i \in S : \A k \in 1..i :
           Visible(j, k) => \E h \in S : h <= k /\ IDAt(j, h) = IDAt(j, k)
      /\ \A m, n \in DOMAIN sent[j] : m < n => sent[j][m] < sent[j][n]
  BY <1>1 DEF OrderInv, InOrder, SeenIsTold
<1>5. \A i \in F : /\ Visible(j, i) /\ IDAt(j, i) \notin seen[j]
                   /\ \A k \in 1..(i - 1) :
                        Visible(j, k) => IDAt(j, k) # IDAt(j, i)
  BY DEF Found
<1>6. \A i : Visible(j, i) => i \in Nat \ {0} /\ i \in DOMAIN log[file[j]]
  <2>1. log[file[j]] \in Seq(Entry)
    BY <1>1 DEF TypeOK
  <2> QED
    BY <2>1 DEF Visible, VisibleIn
<1> HIDE DEF F, S
<1>7. \A q \in S, i \in F : q < i
  <2> SUFFICES ASSUME NEW q \in S, NEW i \in F, ~(q < i)
               PROVE  FALSE
    OBVIOUS
  <2>1. i \in 1..q
    BY <1>3, <1>5, <1>6
  <2>2. PICK h \in S : IDAt(j, h) = IDAt(j, i)
    BY <1>4, <1>5, <2>1
  <2> QED
    BY <1>4, <1>5, <2>2
<1>8. \A i, k \in F : IDAt(j, i) = IDAt(j, k) => i = k
  <2> SUFFICES ASSUME NEW i \in F, NEW k \in F, IDAt(j, i) = IDAt(j, k), i < k
               PROVE  FALSE
    BY <1>3
  <2>1. i \in 1..(k - 1)
    BY <1>3, <1>5, <1>6
  <2> QED
    BY <1>5, <2>1
<1>9. \A i \in S, k \in F : IDAt(j, i) # IDAt(j, k)
  BY <1>4, <1>5
<1>10. ASSUME NEW i \in S \cup F, NEW k \in 1..i, Visible(j, k)
       PROVE  \E h \in S \cup F : h <= k /\ IDAt(j, h) = IDAt(j, k)
  <2>1. CASE i \in S
    BY <1>4, <1>10, <2>1
  <2>2. CASE IDAt(j, k) \in seen[j]
    <3>1. PICK q \in S : IDAt(j, q) = IDAt(j, k)
      BY <1>4, <2>2
    <3>2. CASE q <= k
      BY <3>1, <3>2
    <3>3. CASE ~(q <= k)
      <4>1. k \in 1..q
        BY <1>3, <1>6, <1>10, <3>3
      <4> QED
        BY <1>4, <1>10, <4>1
    <3> QED
      BY <3>2, <3>3
  <2>3. CASE IDAt(j, k) \notin seen[j]
    <3> DEFINE P == {p \in Nat : Visible(j, p) /\ IDAt(j, p) = IDAt(j, k)}
    <3>1. k \in P
      BY <1>6, <1>10
    <3>2. PICK h \in P : \A p \in P : h <= p
      <4> HIDE DEF P
      <4>1. P \in SUBSET Nat
        BY DEF P
      <4> QED
        BY <3>1, <4>1, LeastOf
    <3>3. \A p \in 1..(h - 1) : Visible(j, p) => IDAt(j, p) # IDAt(j, h)
      BY <3>2
    <3>4. h \in F
      BY <1>6, <2>3, <3>2, <3>3 DEF F, Found
    <3> QED
      BY <3>1, <3>2, <3>4
  <2> QED
    BY <2>1, <2>2, <2>3
<1>11. InOrder(j)'
  <2>1. \A m, n \in DOMAIN sent'[j] : m < n => sent'[j][m] < sent'[j][n]
    BY <1>1, <1>4
  <2>2. \A n \in DOMAIN sent'[j], i \in batch'[j] : sent'[j][n] < i
    BY <1>1, <1>3, <1>7
  <2>3. \A i \in Told(j)' : Visible(j, i)'
    BY <1>2, <1>3, <1>4, <1>5
  <2>4. \A i, k \in Told(j)' : IDAt(j, i)' = IDAt(j, k)' => i = k
    <3>1. \A i, k \in S \cup F : IDAt(j, i) = IDAt(j, k) => i = k
      BY <1>4, <1>8, <1>9
    <3> QED
      BY <1>2, <1>3, <3>1
  <2>5. \A i \in Told(j)' : \A k \in 1..i : Visible(j, k)' =>
          \E h \in Told(j)' : h <= k /\ IDAt(j, h)' = IDAt(j, k)'
    <3> SUFFICES ASSUME NEW i \in Told(j)', NEW k \in 1..i, Visible(j, k)'
                 PROVE  \E h \in Told(j)' : h <= k /\ IDAt(j, h)' = IDAt(j, k)'
      OBVIOUS
    <3>1. i \in S \cup F /\ Visible(j, k)
      BY <1>2, <1>3
    <3>2. PICK h \in S \cup F : h <= k /\ IDAt(j, h) = IDAt(j, k)
      BY <1>10, <3>1
    <3>3. IDAt(j, h)' = IDAt(j, k)'
      BY <1>2, <3>2
    <3> QED
      BY <1>3, <3>2, <3>3
  <2> QED
    BY <2>1, <2>2, <2>3, <2>4, <2>5 DEF InOrder
<1>12. SeenIsTold(j)'
  <2>1. seen'[j] = {IDAt(j, i) : i \in S \cup F}
    BY <1>1, <1>4
  <2>2. {IDAt(j, i) : i \in S \cup F} = {IDAt(j, i)' : i \in Told(j)'}
    BY <1>2, <1>3
  <2> QED
    BY <2>1, <2>2 DEF SeenIsTold
<1> QED
  BY <1>11, <1>12

\* The next name goes from the batch to the channel: what is told stays.
LEMMA SendKeeps ==
  ASSUME NEW j \in Jobs, TypeOK, OrderInv(j), Send(j)
  PROVE  InOrder(j)' /\ SeenIsTold(j)'
<1>1. PICK i \in batch[j] :
        /\ \A k \in batch[j] : i <= k
        /\ batch' = [batch EXCEPT ![j] = @ \ {i}]
        /\ sent' = [sent EXCEPT ![j] = Append(@, i)]
  BY DEF Send
<1>2. /\ sent[j] \in Seq(Nat) /\ batch[j] \subseteq Nat
      /\ sent'[j] = Append(sent[j], i) /\ batch'[j] = batch[j] \ {i}
  BY <1>1 DEF TypeOK
<1>3. /\ Len(sent[j]) \in Nat /\ DOMAIN sent[j] = 1..Len(sent[j])
      /\ DOMAIN sent'[j] = 1..(Len(sent[j]) + 1)
      /\ \A n \in DOMAIN sent[j] : sent'[j][n] = sent[j][n]
      /\ sent'[j][Len(sent[j]) + 1] = i
  BY <1>2
<1>4. Told(j)' = Told(j)
  <2>1. {sent'[j][n] : n \in DOMAIN sent'[j]}
          = {sent[j][n] : n \in DOMAIN sent[j]} \cup {i}
    BY <1>3
  <2> QED
    BY <1>1, <1>2, <2>1 DEF Told
<1>5. \A k : /\ Visible(j, k)' <=> Visible(j, k)
             /\ IDAt(j, k)' = IDAt(j, k)
  BY DEF Send, Visible, VisibleIn, IDAt
<1>6. \A m, n \in DOMAIN sent'[j] : m < n => sent'[j][m] < sent'[j][n]
  <2> SUFFICES ASSUME NEW m \in DOMAIN sent'[j], NEW n \in DOMAIN sent'[j], m < n
               PROVE  sent'[j][m] < sent'[j][n]
    OBVIOUS
  <2>1. m \in DOMAIN sent[j] /\ (n \in DOMAIN sent[j] \/ n = Len(sent[j]) + 1)
    BY <1>3
  <2> QED
    BY <1>1, <1>3, <2>1 DEF OrderInv, InOrder
<1>7. \A n \in DOMAIN sent'[j], k \in batch'[j] : sent'[j][n] < k
  <2> SUFFICES ASSUME NEW n \in DOMAIN sent'[j], NEW k \in batch'[j]
               PROVE  sent'[j][n] < k
    OBVIOUS
  <2>1. k \in batch[j] /\ k # i /\ i <= k /\ i \in Nat /\ k \in Nat
    BY <1>1, <1>2
  <2>2. n \in DOMAIN sent[j] \/ n = Len(sent[j]) + 1
    BY <1>3
  <2> QED
    BY <1>3, <2>1, <2>2 DEF OrderInv, InOrder
<1>8. InOrder(j)'
  BY <1>4, <1>5, <1>6, <1>7 DEF OrderInv, InOrder
<1>9. SeenIsTold(j)'
  BY <1>4, <1>5 DEF OrderInv, SeenIsTold, Send
<1> QED
  BY <1>8, <1>9

\* A tail that stops drops its batch, which is behind all it has sent.
LEMMA TailStopKeeps ==
  ASSUME NEW j \in Jobs, TypeOK, OrderInv(j), TailStop(j)
  PROVE  InOrder(j)' /\ SeenIsTold(j)'
<1> DEFINE S == {sent[j][n] : n \in DOMAIN sent[j]}
<1>1. /\ sent' = sent /\ batch'[j] = {} /\ ~tail'[j]
      /\ sent[j] \in Seq(Nat) /\ batch[j] \subseteq Nat
  BY DEF TailStop, TypeOK
<1>2. Told(j)' = S /\ Told(j) = S \cup batch[j] /\ S \subseteq Nat
  BY <1>1 DEF Told
<1>3. \A k : /\ Visible(j, k)' <=> Visible(j, k)
             /\ IDAt(j, k)' = IDAt(j, k)
  BY DEF TailStop, Visible, VisibleIn, IDAt
<1>4. \A q \in S, i \in batch[j] : q < i
  BY DEF OrderInv, InOrder
<1> HIDE DEF S
<1>5. ASSUME NEW i \in S, NEW k \in 1..i, Visible(j, k)
      PROVE  \E h \in S : h <= k /\ IDAt(j, h) = IDAt(j, k)
  <2>1. PICK h \in S \cup batch[j] : h <= k /\ IDAt(j, h) = IDAt(j, k)
    BY <1>2, <1>5 DEF OrderInv, InOrder
  <2>2. h \notin batch[j]
    BY <1>1, <1>2, <1>4, <2>1
  <2> QED
    BY <2>1, <2>2
<1>6. InOrder(j)'
  <2>1. \A i, k \in S : IDAt(j, i) = IDAt(j, k) => i = k
    BY <1>2 DEF OrderInv, InOrder
  <2>2. \A i \in S : Visible(j, i)
    BY <1>2 DEF OrderInv, InOrder
  <2>3. \A m, n \in DOMAIN sent'[j] : m < n => sent'[j][m] < sent'[j][n]
    BY <1>1 DEF OrderInv, InOrder
  <2>4. \A n \in DOMAIN sent'[j], i \in batch'[j] : sent'[j][n] < i
    BY <1>1
  <2>5. \A i \in Told(j)' : Visible(j, i)'
    BY <1>2, <1>3, <2>2
  <2>6. \A i, k \in Told(j)' : IDAt(j, i)' = IDAt(j, k)' => i = k
    BY <1>2, <1>3, <2>1
  <2>7. \A i \in Told(j)' : \A k \in 1..i :
          Visible(j, k)' => \E h \in Told(j)' : h <= k /\ IDAt(j, h)' = IDAt(j, k)'
    <3> SUFFICES ASSUME NEW i \in S, NEW k \in 1..i, Visible(j, k)'
                 PROVE  \E h \in S : h <= k /\ IDAt(j, h)' = IDAt(j, k)'
      BY <1>2
    <3>1. Visible(j, k)
      BY <1>3
    <3>2. PICK h \in S : h <= k /\ IDAt(j, h) = IDAt(j, k)
      BY <1>5, <3>1
    <3> QED
      BY <1>3, <3>2
  <2> QED
    BY <2>3, <2>4, <2>5, <2>6, <2>7 DEF InOrder
<1> QED
  BY <1>1, <1>6 DEF SeenIsTold

LEMMA ShapeNext == TypeOK /\ ShapeInv /\ [Next]_vars => ShapeInv'
<1> SUFFICES ASSUME TypeOK, \A j \in Jobs : Shape(j), [Next]_vars,
                    NEW i \in Jobs
             PROVE  Shape(i)'
  BY DEF ShapeInv
<1> USE DEF TypeOK, Shape
<1>1. ASSUME NEW j \in Jobs, Worker(j)
      PROVE  Shape(i)'
  <2>1. CASE Start(j)
    <3>1. /\ pc' = [pc EXCEPT ![j] = "responding"]
          /\ streamer' \in {streamer, [streamer EXCEPT ![j] = "searching"]}
          /\ pc[j] = "idle"
          /\ UNCHANGED <<file, tail, seen, batch, sent>>
      BY <2>1 DEF Start
    <3>2. /\ pc'[j] = "responding" /\ file[j] = NONE
          /\ i # j => pc'[i] = pc[i] /\ streamer'[i] = streamer[i]
      BY <3>1
    <3> HIDE DEF TypeOK
    <3> QED
      BY <3>1, <3>2
  <2>2. CASE Return(j) \/ Reply(j)
    <3>1. /\ pc' \in {[pc EXCEPT ![j] = "returned"], [pc EXCEPT ![j] = "replied"]}
          /\ pc[j] # "idle"
          /\ UNCHANGED <<streamer, file, tail, seen, batch, sent>>
      BY <2>2 DEF Return, Reply
    <3>2. pc'[i] = "idle" => pc[i] = "idle"
      BY <3>1
    <3> HIDE DEF TypeOK
    <3> QED
      BY <3>1, <3>2
  <2> QED
    BY <1>1, <2>1, <2>2 DEF Worker
<1>2. ASSUME NEW j \in Jobs, Streamer(j)
      PROVE  Shape(i)'
  <2>1. CASE FindFile(j)
    <3>1. PICK f \in Files : file' = [file EXCEPT ![j] = f]
      BY <2>1 DEF FindFile, Latest
    <3> QED
      BY <2>1, <3>1 DEF FindFile
  <2>2. CASE Take(j)
    BY <2>2 DEF Take
  <2>3. CASE Posted(j)
    BY <2>3 DEF Posted
  <2>4. CASE StreamerStop(j)
    BY <2>4 DEF StreamerStop
  <2> QED
    BY <1>2, <2>1, <2>2, <2>3, <2>4 DEF Streamer
<1>3. ASSUME NEW j \in Jobs, TailStep(j)
      PROVE  Shape(i)'
  <2>1. file[j] # NONE
    BY <1>3 DEF TailStep, Scan, Send, TailStop
  <2>2. CASE Scan(j)
    BY <2>1, <2>2 DEF Scan
  <2>3. CASE Send(j)
    <3>1. \A k \in Jobs : k # j => sent'[k] = sent[k] /\ batch'[k] = batch[k]
      BY <2>3 DEF Send
    <3> QED
      BY <2>1, <2>3, <3>1 DEF Send
  <2>4. CASE TailStop(j)
    BY <2>1, <2>4 DEF TailStop
  <2> QED
    BY <1>3, <2>2, <2>3, <2>4 DEF TailStep
<1>4. CASE (\E j \in Jobs : Write(j)) \/ Tick \/ Terminated \/ UNCHANGED vars
  <2>1. UNCHANGED <<pc, streamer, file, tail, sent, batch, seen>>
    BY <1>4 DEF Write, Tick, Terminated, vars
  <2> QED
    BY <2>1
<1> QED
  BY <1>1, <1>2, <1>3, <1>4 DEF Next

LEMMA OrderNext == TypeOK /\ TypeOK' /\ AllOrdered /\ [Next]_vars => AllOrdered'
<1> SUFFICES ASSUME TypeOK, TypeOK', \A j \in Jobs : OrderInv(j), [Next]_vars,
                    NEW i \in Jobs
             PROVE  OrderInv(i)'
  BY DEF AllOrdered
<1>1. Grows /\ Shape(i)'
  BY LogGrows, ShapeNext DEF OrderInv, ShapeInv
<1>2. ASSUME file'[i] = file[i], asked'[i] = asked[i] \/ file[i] = NONE,
             sent'[i] = sent[i], batch'[i] = batch[i], seen'[i] = seen[i],
             tail'[i] => tail[i]
      PROVE  OrderInv(i)'
  BY <1>1, <1>2, Kept DEF OrderInv
<1>3. ASSUME NEW j \in Jobs, Worker(j)
      PROVE  OrderInv(i)'
  <2>1. asked'[i] = asked[i] \/ file[i] = NONE
    <3>1. CASE Start(j)
      <4>1. asked' = [asked EXCEPT ![j] = now] /\ pc[j] = "idle"
        BY <3>1 DEF Start
      <4>2. file[j] = NONE
        BY <4>1 DEF OrderInv, Shape
      <4> QED
        BY <4>1, <4>2 DEF TypeOK
    <3>2. CASE Return(j) \/ Reply(j)
      BY <3>2 DEF Return, Reply
    <3> QED
      BY <1>3, <3>1, <3>2 DEF Worker
  <2> QED
    BY <1>2, <1>3, <2>1 DEF Worker, Start, Return, Reply
<1>4. ASSUME NEW j \in Jobs, FindFile(j)
      PROVE  OrderInv(i)'
  <2>1. CASE i = j
    <3>1. sent[i] = <<>> /\ batch[i] = {} /\ seen[i] = {}
      BY <1>4, <2>1 DEF FindFile, OrderInv, Shape
    <3>2. Told(i)' = {} /\ sent'[i] = <<>> /\ batch'[i] = {} /\ seen'[i] = {}
      BY <1>4, <3>1 DEF FindFile, Told
    <3>3. InOrder(i)' /\ SeenIsTold(i)'
      BY <3>2 DEF InOrder, SeenIsTold
    <3> QED
      BY <1>1, <3>3 DEF OrderInv
  <2>2. CASE i # j
    <3>1. file'[i] = file[i] /\ tail'[i] = tail[i]
      BY <1>4, <2>2 DEF FindFile, TypeOK
    <3> QED
      BY <1>2, <1>4, <3>1 DEF FindFile
  <2> QED
    BY <2>1, <2>2
<1>5. ASSUME NEW j \in Jobs, Take(j) \/ Posted(j) \/ StreamerStop(j)
      PROVE  OrderInv(i)'
  BY <1>2, <1>5 DEF Take, Posted, StreamerStop
<1>6. ASSUME NEW j \in Jobs, TailStep(j)
      PROVE  OrderInv(i)'
  <2>1. CASE i = j
    <3>1. InOrder(i)' /\ SeenIsTold(i)'
      BY <1>6, <2>1, ScanKeeps, SendKeeps, TailStopKeeps DEF TailStep
    <3> QED
      BY <1>1, <3>1 DEF OrderInv
  <2>2. CASE i # j
    <3>1. /\ sent'[i] = sent[i] /\ batch'[i] = batch[i] /\ seen'[i] = seen[i]
          /\ tail'[i] = tail[i]
      <4>0. /\ DOMAIN sent = Jobs /\ DOMAIN batch = Jobs /\ DOMAIN seen = Jobs
            /\ DOMAIN tail = Jobs
        BY DEF TypeOK
      <4>1. CASE Scan(j)
        BY <2>2, <4>0, <4>1 DEF Scan
      <4>2. CASE Send(j)
        BY <2>2, <4>0, <4>2 DEF Send
      <4>3. CASE TailStop(j)
        BY <2>2, <4>0, <4>3 DEF TailStop
      <4> QED
        BY <1>6, <4>1, <4>2, <4>3 DEF TailStep
    <3> QED
      BY <1>2, <1>6, <3>1 DEF TailStep, Scan, Send, TailStop
  <2> QED
    BY <2>1, <2>2
<1>7. CASE (\E j \in Jobs : Write(j)) \/ Tick \/ Terminated \/ UNCHANGED vars
  BY <1>2, <1>7 DEF Write, Tick, Terminated, vars
<1>8. ASSUME NEW j \in Jobs, Streamer(j)
      PROVE  OrderInv(i)'
  BY <1>4, <1>5, <1>8 DEF Streamer
<1> QED
  BY <1>3, <1>6, <1>7, <1>8 DEF Next

\* The user is told of every tool call once and in order, and of none from
\* before the request, for any number of jobs that share files and any capacity
\* of the channel of names.
THEOREM ToldInOrder == Spec => []ToldOnceInOrder
<1>1. Init => AllOrdered
  BY DEF Init, AllOrdered, OrderInv, Shape, InOrder, SeenIsTold, Told
<1>2. AllOrdered => ToldOnceInOrder
  BY DEF AllOrdered, OrderInv, ToldOnceInOrder
<1> QED
  BY <1>1, <1>2, TypeInit, TypeNext, OrderNext, PTL DEF Spec

-----------------------------------------------------------------------------
(* Late notices *)

LateInv ==
  \A j \in Jobs : /\ late[j] <= 1
                  /\ late[j] > 0 => pc[j] = "replied" /\ streamer[j] # "posting"

LEMMA LateNext == TypeOK /\ LateInv /\ [Next]_vars => LateInv'
<1> SUFFICES ASSUME TypeOK, LateInv, [Next]_vars, NEW i \in Jobs
             PROVE  /\ late'[i] <= 1
                    /\ late'[i] > 0 => pc'[i] = "replied" /\ streamer'[i] # "posting"
  BY DEF LateInv
<1> USE DEF TypeOK, LateInv
<1>1. ASSUME NEW j \in Jobs, Worker(j)
      PROVE  /\ late'[i] <= 1
             /\ late'[i] > 0 => pc'[i] = "replied" /\ streamer'[i] # "posting"
  <2>1. CASE Start(j)
    <3>1. late[j] \in Nat /\ ~(late[j] > 0)
      BY <2>1 DEF Start
    <3>2. late[j] = 0
      <4> HIDE DEF TypeOK, LateInv
      <4> QED
        BY <3>1
    <3> QED
      BY <2>1, <3>1, <3>2 DEF Start
  <2>2. CASE Return(j)
    BY <2>2 DEF Return
  <2>3. CASE Reply(j)
    BY <2>3 DEF Reply
  <2> QED
    BY <1>1, <2>1, <2>2, <2>3 DEF Worker
<1>2. ASSUME NEW j \in Jobs, Streamer(j)
      PROVE  /\ late'[i] <= 1
             /\ late'[i] > 0 => pc'[i] = "replied" /\ streamer'[i] # "posting"
  <2>1. CASE FindFile(j)
    BY <2>1 DEF FindFile
  <2>2. CASE Take(j)
    BY <2>2 DEF Take, Cancelled
  <2>3. CASE Posted(j)
    <3>1. late[j] = 0 /\ streamer'[j] = "listening"
      BY <2>3 DEF Posted
    <3>2. \/ late' = late
          \/ pc[j] = "replied" /\ late' = [late EXCEPT ![j] = 1]
      BY <2>3, <3>1 DEF Posted
    <3> QED
      BY <2>3, <3>1, <3>2 DEF Posted
  <2>4. CASE StreamerStop(j)
    BY <2>4 DEF StreamerStop
  <2> QED
    BY <1>2, <2>1, <2>2, <2>3, <2>4 DEF Streamer
<1>3. ASSUME NEW j \in Jobs, TailStep(j) \/ Write(j)
      PROVE  /\ late'[i] <= 1
             /\ late'[i] > 0 => pc'[i] = "replied" /\ streamer'[i] # "posting"
  BY <1>3 DEF TailStep, Scan, Send, TailStop, Write
<1>4. CASE Tick \/ Terminated \/ UNCHANGED vars
  BY <1>4 DEF Tick, Terminated, vars
<1> QED
  BY <1>1, <1>2, <1>3, <1>4 DEF Next

\* However the streamer, the tail and the worker interleave, at most one notice
\* reaches Zoho after the reply.
THEOREM LateOnce == Spec => []OneLateNotice
<1>1. Init => LateInv
  BY DEF Init, LateInv
<1>2. LateInv => OneLateNotice
  BY DEF LateInv, OneLateNotice
<1> QED
  BY <1>1, <1>2, TypeInit, TypeNext, LateNext, PTL DEF Spec

=============================================================================
