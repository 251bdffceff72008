------------------------ MODULE TokenRefresherProofs ------------------------
(***************************************************************************)
(* Proofs about TokenRefresher, for any number of callers and consents.    *)
(* The mutex makes the expired token the refresher saw stay the stored     *)
(* one: that is what NoNeedlessRefresh needs MutexOwner for.               *)
(***************************************************************************)
EXTENDS TokenRefresher, TLAPS

USE TokenAssumption DEF Callers, Consents, Ended, Locked

LEMMA TypeInit == Init => TypeOK
BY DEF Init, TypeOK

LEMMA TypeNext == TypeOK /\ [Next]_vars => TypeOK'
<1> SUFFICES ASSUME TypeOK, [Next]_vars
             PROVE  TypeOK'
  OBVIOUS
<1> USE DEF TypeOK, Goto
<1>1. ASSUME NEW u \in Users, ValidToken(u)
      PROVE  TypeOK'
  <2>1. CASE Peek(u)
    BY <2>1 DEF Peek, Fresh
  <2>2. CASE Lock(u)
    BY <2>2 DEF Lock
  <2>3. CASE RecheckFresh(u)
    BY <2>3 DEF RecheckFresh, Fresh
  <2>4. CASE RecheckMissing(u)
    BY <2>4 DEF RecheckMissing
  <2>5. CASE RecheckExpired(u)
    BY <2>5 DEF RecheckExpired
  <2>6. CASE RefreshFails(u)
    BY <2>6 DEF RefreshFails
  <2>7. CASE Save(u)
    <3>1. [refresh |-> loaded[u], access |-> got[u]] \in [refresh : Consents, access : Nat]
      OBVIOUS
    <3>2. saved' \subseteq Nat
      <4>1. got[u] \in Nat /\ saved \subseteq Nat
        OBVIOUS
      <4>2. saved' = saved \cup {got[u]}
        BY <2>7 DEF Save
      <4> QED
        BY <4>1, <4>2
    <3> QED
      BY <2>7, <3>1, <3>2 DEF Save
  <2>8. CASE SaveFails(u)
    BY <2>8 DEF SaveFails
  <2>9. CASE LoadFails(u)
    BY <2>9 DEF LoadFails
  <2> QED
    BY <1>1, <2>1, <2>2, <2>3, <2>4, <2>5, <2>6, <2>7, <2>8, <2>9 DEF ValidToken
<1>2. ASSUME NEW a \in Admins, ExchangeCode(a)
      PROVE  TypeOK'
  <2>1. CASE Exchange(a)
    BY <2>1 DEF Exchange
  <2>2. CASE SaveInitial(a)
    BY <2>2 DEF SaveInitial
  <2>3. CASE ExchangeFails(a)
    BY <2>3 DEF ExchangeFails
  <2> QED
    BY <1>2, <2>1, <2>2, <2>3 DEF ExchangeCode
<1>3. ASSUME NEW c \in Callers, ZohoIssues(c)
      PROVE  TypeOK'
  BY <1>3 DEF ZohoIssues
<1>4. CASE TokenExpires
  BY <1>4 DEF TokenExpires, Fresh
<1>5. CASE Crash
  BY <1>5 DEF Crash
<1>6. CASE Terminated \/ UNCHANGED vars
  BY <1>6 DEF Terminated, vars
<1> QED
  BY <1>1, <1>2, <1>3, <1>4, <1>5, <1>6 DEF Next

\* The state keeps its shape: a stored token always has the refresh token of a
\* consent, though Zoho's answer to a refresh brings none.
THEOREM TypeCorrect == Spec => []TypeOK
BY TypeInit, TypeNext, PTL DEF Spec

-----------------------------------------------------------------------------
(* The mutex *)

LEMMA MutexNext == TypeOK /\ MutexOwner /\ [Next]_vars => MutexOwner'
<1> SUFFICES ASSUME TypeOK, MutexOwner, [Next]_vars
             PROVE  MutexOwner'
  OBVIOUS
<1> USE DEF TypeOK, MutexOwner, Goto
<1>1. ASSUME NEW u \in Users, ValidToken(u)
      PROVE  MutexOwner'
  <2>1. CASE Peek(u)
    BY <2>1 DEF Peek
  <2>2. CASE Lock(u)
    BY <2>2 DEF Lock
  <2>3. CASE RecheckFresh(u)
    BY <2>3 DEF RecheckFresh
  <2>4. CASE RecheckMissing(u)
    BY <2>4 DEF RecheckMissing
  <2>5. CASE RecheckExpired(u)
    BY <2>5 DEF RecheckExpired
  <2>6. CASE RefreshFails(u)
    BY <2>6 DEF RefreshFails
  <2>7. CASE Save(u) \/ SaveFails(u)
    BY <2>7 DEF Save, SaveFails
  <2>8. CASE LoadFails(u)
    BY <2>8 DEF LoadFails
  <2> QED
    BY <1>1, <2>1, <2>2, <2>3, <2>4, <2>5, <2>6, <2>7, <2>8 DEF ValidToken
<1>2. ASSUME NEW a \in Admins, ExchangeCode(a)
      PROVE  MutexOwner'
  BY <1>2 DEF ExchangeCode, Exchange, SaveInitial, ExchangeFails
<1>3. ASSUME NEW c \in Callers, ZohoIssues(c)
      PROVE  MutexOwner'
  BY <1>3 DEF ZohoIssues
<1>4. CASE Crash
  BY <1>4 DEF Crash
<1>5. CASE UNCHANGED <<mu, pc>>
  BY <1>5
<1> QED
  BY <1>1, <1>2, <1>3, <1>4, <1>5 DEF Next, TokenExpires, Terminated, vars

\* One refresh at a time, and the lock is free again after every way out.
THEOREM MutexCorrect == Spec => []MutexOwner
<1>1. Init => MutexOwner
  BY DEF Init, MutexOwner
<1> QED
  BY <1>1, MutexNext, TypeCorrect, PTL DEF Spec

-----------------------------------------------------------------------------
(* No needless refresh *)

LEMMA NeedNext ==
  TypeOK /\ MutexOwner /\ NoNeedlessRefresh /\ [Next]_vars => NoNeedlessRefresh'
<1> SUFFICES ASSUME TypeOK, MutexOwner, NoNeedlessRefresh, [Next]_vars,
                    NEW v \in Users, pc'[v] \in {"refreshing", "saving"}
             PROVE  ~Fresh' \/ overtaken'[v]
  BY DEF NoNeedlessRefresh
<1> USE DEF TypeOK, Goto
<1>1. ASSUME NEW u \in Users, ValidToken(u)
      PROVE  ~Fresh' \/ overtaken'[v]
  <2>1. CASE RecheckExpired(u)
    BY <2>1 DEF RecheckExpired, NoNeedlessRefresh, Fresh
  <2>2. CASE Save(u)
    <3>1. pc[u] = "saving" /\ u # v /\ pc[v] = pc'[v]
      BY <2>2 DEF Save
    <3> QED
      BY <3>1 DEF MutexOwner
  <2>3. CASE \/ Peek(u) \/ Lock(u) \/ RecheckFresh(u) \/ RecheckMissing(u)
             \/ LoadFails(u) \/ RefreshFails(u) \/ SaveFails(u)
    <3>1. UNCHANGED <<stored, expired, overtaken>> /\ pc[v] = pc'[v]
      BY <2>3 DEF Peek, Lock, RecheckFresh, RecheckMissing, LoadFails,
                  RefreshFails, SaveFails
    <3> QED
      BY <3>1 DEF NoNeedlessRefresh, Fresh
  <2> QED
    BY <1>1, <2>1, <2>2, <2>3 DEF ValidToken
<1>2. ASSUME NEW a \in Admins, ExchangeCode(a)
      PROVE  ~Fresh' \/ overtaken'[v]
  <2>1. CASE SaveInitial(a)
    BY <2>1 DEF SaveInitial
  <2>2. CASE Exchange(a) \/ ExchangeFails(a)
    <3>1. UNCHANGED <<stored, expired, overtaken>> /\ pc[v] = pc'[v]
      BY <2>2 DEF Exchange, ExchangeFails
    <3> QED
      BY <3>1 DEF NoNeedlessRefresh, Fresh
  <2> QED
    BY <1>2, <2>1, <2>2 DEF ExchangeCode
<1>3. ASSUME NEW c \in Callers, ZohoIssues(c)
      PROVE  ~Fresh' \/ overtaken'[v]
  <2>1. /\ UNCHANGED <<stored, expired, overtaken>>
        /\ pc[v] \in {"refreshing", "saving"}
    BY <1>3 DEF ZohoIssues
  <2> QED
    BY <2>1 DEF NoNeedlessRefresh, Fresh
<1>4. CASE Crash
  BY <1>4 DEF Crash
<1>5. CASE TokenExpires
  BY <1>5 DEF TokenExpires, Fresh
<1>6. CASE Terminated \/ UNCHANGED vars
  BY <1>6 DEF Terminated, vars, NoNeedlessRefresh, Fresh
<1> QED
  BY <1>1, <1>2, <1>3, <1>4, <1>5, <1>6 DEF Next

\* Callers that saw the token expire together ask Zoho for one new one.
THEOREM NeedCorrect == Spec => []NoNeedlessRefresh
<1>1. Init => NoNeedlessRefresh
  BY DEF Init, NoNeedlessRefresh
<1> QED
  BY <1>1, NeedNext, MutexCorrect, TypeCorrect, PTL DEF Spec

-----------------------------------------------------------------------------
(* Persistence *)

\* The stored token has been stored, and so have those returned.
Persisted ==
  /\ stored # NONE => stored.access \in saved
  /\ PersistedBeforeUse

LEMMA PersistedNext == TypeOK /\ Persisted /\ [Next]_vars => Persisted'
<1> SUFFICES ASSUME TypeOK, Persisted, [Next]_vars
             PROVE  Persisted'
  OBVIOUS
<1> USE DEF TypeOK, Goto, Persisted, PersistedBeforeUse
<1>1. ASSUME NEW u \in Users, ValidToken(u)
      PROVE  Persisted'
  <2>1. CASE Peek(u)
    BY <2>1 DEF Peek, Fresh
  <2>2. CASE RecheckFresh(u)
    BY <2>2 DEF RecheckFresh, Fresh
  <2>3. CASE Save(u)
    BY <2>3 DEF Save
  <2>4. CASE \/ Lock(u) \/ RecheckMissing(u) \/ RecheckExpired(u)
             \/ LoadFails(u) \/ RefreshFails(u) \/ SaveFails(u)
    BY <2>4 DEF Lock, RecheckMissing, RecheckExpired, LoadFails, RefreshFails,
                SaveFails
  <2> QED
    BY <1>1, <2>1, <2>2, <2>3, <2>4 DEF ValidToken
<1>2. ASSUME NEW a \in Admins, ExchangeCode(a)
      PROVE  Persisted'
  BY <1>2 DEF ExchangeCode, Exchange, SaveInitial, ExchangeFails
<1>3. ASSUME NEW c \in Callers, ZohoIssues(c)
      PROVE  Persisted'
  BY <1>3 DEF ZohoIssues
<1>4. CASE Crash
  BY <1>4 DEF Crash
<1>5. CASE TokenExpires \/ Terminated \/ UNCHANGED vars
  BY <1>5 DEF TokenExpires, Terminated, vars
<1> QED
  BY <1>1, <1>2, <1>3, <1>4, <1>5 DEF Next

\* No caller has a token that is not in the store, or was.
THEOREM PersistedCorrect == Spec => []PersistedBeforeUse
<1>1. Init => Persisted
  BY DEF Init, Persisted, PersistedBeforeUse
<1>2. Persisted => PersistedBeforeUse
  BY DEF Persisted
<1> QED
  BY <1>1, <1>2, PersistedNext, TypeCorrect, PTL DEF Spec

-----------------------------------------------------------------------------
(* The store moves on *)

\* What a refresh is about to save continues what is stored: while no exchange
\* overtakes it, the stored token is the one its refresh token came with, and
\* the answer to it is newer than that.
Continues(u) ==
  pc[u] \in {"refreshing", "saving"} /\ ~overtaken[u] =>
    /\ stored # NONE
    /\ stored.refresh = loaded[u]
    /\ pc[u] = "saving" => stored.access < got[u]

\* No token is newer than the last one Zoho issued.
Issued ==
  /\ stored # NONE => stored.access <= issued
  /\ \A c \in Callers : got[c] <= issued

StoreInv == Issued /\ \A u \in Users : Continues(u)

LEMMA IssuedNext == TypeOK /\ Issued /\ [Next]_vars => Issued'
<1> SUFFICES ASSUME TypeOK, Issued, [Next]_vars
             PROVE  Issued'
  OBVIOUS
<1> USE DEF TypeOK, Issued, Goto
<1>1. ASSUME NEW u \in Users, ValidToken(u)
      PROVE  Issued'
  <2>1. CASE Peek(u)
    BY <2>1 DEF Peek, Fresh
  <2>2. CASE RecheckFresh(u)
    BY <2>2 DEF RecheckFresh, Fresh
  <2>3. CASE Save(u)
    BY <2>3 DEF Save
  <2>4. CASE \/ Lock(u) \/ RecheckMissing(u) \/ RecheckExpired(u)
             \/ LoadFails(u) \/ RefreshFails(u) \/ SaveFails(u)
    BY <2>4 DEF Lock, RecheckMissing, RecheckExpired, LoadFails, RefreshFails,
                SaveFails
  <2> QED
    BY <1>1, <2>1, <2>2, <2>3, <2>4 DEF ValidToken
<1>2. ASSUME NEW a \in Admins, ExchangeCode(a)
      PROVE  Issued'
  BY <1>2 DEF ExchangeCode, Exchange, SaveInitial, ExchangeFails
<1>3. ASSUME NEW c \in Callers, ZohoIssues(c)
      PROVE  Issued'
  BY <1>3 DEF ZohoIssues
<1>4. CASE UNCHANGED <<stored, issued, got>>
  BY <1>4
<1> QED
  BY <1>1, <1>2, <1>3, <1>4 DEF Next, Crash, TokenExpires, Terminated, vars

LEMMA ContinuesNext ==
  ASSUME TypeOK, MutexOwner, StoreInv, [Next]_vars, NEW v \in Users
  PROVE  Continues(v)'
<1> USE DEF TypeOK, StoreInv, Goto
<1>1. ASSUME NEW u \in Users, ValidToken(u)
      PROVE  Continues(v)'
  <2>1. CASE RecheckExpired(u)
    BY <2>1 DEF RecheckExpired, Continues
  <2>2. CASE Save(u)
    <3>1. pc[u] = "saving" /\ u # v => pc[v] \notin Locked
      BY DEF MutexOwner
    <3>2. pc[u] = "saving" /\ pc'[u] = "done" /\ (u # v => pc'[v] = pc[v])
      BY <2>2 DEF Save
    <3> QED
      BY <3>1, <3>2 DEF Continues
  <2>3. CASE \/ Lock(u) \/ RecheckMissing(u) \/ LoadFails(u) \/ RefreshFails(u)
             \/ SaveFails(u)
    BY <2>3 DEF Lock, RecheckMissing, LoadFails, RefreshFails, SaveFails,
                Continues
  <2>4. CASE Peek(u) \/ RecheckFresh(u)
    <3>1. /\ UNCHANGED <<stored, loaded, overtaken>>
          /\ pc'[u] \notin {"refreshing", "saving"}
          /\ u # v => pc'[v] = pc[v] /\ got'[v] = got[v]
      BY <2>4 DEF Peek, RecheckFresh
    <3> QED
      BY <3>1 DEF Continues
  <2> QED
    BY <1>1, <2>1, <2>2, <2>3, <2>4 DEF ValidToken
<1>2. ASSUME NEW a \in Admins, ExchangeCode(a)
      PROVE  Continues(v)'
  BY <1>2 DEF ExchangeCode, Exchange, SaveInitial, ExchangeFails, Continues
<1>3. ASSUME NEW c \in Callers, ZohoIssues(c)
      PROVE  Continues(v)'
  <2>1. CASE c = v
    BY <1>3, <2>1 DEF ZohoIssues, Continues, Issued
  <2>2. CASE c # v
    BY <1>3, <2>2 DEF ZohoIssues, Continues
  <2> QED
    BY <2>1, <2>2
<1>4. CASE Crash
  BY <1>4 DEF Crash, Continues
<1>5. CASE UNCHANGED <<stored, loaded, got, pc, overtaken>>
  BY <1>5 DEF Continues
<1> QED
  BY <1>1, <1>2, <1>3, <1>4, <1>5 DEF Next, TokenExpires, Terminated, vars

LEMMA StoreAlways == Spec => []StoreInv
<1>1. Init => StoreInv
  BY DEF Init, StoreInv, Issued, Continues
<1>2. TypeOK /\ MutexOwner /\ StoreInv /\ [Next]_vars => StoreInv'
  BY IssuedNext, ContinuesNext DEF StoreInv
<1> QED
  BY <1>1, <1>2, MutexCorrect, TypeCorrect, PTL DEF Spec

\* For any number of callers and consents the store takes another consent only
\* from the OAuth callback or from a refresh that the callback overtook, and
\* otherwise only newer tokens: while no exchange is saved, no two refreshes
\* undo each other.
THEOREM MovesOn == Spec => StoreMovesOn
<1> DEFINE Moves ==
      stored' # stored =>
        \/ \E a \in Admins : pc[a] = "saving" /\ stored'.refresh = a
        \/ \E u \in Users : pc[u] = "saving" /\ pc'[u] = "done" /\ overtaken[u]
        \/ /\ stored # NONE
           /\ stored'.refresh = stored.refresh
           /\ stored'.access > stored.access
<1>1. ASSUME TypeOK, StoreInv, Next
      PROVE  Moves
  <2>1. ASSUME NEW u \in Users, Save(u)
        PROVE  Moves
    BY <1>1, <2>1 DEF Save, Goto, StoreInv, Continues, TypeOK
  <2>2. ASSUME NEW a \in Admins, SaveInitial(a)
        PROVE  Moves
    BY <2>2 DEF SaveInitial
  <2>3. CASE UNCHANGED stored
    BY <2>3
  <2> QED
    BY <1>1, <2>1, <2>2, <2>3
    DEF Next, ValidToken, Peek, Lock, RecheckFresh, RecheckMissing,
        RecheckExpired, LoadFails, RefreshFails, SaveFails, ExchangeCode,
        Exchange, ExchangeFails, ZohoIssues, TokenExpires, Crash, Terminated, vars
<1>2. TypeOK /\ StoreInv /\ [Next]_vars => [Moves]_vars
  BY <1>1
<1> QED
  BY <1>2, StoreAlways, TypeCorrect, PTL DEF Spec, StoreMovesOn
=============================================================================
