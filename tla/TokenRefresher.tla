--------------------------- MODULE TokenRefresher ---------------------------
(***************************************************************************)
(* The Zoho OAuth token of the bridge: ValidToken and ExchangeCode of      *)
(* internal/zoho/token.go over the store of internal/store/token.go.       *)
(*                                                                         *)
(* Workers that need a token for a download call ValidToken, the OAuth     *)
(* callback calls ExchangeCode; each caller here makes one call.  An       *)
(* access token is a number in the order Zoho issues them, a refresh token *)
(* is named by the consent it came from.  The store is a BoltDB file: one  *)
(* transaction is one step, and it survives a crash of the process.        *)
(***************************************************************************)
EXTENDS Naturals

CONSTANTS Users,   \* calls of ValidToken
          Admins,  \* calls of ExchangeCode, each with a consent of its own
          First,   \* the consent of an earlier run of the bridge
          NONE

ASSUME TokenAssumption ==
  /\ Users \cap Admins = {}
  /\ First \notin Admins
  /\ NONE \notin Users

VARIABLES stored,    \* the token under TokenKey, or NONE
          expired,   \* access tokens for which IsExpired is true
          issued,    \* number of the last access token Zoho issued (external)
          mu,        \* the user in Refresher.mu, or NONE
          pc,        \* where a call is, or how it ended
          loaded,    \* refresh token a user sends
          got,       \* access token a call got from Zoho, or returned
          overtaken, \* history: an exchange was saved since the user's re-check
          saved      \* history: access tokens ever stored

vars == <<stored, expired, issued, mu, pc, loaded, got, overtaken, saved>>

Callers == Users \cup Admins
Consents == Admins \cup {First}
Ended == {"done", "failed", "lost"}
Locked == {"locked", "refreshing", "saving"}

TypeOK ==
  /\ stored \in {NONE} \cup [refresh : Consents, access : Nat]
  /\ expired \subseteq Nat
  /\ issued \in Nat
  /\ mu \in Users \cup {NONE}
  /\ pc \in [Callers -> {"idle", "waiting"} \cup Locked \cup Ended]
  /\ loaded \in [Users -> Consents]
  /\ got \in [Callers -> Nat]
  /\ overtaken \in [Users -> BOOLEAN]
  /\ saved \subseteq Nat

\* A first start, or one with the token an earlier run has left.
Init ==
  /\ stored \in {NONE, [refresh |-> First, access |-> 0]}
  /\ expired = {}
  /\ issued = 0
  /\ mu = NONE
  /\ pc = [c \in Callers |-> "idle"]
  /\ loaded = [u \in Users |-> First]
  /\ got = [c \in Callers |-> 0]
  /\ overtaken = [u \in Users |-> FALSE]
  /\ saved = {0}

Fresh == stored # NONE /\ stored.access \notin expired

Goto(c, where) == pc' = [pc EXCEPT ![c] = where]

-----------------------------------------------------------------------------
(* Faulty variants, each a slip this code could have.  No specification     *)
(* uses them: they show which property tells each one from the real step.  *)

\* A caller that waited for the lock refreshes without a second look.
NoRecheck(u) ==
  /\ pc[u] = "locked"
  /\ stored # NONE
  /\ loaded' = [loaded EXCEPT ![u] = stored.refresh]
  /\ overtaken' = [overtaken EXCEPT ![u] = FALSE]
  /\ Goto(u, "refreshing")
  /\ UNCHANGED <<stored, expired, issued, mu, got, saved>>

\* The second look is only at the expiry: the refresh token sent is the one of
\* an earlier read.
RecheckStale(u) ==
  /\ pc[u] = "locked"
  /\ stored # NONE /\ ~Fresh
  /\ overtaken' = [overtaken EXCEPT ![u] = FALSE]
  /\ Goto(u, "refreshing")
  /\ UNCHANGED <<stored, expired, issued, mu, loaded, got, saved>>

\* A failed refresh returns without unlocking.
FailLocked(u) ==
  /\ pc[u] = "refreshing"
  /\ Goto(u, "failed")
  /\ UNCHANGED <<stored, expired, issued, mu, loaded, got, overtaken, saved>>

\* The new token is stored with the refresh token of Zoho's answer, which has
\* none.
SaveAnswer(u) ==
  /\ pc[u] = "saving"
  /\ stored' = [refresh |-> NONE, access |-> got[u]]
  /\ saved' = saved \cup {got[u]}
  /\ Goto(u, "done")
  /\ mu' = NONE
  /\ UNCHANGED <<expired, issued, loaded, got, overtaken>>

\* A failed Save is logged, and the token returned all the same.
SaveFailsQuietly(u) ==
  /\ pc[u] = "saving"
  /\ Goto(u, "done")
  /\ mu' = NONE
  /\ UNCHANGED <<stored, expired, issued, loaded, got, overtaken, saved>>

-----------------------------------------------------------------------------
(* ValidToken *)

\* The optimistic read.
Peek(u) ==
  /\ pc[u] = "idle"
  /\ \/ Fresh /\ Goto(u, "done") /\ got' = [got EXCEPT ![u] = stored.access]
     \/ ~Fresh /\ Goto(u, "waiting") /\ UNCHANGED got
  /\ UNCHANGED <<stored, expired, issued, mu, loaded, overtaken, saved>>

Lock(u) ==
  /\ pc[u] = "waiting"
  /\ mu = NONE
  /\ mu' = u
  /\ Goto(u, "locked")
  /\ UNCHANGED <<stored, expired, issued, loaded, got, overtaken, saved>>

\* The re-check finds a token that another caller has refreshed, ...
RecheckFresh(u) ==
  /\ pc[u] = "locked"
  /\ Fresh
  /\ got' = [got EXCEPT ![u] = stored.access]
  /\ Goto(u, "done")
  /\ mu' = NONE
  /\ UNCHANGED <<stored, expired, issued, loaded, overtaken, saved>>

\* ... no token at all: refresh fails for want of a refresh token, ...
RecheckMissing(u) ==
  /\ pc[u] = "locked"
  /\ stored = NONE
  /\ Goto(u, "failed")
  /\ mu' = NONE
  /\ UNCHANGED <<stored, expired, issued, loaded, got, overtaken, saved>>

\* ... or an expired one, whose refresh token is sent to Zoho.
RecheckExpired(u) ==
  /\ pc[u] = "locked"
  /\ stored # NONE /\ ~Fresh
  /\ loaded' = [loaded EXCEPT ![u] = stored.refresh]
  /\ overtaken' = [overtaken EXCEPT ![u] = FALSE]
  /\ Goto(u, "refreshing")
  /\ UNCHANGED <<stored, expired, issued, mu, got, saved>>

\* store.Load has an error other than ErrTokenNotFound: the optimistic read goes
\* on to the lock, and the re-check has no refresh token to send.
LoadFails(u) ==
  /\ \/ pc[u] = "idle" /\ Goto(u, "waiting") /\ UNCHANGED mu
     \/ pc[u] = "locked" /\ Goto(u, "failed") /\ mu' = NONE
  /\ UNCHANGED <<stored, expired, issued, loaded, got, overtaken, saved>>

\* No answer in time, a bad status, an error in the body, no access token.
RefreshFails(u) ==
  /\ pc[u] = "refreshing"
  /\ Goto(u, "failed")
  /\ mu' = NONE
  /\ UNCHANGED <<stored, expired, issued, loaded, got, overtaken, saved>>

\* The new access token is stored with the refresh token that was sent.
Save(u) ==
  /\ pc[u] = "saving"
  /\ stored' = [refresh |-> loaded[u], access |-> got[u]]
  /\ saved' = saved \cup {got[u]}
  /\ Goto(u, "done")
  /\ mu' = NONE
  /\ UNCHANGED <<expired, issued, loaded, got, overtaken>>

SaveFails(u) ==
  /\ pc[u] = "saving"
  /\ Goto(u, "failed")
  /\ mu' = NONE
  /\ UNCHANGED <<stored, expired, issued, loaded, got, overtaken, saved>>

-----------------------------------------------------------------------------
(* ExchangeCode: it never takes the lock. *)

\* HandleCallback: the code of the callback is exchanged; a callback without one
\* is refused.
Exchange(a) ==
  /\ pc[a] = "idle"
  /\ \E where \in {"refreshing", "failed"} : Goto(a, where)
  /\ UNCHANGED <<stored, expired, issued, mu, loaded, got, overtaken, saved>>

\* SaveInitialToken.
SaveInitial(a) ==
  /\ pc[a] = "saving"
  /\ stored' = [refresh |-> a, access |-> got[a]]
  /\ saved' = saved \cup {got[a]}
  /\ overtaken' = [u \in Users |-> TRUE]
  /\ Goto(a, "done")
  /\ UNCHANGED <<expired, issued, mu, loaded, got>>

ExchangeFails(a) ==
  /\ pc[a] \in {"refreshing", "saving"}
  /\ Goto(a, "failed")
  /\ UNCHANGED <<stored, expired, issued, mu, loaded, got, overtaken, saved>>

-----------------------------------------------------------------------------
(* The environment *)

\* Zoho answers a refresh or an exchange with a new access token.
ZohoIssues(c) ==
  /\ pc[c] = "refreshing"
  /\ issued' = issued + 1
  /\ got' = [got EXCEPT ![c] = issued + 1]
  /\ Goto(c, "saving")
  /\ UNCHANGED <<stored, expired, mu, loaded, overtaken, saved>>

\* Time passes: the stored token is within 30 seconds of its end.
TokenExpires ==
  /\ Fresh
  /\ expired' = expired \cup {stored.access}
  /\ UNCHANGED <<stored, issued, mu, pc, loaded, got, overtaken, saved>>

\* The process dies and starts again: calls under way are gone, and so is the
\* lock; the store is what the last transaction left.
Crash ==
  /\ \E c \in Callers : pc[c] \in {"waiting"} \cup Locked
  /\ pc' = [c \in Callers |-> IF pc[c] \in {"waiting"} \cup Locked THEN "lost"
                              ELSE pc[c]]
  /\ mu' = NONE
  /\ UNCHANGED <<stored, expired, issued, loaded, got, overtaken, saved>>

-----------------------------------------------------------------------------

ValidToken(u) ==
  \/ Peek(u) \/ Lock(u) \/ RecheckFresh(u) \/ RecheckMissing(u)
  \/ RecheckExpired(u) \/ LoadFails(u) \/ RefreshFails(u) \/ Save(u)
  \/ SaveFails(u)

ExchangeCode(a) == Exchange(a) \/ SaveInitial(a) \/ ExchangeFails(a)

Terminated == (\A c \in Callers : pc[c] \in Ended) /\ UNCHANGED vars

Next ==
  \/ \E u \in Users : ValidToken(u)
  \/ \E a \in Admins : ExchangeCode(a)
  \/ \E c \in Callers : ZohoIssues(c)
  \/ TokenExpires
  \/ Crash
  \/ Terminated

Spec == Init /\ [][Next]_vars

\* The calls to Zoho have a timeout, store transactions end, and a free mutex
\* goes to a waiting goroutine.  That ValidToken is called is not assumed.
Fairness ==
  \A u \in Users :
    /\ SF_vars(Lock(u))
    /\ WF_vars(RecheckFresh(u) \/ RecheckMissing(u) \/ RecheckExpired(u))
    /\ WF_vars(RefreshFails(u))
    /\ WF_vars(Save(u) \/ SaveFails(u))

FairSpec == Spec /\ Fairness

-----------------------------------------------------------------------------
(* Properties *)

\* The mutex is held exactly by the one caller between Lock and its return, on
\* the error paths too: at most one refresh is under way.
MutexOwner == \A u \in Users : mu = u <=> pc[u] \in Locked

\* A burst of callers that saw the token expire asks Zoho once: while a refresh
\* is under way the stored token is the expired one, unless the OAuth callback
\* has replaced it meanwhile.
NoNeedlessRefresh ==
  \A u \in Users : pc[u] \in {"refreshing", "saving"} => ~Fresh \/ overtaken[u]

\* The store moves on: a worker's refresh puts a newer access token of the same
\* consent in the place of the old one.  Another consent gets there only by the
\* OAuth callback, or by a worker that the callback overtook between the
\* re-check and the Save.
StoreMovesOn ==
  [][stored' # stored =>
       \/ \E a \in Admins : pc[a] = "saving" /\ stored'.refresh = a
       \/ \E u \in Users : pc[u] = "saving" /\ pc'[u] = "done" /\ overtaken[u]
       \/ /\ stored # NONE
          /\ stored'.refresh = stored.refresh
          /\ stored'.access > stored.access]_vars

\* A token is handed to a caller only once it is in the store: none is in use
\* that a crash would make the bridge forget.
PersistedBeforeUse == \A u \in Users : pc[u] = "done" => got[u] \in saved

\* A call that went behind the lock returns, whatever Zoho does.
EveryCallReturns == \A u \in Users : pc[u] = "waiting" ~> pc[u] \in Ended

\* "It is safe for concurrent use" (the comment on Refresher) and "initial
\* token saved successfully" (the OAuth callback): once the callback has saved
\* the token of a new consent, the store does not go back to an older one.
NewConsentIsKept ==
  (\E a \in Admins : pc[a] = "done") => stored.refresh # First
=============================================================================
