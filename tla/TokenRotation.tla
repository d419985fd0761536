---------------------------- MODULE TokenRotation ----------------------------
(***************************************************************************)
(* AuthService.RefreshToken: a refresh token is checked, revoked and       *)
(* replaced by a new one, in three statements and a query, none of them in *)
(* a transaction.  Requests that present the same token may overlap, and   *)
(* any statement may fail.                                                 *)
(*                                                                         *)
(* Access tokens are not stored anywhere and are left out.                 *)
(***************************************************************************)
EXTENDS Naturals, FiniteSets

CONSTANTS
  Client,     \* the refresh requests that may be under way at once
  Token,      \* the ids (jti) of refresh tokens, never issued twice
  NoToken,    \* what a client without a request holds
  MaxLost     \* model bound: failed revocations, all of one token

ASSUME RotationAssumption ==
  /\ IsFiniteSet(Client) /\ Client # {}
  /\ NoToken \notin Token
  /\ MaxLost \in Nat

VARIABLES
  issued,     \* the rows of refresh_tokens
  revoked,    \* those with revoked = 1
  expired,    \* those whose expires_at has passed
  pc,         \* where each client's request is
  held,       \* the token it presents
  exchanged,  \* history: new pairs handed out for a token
  dropped,    \* history: exchanges that failed after the revocation
  lost        \* history: revocations of a token that failed, only logged

rowVars == <<issued, revoked, expired>>
requestVars == <<pc, held>>
historyVars == <<exchanged, dropped, lost>>
rotationVars == <<rowVars, requestVars, historyVars>>

\* The statement each request executes next.
PC == {"idle", "check", "revoke", "user", "save"}

TypeOK ==
  /\ issued \in SUBSET Token
  /\ revoked \in SUBSET issued /\ expired \in SUBSET issued
  /\ pc \in [Client -> PC]
  /\ held \in [Client -> issued \cup {NoToken}]
  /\ \A c \in Client : pc[c] = "idle" <=> held[c] = NoToken
  /\ exchanged \in [Token -> Nat] /\ dropped \in [Token -> Nat]
  /\ lost \in [Token -> Nat]

Init ==
  /\ issued = {} /\ revoked = {} /\ expired = {}
  /\ pc = [c \in Client |-> "idle"]
  /\ held = [c \in Client |-> NoToken]
  /\ exchanged = [t \in Token |-> 0]
  /\ dropped = [t \in Token |-> 0]
  /\ lost = [t \in Token |-> 0]

Goto(c, l) == pc' = [pc EXCEPT ![c] = l]

\* The request is answered.
Answer(c) == Goto(c, "idle") /\ held' = [held EXCEPT ![c] = NoToken]

Count(h, t) == h' = [h EXCEPT ![t] = @ + 1]

\* GenerateTokenPair stores a fresh id.
Issue(t) == t \notin issued /\ issued' = issued \cup {t}

\* A successful login starts a session.
Login ==
  /\ \E t \in Token : Issue(t)
  /\ UNCHANGED <<revoked, expired, requestVars, historyVars>>

\* The token's signature and type are in order; the claims name its id.
Present(c) ==
  /\ pc[c] = "idle"
  /\ \E t \in issued : held' = [held EXCEPT ![c] = t]
  /\ Goto(c, "check")
  /\ UNCHANGED <<rowVars, historyVars>>

IsRefreshTokenValid(t) == t \in issued \ (revoked \cup expired)

\* Defect: a revoked token passes.
CheckExpiryOnly(c) ==
  /\ pc[c] = "check"
  /\ \/ Answer(c)
     \/ held[c] \notin expired /\ Goto(c, "revoke") /\ UNCHANGED held
  /\ UNCHANGED <<rowVars, historyVars>>

\* An invalid token, or a query that failed, ends the request.
Check(c) ==
  /\ pc[c] = "check"
  /\ \/ Answer(c)
     \/ IsRefreshTokenValid(held[c]) /\ Goto(c, "revoke") /\ UNCHANGED held
  /\ UNCHANGED <<rowVars, historyVars>>

\* A failed revocation is logged, and the exchange goes on.
Revoke(c) ==
  /\ pc[c] = "revoke"
  /\ \/ revoked' = revoked \cup {held[c]} /\ UNCHANGED lost
     \/ /\ lost[held[c]] < MaxLost
        /\ \A t \in Token \ {held[c]} : lost[t] = 0
        /\ Count(lost, held[c]) /\ UNCHANGED revoked
  /\ Goto(c, "user")
  /\ UNCHANGED <<issued, expired, held, exchanged, dropped>>

\* Defect: a failure is forgotten.
LoadUserForgets(c) ==
  /\ pc[c] = "user"
  /\ \/ Goto(c, "save") /\ UNCHANGED held
     \/ Answer(c)
  /\ UNCHANGED <<rowVars, historyVars>>

\* The user is gone or disabled, or the query failed.
LoadUser(c) ==
  /\ pc[c] = "user"
  /\ \/ Goto(c, "save") /\ UNCHANGED <<held, dropped>>
     \/ Answer(c) /\ Count(dropped, held[c])
  /\ UNCHANGED <<rowVars, exchanged, lost>>

SaveNew(c) ==
  /\ pc[c] = "save"
  /\ \/ \E t \in Token : Issue(t) /\ Count(exchanged, held[c]) /\ UNCHANGED dropped
     \/ Count(dropped, held[c]) /\ UNCHANGED <<issued, exchanged>>
  /\ Answer(c)
  /\ UNCHANGED <<revoked, expired, lost>>

RefreshStep(c) ==
  \/ Present(c) \/ Check(c) \/ Revoke(c) \/ LoadUser(c) \/ SaveNew(c)

\* The clock passes expires_at.
Expire(t) ==
  /\ t \in issued \ expired
  /\ expired' = expired \cup {t}
  /\ UNCHANGED <<issued, revoked, requestVars, historyVars>>

Next ==
  \/ Login
  \/ \E c \in Client : RefreshStep(c)
  \/ \E t \in Token : Expire(t)

Spec == Init /\ [][Next]_rotationVars

(***************************************************************************)
(* Properties.                                                             *)
(***************************************************************************)
(* What RefreshToken keeps of one-time use: a token is exchanged at most   *)
(* once per request that overlaps the first, and once more per revocation  *)
(* that failed.  Only with requests one at a time and no failure is it     *)
(* good for one use; OneTimeUse, below, does not hold.                     *)
ExchangesBounded ==
  \A t \in Token : exchanged[t] <= Cardinality(Client) + lost[t]

(* auth.go:172, "(one-time use)", and implementation_plan.md:169: a token  *)
(* is exchanged for a new pair at most once.  The code does not keep it:   *)
(* two requests may both pass IsRefreshTokenValid before either revokes.   *)
OneTimeUse == \A t \in Token : exchanged[t] <= 1

(* A session is not lost in silence: a token that was revoked, and that no *)
(* request is exchanging any more, was replaced, unless its exchange       *)
(* failed.                                                                 *)
RevokedIsReplaced ==
  \A t \in revoked :
    (\A c \in Client : held[c] # t) =>
      exchanged[t] + dropped[t] > 0

(***************************************************************************)
(* The inductive invariant.                                                *)
(***************************************************************************)
\* The requests before and after the revocation of a token.
Revoking(t) == {c \in Client : pc[c] = "revoke" /\ held[c] = t}
Exchanging(t) == {c \in Client : pc[c] \in {"user", "save"} /\ held[c] = t}

\* The requests that got past the revocation of a token, so far.
Past(t) == exchanged[t] + dropped[t] + Cardinality(Exchanging(t))

\* Before a revocation succeeds only failed ones let a request through.
PastInv ==
  \A t \in Token :
    /\ t \notin revoked => Past(t) = lost[t]
    /\ t \in revoked =>
         /\ Past(t) > 0
         /\ Past(t) + Cardinality(Revoking(t)) <= Cardinality(Client) + lost[t]

RotationInv == TypeOK /\ PastInv
=============================================================================
