------------------------- MODULE TokenRotationProofs -------------------------
(***************************************************************************)
(* Proofs about TokenRotation, for any finite set of requests and any set  *)
(* of token ids.                                                           *)
(***************************************************************************)
EXTENDS TokenRotation, FiniteSetTheorems, TLAPS

LEMMA Sizes ==
  ASSUME NEW S \in SUBSET Client
  PROVE  /\ Cardinality(S) \in Nat /\ Cardinality(Client) \in Nat \ {0}
         /\ Cardinality(S) <= Cardinality(Client)
         /\ \A c \in Client \ S : /\ Cardinality(S) + 1 <= Cardinality(Client)
                                  /\ Cardinality(S \cup {c}) = Cardinality(S) + 1
         /\ \A c \in S : Cardinality(S \ {c}) = Cardinality(S) - 1
<1>1. IsFiniteSet(Client) /\ Client # {}
  BY RotationAssumption
<1>2. IsFiniteSet(S) /\ Cardinality(S) <= Cardinality(Client)
  BY <1>1, FS_Subset
<1>3. Cardinality(S) \in Nat /\ Cardinality(Client) \in Nat \ {0}
  BY <1>1, <1>2, FS_CardinalityType, FS_EmptySet
<1>4. ASSUME NEW c \in Client \ S
      PROVE  /\ Cardinality(S) + 1 <= Cardinality(Client)
             /\ Cardinality(S \cup {c}) = Cardinality(S) + 1
  <2>1. Cardinality(S \cup {c}) = Cardinality(S) + 1
    BY <1>2, FS_AddElement
  <2>2. Cardinality(S \cup {c}) <= Cardinality(Client)
    BY <1>1, FS_Subset
  <2> QED BY <2>1, <2>2
<1>5. ASSUME NEW c \in S PROVE Cardinality(S \ {c}) = Cardinality(S) - 1
  BY <1>2, FS_RemoveElement
<1> QED BY <1>2, <1>3, <1>4, <1>5

LEMMA InitInv == Init => RotationInv
<1> SUFFICES ASSUME Init PROVE RotationInv
  OBVIOUS
<1>1. TypeOK
  BY DEF Init, TypeOK, PC
<1>2. ASSUME NEW t \in Token PROVE t \notin revoked /\ Past(t) = lost[t]
  <2>1. Exchanging(t) = {}
    BY DEF Init, Exchanging
  <2>2. Cardinality(Exchanging(t)) = 0
    BY <2>1, FS_EmptySet
  <2> QED BY <2>2 DEF Init, Past
<1> QED BY <1>1, <1>2 DEF RotationInv, PastInv

(***************************************************************************)
(* Types.                                                                  *)
(***************************************************************************)
LEMMA CountType ==
  ASSUME NEW h \in [Token -> Nat], NEW t \in Token
  PROVE  [h EXCEPT ![t] = @ + 1] \in [Token -> Nat]
OBVIOUS

LEMMA AnswerType ==
  ASSUME TypeOK, NEW c \in Client, Answer(c), NEW I, issued \in SUBSET I
  PROVE  /\ pc' \in [Client -> PC]
         /\ held' \in [Client -> I \cup {NoToken}]
         /\ \A d \in Client : pc'[d] = "idle" <=> held'[d] = NoToken
BY DEF TypeOK, Answer, Goto, PC

\* A request under way holds a token.
LEMMA HeldIsToken ==
  ASSUME TypeOK, NEW c \in Client, pc[c] # "idle"
  PROVE  held[c] \in issued /\ held[c] \in Token
BY RotationAssumption DEF TypeOK

LEMMA TypeKeeps ==
  ASSUME TypeOK, NEW c \in Client, RefreshStep(c)
  PROVE  TypeOK'
<1> USE DEF TypeOK
<1>1. CASE Present(c)
  <2>1. NoToken \notin issued
    BY RotationAssumption
  <2> QED BY <1>1, <2>1 DEF Present, Goto, PC, rowVars, historyVars
<1>2. CASE Check(c)
  <2>1. UNCHANGED <<issued, revoked, expired, exchanged, dropped, lost>>
    BY <1>2 DEF Check, rowVars, historyVars
  <2>2. CASE Answer(c)
    BY <2>1, <2>2, AnswerType
  <2>3. CASE Goto(c, "revoke") /\ UNCHANGED held
    BY <1>2, <2>1, <2>3 DEF Check, Goto, PC
  <2> QED BY <1>2, <2>2, <2>3 DEF Check
<1>3. CASE Revoke(c)
  <2>1. held[c] \in issued /\ held[c] \in Token
    BY <1>3, HeldIsToken DEF Revoke
  <2>2. lost' \in [Token -> Nat]
    BY <1>3, <2>1, CountType DEF Revoke, Count
  <2>3. revoked' \in SUBSET issued
    BY <1>3, <2>1 DEF Revoke
  <2> QED BY <1>3, <2>2, <2>3 DEF Revoke, Goto, PC
<1>4. CASE LoadUser(c)
  <2>1. held[c] \in Token
    BY <1>4, HeldIsToken DEF LoadUser
  <2>2. dropped' \in [Token -> Nat]
    BY <1>4, <2>1, CountType DEF LoadUser, Count
  <2>3. UNCHANGED <<issued, revoked, expired, exchanged, lost>>
    BY <1>4 DEF LoadUser, rowVars
  <2>4. CASE Answer(c)
    BY <2>2, <2>3, <2>4, AnswerType
  <2>5. CASE Goto(c, "save") /\ UNCHANGED held
    BY <1>4, <2>2, <2>3, <2>5 DEF LoadUser, Goto, PC
  <2> QED BY <1>4, <2>4, <2>5 DEF LoadUser
<1>5. CASE SaveNew(c)
  <2>1. held[c] \in Token
    BY <1>5, HeldIsToken DEF SaveNew
  <2>2. dropped' \in [Token -> Nat] /\ exchanged' \in [Token -> Nat]
    BY <1>5, <2>1, CountType DEF SaveNew, Count
  <2>3. /\ UNCHANGED <<revoked, expired, lost>>
        /\ issued' \in SUBSET Token /\ issued \in SUBSET issued' /\ Answer(c)
    BY <1>5 DEF SaveNew, Issue
  <2>4. revoked' \in SUBSET issued' /\ expired' \in SUBSET issued'
    BY <2>3
  <2> QED BY <2>2, <2>3, <2>4, AnswerType
<1> QED BY <1>1, <1>2, <1>3, <1>4, <1>5 DEF RefreshStep

(***************************************************************************)
(* The count of the requests past the revocation.                          *)
(***************************************************************************)
\* A step of c, seen from the token t: c alone enters or leaves its two sets.
LEMMA SetsStep ==
  ASSUME TypeOK, NEW c \in Client, NEW t \in Token,
         \A d \in Client : d # c => pc'[d] = pc[d] /\ held'[d] = held[d]
  PROVE  /\ Exchanging(t) \in SUBSET Client /\ Revoking(t) \in SUBSET Client
         /\ Exchanging(t)' \in SUBSET Client /\ Revoking(t)' \in SUBSET Client
         /\ c \in Exchanging(t)' => Exchanging(t)' = Exchanging(t) \cup {c}
         /\ c \notin Exchanging(t)' => Exchanging(t)' = Exchanging(t) \ {c}
         /\ c \in Revoking(t)' => Revoking(t)' = Revoking(t) \cup {c}
         /\ c \notin Revoking(t)' => Revoking(t)' = Revoking(t) \ {c}
BY DEF Exchanging, Revoking

LEMMA OthersUntouched ==
  ASSUME TypeOK, NEW c \in Client, RefreshStep(c)
  PROVE  \A d \in Client : d # c => pc'[d] = pc[d] /\ held'[d] = held[d]
BY DEF TypeOK, RefreshStep, Present, Check, Revoke, LoadUser, SaveNew, Answer, Goto

\* How the size of a set follows from who enters and who leaves.
LEMMA SizeStep ==
  ASSUME NEW S \in SUBSET Client, NEW T, NEW c \in Client,
         c \in T => T = S \cup {c}, c \notin T => T = S \ {c}
  PROVE  /\ c \in T /\ c \in S => Cardinality(T) = Cardinality(S)
         /\ c \in T /\ c \notin S => Cardinality(T) = Cardinality(S) + 1
         /\ c \notin T /\ c \in S => Cardinality(T) = Cardinality(S) - 1
         /\ c \notin T /\ c \notin S => Cardinality(T) = Cardinality(S)
<1>1. c \in S => S \cup {c} = S
  OBVIOUS
<1>2. c \notin S => S \ {c} = S
  OBVIOUS
<1> QED BY <1>1, <1>2, Sizes

LEMMA PastKeeps ==
  ASSUME RotationInv, NEW c \in Client, RefreshStep(c), NEW t \in Token
  PROVE  /\ t \notin revoked' => Past(t)' = lost'[t]
         /\ t \in revoked' =>
              /\ Past(t)' > 0
              /\ Past(t)' + Cardinality(Revoking(t)') <= Cardinality(Client) + lost'[t]
<1> DEFINE C == Cardinality(Client)
           E == Cardinality(Exchanging(t))
           R == Cardinality(Revoking(t))
           En == Cardinality(Exchanging(t)')
           Rn == Cardinality(Revoking(t)')
<1>0. TypeOK /\ TypeOK' /\ PastInv
  BY TypeKeeps DEF RotationInv
<1>1. /\ exchanged \in [Token -> Nat] /\ dropped \in [Token -> Nat] /\ lost \in [Token -> Nat]
      /\ exchanged[t] \in Nat /\ dropped[t] \in Nat /\ lost[t] \in Nat
      /\ pc \in [Client -> PC] /\ held \in [Client -> issued \cup {NoToken}]
      /\ t # NoToken
  BY <1>0, RotationAssumption DEF TypeOK
<1>2. /\ t \notin revoked => exchanged[t] + dropped[t] + E = lost[t]
      /\ t \in revoked => /\ exchanged[t] + dropped[t] + E > 0
                          /\ exchanged[t] + dropped[t] + E + R <= C + lost[t]
  BY <1>0 DEF PastInv, Past
<1>3. /\ Exchanging(t) \in SUBSET Client /\ Revoking(t) \in SUBSET Client
      /\ Exchanging(t)' \in SUBSET Client /\ Revoking(t)' \in SUBSET Client
      /\ c \in Exchanging(t)' => Exchanging(t)' = Exchanging(t) \cup {c}
      /\ c \notin Exchanging(t)' => Exchanging(t)' = Exchanging(t) \ {c}
      /\ c \in Revoking(t)' => Revoking(t)' = Revoking(t) \cup {c}
      /\ c \notin Revoking(t)' => Revoking(t)' = Revoking(t) \ {c}
  BY <1>0, SetsStep, OthersUntouched
<1>4. /\ c \in Exchanging(t)' /\ c \in Exchanging(t) => En = E
      /\ c \in Exchanging(t)' /\ c \notin Exchanging(t) => En = E + 1
      /\ c \notin Exchanging(t)' /\ c \in Exchanging(t) => En = E - 1
      /\ c \notin Exchanging(t)' /\ c \notin Exchanging(t) => En = E
  BY <1>3, SizeStep
<1>5. /\ c \in Revoking(t)' /\ c \in Revoking(t) => Rn = R
      /\ c \in Revoking(t)' /\ c \notin Revoking(t) => Rn = R + 1
      /\ c \notin Revoking(t)' /\ c \in Revoking(t) => Rn = R - 1
      /\ c \notin Revoking(t)' /\ c \notin Revoking(t) => Rn = R
      /\ c \notin Revoking(t)' => Rn + 1 <= C
  BY <1>3, SizeStep, Sizes
<1>6. C \in Nat \ {0} /\ E \in Nat /\ R \in Nat /\ En \in Nat /\ Rn \in Nat
  BY <1>3, Sizes
<1>7. /\ c \in Exchanging(t) <=> pc[c] \in {"user", "save"} /\ held[c] = t
      /\ c \in Exchanging(t)' <=> pc'[c] \in {"user", "save"} /\ held'[c] = t
      /\ c \in Revoking(t) <=> pc[c] = "revoke" /\ held[c] = t
      /\ c \in Revoking(t)' <=> pc'[c] = "revoke" /\ held'[c] = t
  BY DEF Exchanging, Revoking
<1> SUFFICES
      /\ t \notin revoked' => exchanged'[t] + dropped'[t] + En = lost'[t]
      /\ t \in revoked' => /\ exchanged'[t] + dropped'[t] + En > 0
                           /\ exchanged'[t] + dropped'[t] + En + Rn <= C + lost'[t]
  BY DEF Past
<1> HIDE DEF C, E, R, En, Rn
<1>a. CASE Present(c)
  <2>1. /\ UNCHANGED <<revoked, exchanged, dropped, lost>>
        /\ c \notin Exchanging(t) /\ c \notin Revoking(t)
        /\ c \notin Exchanging(t)' /\ c \notin Revoking(t)'
    BY <1>1, <1>7, <1>a DEF Present, Goto, rowVars, historyVars
  <2> QED BY <1>2, <1>4, <1>5, <2>1
<1>b. CASE Check(c)
  <2>1. /\ UNCHANGED <<revoked, exchanged, dropped, lost>>
        /\ c \notin Exchanging(t) /\ c \notin Revoking(t) /\ c \notin Exchanging(t)'
        /\ c \in Revoking(t)' => t \notin revoked
    BY <1>1, <1>7, <1>b DEF Check, Goto, Answer, IsRefreshTokenValid, rowVars, historyVars
  <2> QED BY <1>2, <1>4, <1>5, <2>1
<1>c. CASE Revoke(c)
  <2>1. /\ UNCHANGED <<exchanged, dropped>> /\ pc[c] = "revoke" /\ pc'[c] = "user"
        /\ held' = held
    BY <1>1, <1>c DEF Revoke, Goto
  <2>2. CASE held[c] = t
    <3>1. En = E + 1 /\ Rn = R - 1 /\ Rn + 1 <= C
      BY <1>4, <1>5, <1>7, <2>1, <2>2
    <3>2. CASE revoked' = revoked \cup {t} /\ lost' = lost
      BY <1>1, <1>2, <1>6, <2>1, <3>1, <3>2
    <3>3. CASE revoked' = revoked /\ lost'[t] = lost[t] + 1
      BY <1>1, <1>2, <1>6, <2>1, <3>1, <3>3
    <3> QED BY <1>1, <1>c, <2>2, <3>2, <3>3 DEF Revoke, Count
  <2>3. CASE held[c] # t
    <3>1. En = E /\ Rn = R
      BY <1>4, <1>5, <1>7, <2>1, <2>3
    <3>2. (t \in revoked' <=> t \in revoked) /\ lost'[t] = lost[t]
      BY <1>1, <1>c, <2>3 DEF Revoke, Count
    <3> QED BY <1>2, <2>1, <3>1, <3>2
  <2> QED BY <2>2, <2>3
<1>d. CASE LoadUser(c)
  <2>1. UNCHANGED <<revoked, exchanged, lost>> /\ pc[c] = "user"
    BY <1>d DEF LoadUser, rowVars
  <2>2. Rn = R
    BY <1>1, <1>5, <1>7, <1>d DEF LoadUser, Goto, Answer
  <2>3. CASE Goto(c, "save") /\ UNCHANGED <<held, dropped>>
    <3>1. En = E
      BY <1>1, <1>4, <1>7, <2>1, <2>3 DEF Goto
    <3> QED BY <1>2, <2>1, <2>2, <2>3, <3>1
  <2>4. CASE Answer(c) /\ Count(dropped, held[c])
    <3>1. c \notin Exchanging(t)'
      BY <1>1, <1>7, <2>4 DEF Answer, Goto
    <3>2. CASE held[c] = t
      <4>1. En = E - 1 /\ dropped'[t] = dropped[t] + 1
        BY <1>1, <1>4, <1>7, <2>1, <2>4, <3>1, <3>2 DEF Count
      <4> QED BY <1>1, <1>2, <1>6, <2>1, <2>2, <4>1
    <3>3. CASE held[c] # t
      <4>1. En = E /\ dropped'[t] = dropped[t]
        BY <1>1, <1>4, <1>7, <2>4, <3>1, <3>3 DEF Count
      <4> QED BY <1>2, <2>1, <2>2, <4>1
    <3> QED BY <3>2, <3>3
  <2> QED BY <1>d, <2>3, <2>4 DEF LoadUser
<1>e. CASE SaveNew(c)
  <2>1. UNCHANGED <<revoked, lost>> /\ pc[c] = "save" /\ Answer(c)
    BY <1>e DEF SaveNew
  <2>2. c \notin Exchanging(t)' /\ Rn = R
    BY <1>1, <1>5, <1>7, <2>1 DEF Goto, Answer
  <2>3. CASE held[c] = t
    <3>1. En = E - 1
      BY <1>4, <1>7, <2>1, <2>2, <2>3
    <3>2. \/ exchanged'[t] = exchanged[t] + 1 /\ dropped'[t] = dropped[t]
          \/ exchanged'[t] = exchanged[t] /\ dropped'[t] = dropped[t] + 1
      BY <1>1, <1>e, <2>3 DEF SaveNew, Count
    <3> QED BY <1>1, <1>2, <1>6, <2>1, <2>2, <3>1, <3>2
  <2>4. CASE held[c] # t
    <3>1. En = E /\ exchanged'[t] = exchanged[t] /\ dropped'[t] = dropped[t]
      BY <1>1, <1>4, <1>7, <1>e, <2>2, <2>4 DEF SaveNew, Count
    <3> QED BY <1>2, <2>1, <2>2, <3>1
  <2> QED BY <2>3, <2>4
<1> QED BY <1>a, <1>b, <1>c, <1>d, <1>e DEF RefreshStep

LEMMA StepKeeps == RotationInv /\ [Next]_rotationVars => RotationInv'
<1> SUFFICES ASSUME RotationInv, [Next]_rotationVars PROVE RotationInv'
  OBVIOUS
<1>1. CASE \E c \in Client : RefreshStep(c)
  <2>1. TypeOK'
    BY <1>1, TypeKeeps DEF RotationInv
  <2>2. PastInv'
    BY <1>1, PastKeeps DEF PastInv
  <2> QED BY <2>1, <2>2 DEF RotationInv
<1>2. ASSUME UNCHANGED <<revoked, pc, held, exchanged, dropped, lost>> PROVE PastInv'
  BY <1>2 DEF RotationInv, PastInv, Past, Exchanging, Revoking
<1>3. CASE Login
  <2>1. TypeOK'
    BY <1>3 DEF Login, Issue, requestVars, historyVars, RotationInv, TypeOK
  <2> QED BY <1>2, <1>3, <2>1 DEF Login, requestVars, historyVars, RotationInv
<1>4. CASE \E t \in Token : Expire(t)
  <2>1. TypeOK'
    BY <1>4 DEF Expire, requestVars, historyVars, RotationInv, TypeOK
  <2> QED BY <1>2, <1>4, <2>1 DEF Expire, requestVars, historyVars, RotationInv
<1>5. CASE UNCHANGED rotationVars
  <2>1. UNCHANGED <<issued, revoked, expired, pc, held, exchanged, dropped, lost>>
    BY <1>5 DEF rotationVars, rowVars, requestVars, historyVars
  <2>2. TypeOK'
    BY <2>1 DEF RotationInv, TypeOK
  <2> QED BY <1>2, <2>1, <2>2 DEF RotationInv
<1> QED BY <1>1, <1>3, <1>4, <1>5 DEF Next

LEMMA RotationInvariance == Spec => []RotationInv
<1> QED BY InitInv, StepKeeps, PTL DEF Spec

(***************************************************************************)
(* The results.                                                            *)
(***************************************************************************)
\* The rows of refresh_tokens and every request in RefreshToken stay in their
\* types; a request under way holds an id that was stored.
THEOREM RotationTypeCorrect == Spec => []TypeOK
<1>1. RotationInv => TypeOK
  BY DEF RotationInv
<1> QED BY <1>1, RotationInvariance, PTL

\* RefreshToken exchanges one token at most once per request that may overlap
\* and once more per revocation that failed.
THEOREM ExchangesAreBounded == Spec => []ExchangesBounded
<1>1. RotationInv => ExchangesBounded
  <2> SUFFICES ASSUME RotationInv, NEW t \in Token
               PROVE  exchanged[t] <= Cardinality(Client) + lost[t]
    BY DEF ExchangesBounded
  <2>1. exchanged[t] \in Nat /\ dropped[t] \in Nat /\ lost[t] \in Nat
    BY DEF RotationInv, TypeOK
  <2>2. Exchanging(t) \in SUBSET Client /\ Revoking(t) \in SUBSET Client
    BY DEF Exchanging, Revoking
  <2>3. /\ Cardinality(Client) \in Nat
        /\ Cardinality(Exchanging(t)) \in Nat /\ Cardinality(Revoking(t)) \in Nat
    BY <2>2, Sizes
  <2>4. \/ Past(t) = lost[t]
        \/ Past(t) + Cardinality(Revoking(t)) <= Cardinality(Client) + lost[t]
    BY DEF RotationInv, PastInv
  <2> QED BY <2>1, <2>3, <2>4 DEF Past
<1> QED BY <1>1, RotationInvariance, PTL

\* A token that RefreshToken revoked was replaced, unless the exchange failed.
THEOREM RevokedAreReplaced == Spec => []RevokedIsReplaced
<1>1. RotationInv => RevokedIsReplaced
  <2> SUFFICES ASSUME RotationInv, NEW t \in revoked, \A c \in Client : held[c] # t
               PROVE  exchanged[t] + dropped[t] > 0
    BY DEF RevokedIsReplaced
  <2>1. t \in Token
    BY DEF RotationInv, TypeOK
  <2>2. exchanged[t] \in Nat /\ dropped[t] \in Nat
    BY <2>1 DEF RotationInv, TypeOK
  <2>3. Exchanging(t) = {}
    BY DEF Exchanging
  <2>4. Cardinality(Exchanging(t)) = 0
    BY <2>3, FS_EmptySet
  <2>5. Past(t) > 0
    BY <2>1 DEF RotationInv, PastInv
  <2> QED BY <2>2, <2>4, <2>5 DEF Past
<1> QED BY <1>1, RotationInvariance, PTL
=============================================================================
