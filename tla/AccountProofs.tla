---------------------------- MODULE AccountProofs -----------------------------
(***************************************************************************)
(* Proofs about the two parts of the authentication service that share the *)
(* user table: logins, for any finite set of clients, any threshold and    *)
(* any duration; registrations, for any addresses, invitations, emails and *)
(* requests and any burst.                                                 *)
(***************************************************************************)
EXTENDS LoginLockout, Registration, FiniteSetTheorems, TLAPS

-------------------------------------------------------------------------------
(* Logins (LoginLockout). *)

\* The sizes the invariant adds up are natural numbers.
LEMMA Sizes ==
  ASSUME NEW S \in SUBSET Client
  PROVE  /\ IsFiniteSet(S) /\ Cardinality(S) \in Nat
         /\ Cardinality(Client) \in Nat \ {0}
         /\ Cardinality(S) <= Cardinality(Client)
         /\ \A c \in Client \ S : /\ Cardinality(S) + 1 <= Cardinality(Client)
                                  /\ Cardinality(S \cup {c}) = Cardinality(S) + 1
         /\ \A c \in S : Cardinality(S \ {c}) = Cardinality(S) - 1
<1>1. IsFiniteSet(Client) /\ Client # {}
  BY LockoutAssumption
<1>2. IsFiniteSet(S) /\ Cardinality(S) <= Cardinality(Client)
  BY <1>1, FS_Subset
<1>3. Cardinality(S) \in Nat /\ Cardinality(Client) \in Nat \ {0}
  BY <1>1, <1>2, FS_CardinalityType, FS_EmptySet
<1>4. ASSUME NEW c \in Client \ S
      PROVE  /\ Cardinality(S) + 1 <= Cardinality(Client)
             /\ Cardinality(S \cup {c}) = Cardinality(S) + 1
  <2>1. Cardinality(S \cup {c}) = Cardinality(S) + 1
    BY <1>2, FS_AddElement
  <2>2. S \cup {c} \subseteq Client
    OBVIOUS
  <2>3. Cardinality(S \cup {c}) <= Cardinality(Client)
    BY <1>1, <2>2, FS_Subset
  <2> QED BY <2>1, <2>3
<1>5. ASSUME NEW c \in S PROVE Cardinality(S \ {c}) = Cardinality(S) - 1
  BY <1>2, FS_RemoveElement
<1> QED BY <1>2, <1>3, <1>4, <1>5

LEMMA SetsOfClients == Below \in SUBSET Client /\ Locking \in SUBSET Client
BY DEF Below, Locking

LEMMA InitInv == Init => LoginInv
<1> SUFFICES ASSUME Init PROVE LoginInv
  OBVIOUS
<1> USE DEF Init
<1>1. TypeOK
  BY LockoutAssumption DEF TypeOK, PC, Nobody
<1>2. Below = {} /\ Locking = {}
  BY DEF Below, Locking
<1>3. Cardinality(Below) = 0 /\ Cardinality(Locking) = 0 /\ Cardinality(Client) \in Nat \ {0}
  BY <1>2, FS_EmptySet, Sizes, SetsOfClients
<1>4. CountInv
  BY <1>3, LockoutAssumption DEF CountInv
<1>5. KnownInv
  BY DEF KnownInv
<1> QED BY <1>1, <1>4, <1>5 DEF LoginInv

(***************************************************************************)
(* One lemma per part of the invariant, one step per action.               *)
(***************************************************************************)
LEMMA AnswerType ==
  ASSUME TypeOK, NEW c \in Client, Answer(c)
  PROVE  /\ pc' \in [Client -> PC]
         /\ user' \in [Client -> [attempts : Nat, lockedUntil : Nat]]
         /\ until' \in [Client -> Nat]
         /\ older' \in SUBSET Client
BY DEF TypeOK, Answer, Goto, PC, Nobody

LEMMA TypeKeeps ==
  ASSUME TypeOK, NEW c \in Client, LoginStep(c)
  PROVE  TypeOK'
<1> USE DEF TypeOK
<1>1. CASE ReadUser(c)
  BY <1>1 DEF ReadUser, Goto, PC, accountVars
<1>2. CASE Check(c)
  BY <1>2, AnswerType DEF Check, Goto, PC, accountVars
<1>3. CASE Increment(c)
  <2>1. /\ strikes' \in Nat /\ failedAttempts' \in Nat /\ lockedUntil' \in Nat /\ lost' \in Nat
        /\ now' = now
    BY <1>3 DEF Increment, WriteFails
  <2>2. CASE Answer(c)
    BY <2>1, <2>2, AnswerType
  <2>3. CASE /\ Goto(c, "lock") /\ UNCHANGED <<user, older>>
             /\ until' = [until EXCEPT ![c] = now + LockoutDuration]
    <3>1. now + LockoutDuration \in Nat
      BY LockoutAssumption
    <3>2. until' \in [Client -> Nat]
      BY <2>3, <3>1
    <3> QED BY <2>1, <2>3, <3>2 DEF Goto, PC
  <2> QED BY <1>3, <2>2, <2>3 DEF Increment, LockOrAnswer
<1>4. CASE LockUser(c)
  BY <1>4 DEF LockUser, WriteFails, Goto, PC, Nobody, Others
<1>5. CASE ResetAttempts(c)
  BY <1>5, AnswerType DEF ResetAttempts, accountVars
<1> QED BY <1>1, <1>2, <1>3, <1>4, <1>5 DEF LoginStep

\* What a step of c does to the two sets, seen from the others.
LEMMA SetsStep ==
  ASSUME TypeOK, NEW c \in Client,
         \A d \in Client : d # c => pc'[d] = pc[d] /\ user'[d] = user[d]
  PROVE  /\ c \in Below' => Below' = Below \cup {c}
         /\ c \notin Below' => Below' = Below \ {c}
         /\ c \in Locking' => Locking' = Locking \cup {c}
         /\ c \notin Locking' => Locking' = Locking \ {c}
BY DEF Below, Locking, AtThreshold

LEMMA OthersUntouched ==
  ASSUME TypeOK, NEW c \in Client, LoginStep(c)
  PROVE  /\ \A d \in Client : d # c => pc'[d] = pc[d] /\ user'[d] = user[d]
         /\ now' = now
BY DEF TypeOK, LoginStep, ReadUser, Check, Increment, LockUser, ResetAttempts,
       LockOrAnswer, Answer, Goto

LEMMA CountKeeps ==
  ASSUME LoginInv, NEW c \in Client, LoginStep(c)
  PROVE  CountInv'
<1> DEFINE C == Cardinality(Client)
           B == Cardinality(Below)
           K == Cardinality(Locking)
           Bn == Cardinality(Below')
           Kn == Cardinality(Locking')
<1>0. /\ TypeOK /\ MaxLoginAttempts \in Nat \ {0}
      /\ strikes \in Nat /\ failedAttempts \in Nat /\ lost \in Nat
      /\ strikes <= failedAttempts + lost
      /\ strikes + B + 2 <= MaxLoginAttempts + C + K + lost
  BY LockoutAssumption DEF LoginInv, TypeOK, CountInv
<1>1. /\ c \in Below' => Below' = Below \cup {c}
      /\ c \notin Below' => Below' = Below \ {c}
      /\ c \in Locking' => Locking' = Locking \cup {c}
      /\ c \notin Locking' => Locking' = Locking \ {c}
  BY <1>0, SetsStep, OthersUntouched
<1>2. Below' \in SUBSET Client /\ Locking' \in SUBSET Client
  BY <1>1, SetsOfClients
<1>3. /\ C \in Nat \ {0} /\ B \in Nat /\ K \in Nat /\ Bn \in Nat /\ Kn \in Nat
      /\ B <= C /\ Bn <= C
  BY <1>2, Sizes, SetsOfClients
<1>4. /\ c \in Below' /\ c \in Below => Bn = B
      /\ c \notin Below' /\ c \in Below => Bn = B - 1
      /\ c \notin Below' /\ c \notin Below => Bn = B
      /\ c \notin Below => B + 1 <= C
  <2>1. c \in Below => Cardinality(Below \ {c}) = B - 1
    BY Sizes, SetsOfClients
  <2>2. c \notin Below => B + 1 <= C
    BY Sizes, SetsOfClients
  <2>3. /\ c \in Below => Below \cup {c} = Below
        /\ c \notin Below => Below \ {c} = Below
    OBVIOUS
  <2> QED BY <1>1, <2>1, <2>2, <2>3
<1>5. /\ c \in Locking' /\ c \in Locking => Kn = K
      /\ c \in Locking' /\ c \notin Locking => Kn = K + 1
      /\ c \notin Locking' /\ c \in Locking => Kn = K - 1
      /\ c \notin Locking' /\ c \notin Locking => Kn = K
  <2>1. c \in Locking => Cardinality(Locking \ {c}) = K - 1
    BY Sizes, SetsOfClients
  <2>2. c \notin Locking => Cardinality(Locking \cup {c}) = K + 1
    BY Sizes, SetsOfClients
  <2>3. /\ c \in Locking => Locking \cup {c} = Locking
        /\ c \notin Locking => Locking \ {c} = Locking
    OBVIOUS
  <2> QED BY <1>1, <2>1, <2>2, <2>3
<1>6. /\ c \in Below <=> pc[c] \in {"compare", "increment"} /\ ~AtThreshold(c)
      /\ c \in Below' <=> pc'[c] \in {"compare", "increment"} /\ ~AtThreshold(c)'
      /\ c \in Locking <=> pc[c] = "lock"
      /\ c \in Locking' <=> pc'[c] = "lock"
  BY DEF Below, Locking
<1>7. pc \in [Client -> PC] /\ user \in [Client -> [attempts : Nat, lockedUntil : Nat]]
  BY <1>0 DEF TypeOK
<1> SUFFICES /\ strikes' <= failedAttempts' + lost'
             /\ strikes' + Bn + 2 <= MaxLoginAttempts + C + Kn + lost'
  BY DEF CountInv
<1> HIDE DEF C, B, K, Bn, Kn
<1>a. CASE ReadUser(c)
  <2>1. /\ UNCHANGED <<failedAttempts, strikes, lost>>
        /\ c \notin Below /\ c \notin Locking /\ c \notin Locking'
        /\ user'[c].attempts = failedAttempts
    BY <1>6, <1>7, <1>a DEF ReadUser, accountVars, Goto
  <2>2. CASE c \in Below'
    <3>1. failedAttempts + 1 < MaxLoginAttempts
      <4>1. ~(failedAttempts + 1 >= MaxLoginAttempts)
        BY <1>6, <2>1, <2>2 DEF AtThreshold
      <4> QED BY <1>0, <4>1
    <3> QED BY <1>0, <1>3, <1>5, <2>1, <3>1
  <2>3. CASE c \notin Below'
    BY <1>0, <1>3, <1>4, <1>5, <2>1, <2>3
  <2> QED BY <2>2, <2>3
<1>b. CASE Check(c)
  <2>1. /\ UNCHANGED <<failedAttempts, strikes, lost>>
        /\ c \notin Locking /\ c \notin Locking'
    BY <1>6, <1>7, <1>b DEF Check, accountVars, Goto, Answer
  <2>2. c \in Below' => c \in Below
    BY <1>6, <1>7, <1>b DEF Check, Goto, Answer, AtThreshold
  <2>3. Bn <= B
    BY <1>3, <1>4, <2>2
  <2> QED BY <1>0, <1>3, <1>5, <2>1, <2>3
<1>c. CASE Increment(c)
  <2>1. /\ strikes' = strikes + 1
        /\ \/ failedAttempts' = failedAttempts + 1 /\ lost' = lost
           \/ failedAttempts' = failedAttempts /\ lost' = lost + 1
        /\ pc[c] = "increment" /\ c \notin Locking
    BY <1>6, <1>c DEF Increment, WriteFails
  <2>2. CASE AtThreshold(c)
    <3>1. pc'[c] = "lock"
      BY <1>7, <1>c, <2>2 DEF Increment, LockOrAnswer, Goto
    <3>2. c \in Locking' /\ c \notin Below' /\ c \notin Below
      BY <1>6, <2>2, <3>1
    <3>3. Bn = B /\ Kn = K + 1
      BY <1>4, <1>5, <2>1, <3>2
    <3> QED BY <1>0, <1>3, <2>1, <3>3
  <2>3. CASE ~AtThreshold(c)
    <3>1. pc'[c] = "idle"
      BY <1>7, <1>c, <2>3 DEF Increment, LockOrAnswer, Answer, Goto
    <3>2. c \notin Locking' /\ c \notin Below' /\ c \in Below
      BY <1>6, <2>1, <2>3, <3>1
    <3>3. Bn = B - 1 /\ Kn = K
      BY <1>4, <1>5, <2>1, <3>2
    <3> QED BY <1>0, <1>3, <2>1, <3>3
  <2> QED BY <2>2, <2>3
<1>d. CASE LockUser(c)
  <2>1. /\ c \in Locking /\ c \notin Locking' /\ c \notin Below /\ c \notin Below'
        /\ failedAttempts' = failedAttempts
        /\ \/ strikes' = 0 /\ lost' = 0
           \/ strikes' = strikes /\ lost' = lost + 1
    BY <1>6, <1>7, <1>d DEF LockUser, WriteFails, Goto
  <2>2. Bn = B /\ Kn = K - 1 /\ B + 1 <= C
    BY <1>4, <1>5, <2>1
  <2> QED BY <1>0, <1>3, <2>1, <2>2
<1>e. CASE ResetAttempts(c)
  <2>1. /\ c \notin Locking /\ c \notin Locking' /\ c \notin Below /\ c \notin Below'
        /\ \/ failedAttempts' = 0 /\ strikes' = 0 /\ lost' = 0
           \/ UNCHANGED <<failedAttempts, strikes, lost>>
    BY <1>6, <1>7, <1>e DEF ResetAttempts, Answer, Goto, accountVars
  <2>2. Bn = B /\ Kn = K /\ B + 1 <= C
    BY <1>4, <1>5, <2>1
  <2> QED BY <1>0, <1>3, <2>1, <2>2
<1> QED BY <1>a, <1>b, <1>c, <1>d, <1>e DEF LoginStep

LEMMA KnownKeeps ==
  ASSUME LoginInv, NEW c \in Client, LoginStep(c)
  PROVE  KnownInv'
<1> USE DEF LoginInv
<1>0. /\ now \in Nat /\ now' = now /\ lockedUntil \in Nat
      /\ pc \in [Client -> PC] /\ user \in [Client -> [attempts : Nat, lockedUntil : Nat]]
      /\ \A d \in Client : d # c => pc'[d] = pc[d] /\ user'[d] = user[d]
  BY OthersUntouched DEF TypeOK
<1>1. CASE ReadUser(c)
  <2>1. /\ lockedUntil' = lockedUntil /\ older' = older /\ pc'[c] = "compare"
        /\ user'[c].lockedUntil = lockedUntil
    BY <1>0, <1>1 DEF ReadUser, Goto, accountVars
  <2> QED BY <1>0, <2>1 DEF KnownInv
<1>2. CASE Check(c)
  <2>1. lockedUntil' = lockedUntil /\ pc[c] = "compare"
    BY <1>2 DEF Check, accountVars
  <2>2. CASE Answer(c)
    <3>1. pc'[c] = "idle" /\ older' = older \ {c}
      BY <1>0, <2>2 DEF Answer, Goto
    <3> QED BY <1>0, <2>1, <3>1 DEF KnownInv
  <2>3. CASE ~IsLocked(user[c]) /\ UNCHANGED older /\ pc'[c] \in {"increment", "reset"}
    <3>1. now < lockedUntil => c \in older
      BY <2>1, <2>3 DEF KnownInv, IsLocked
    <3> QED BY <1>0, <2>1, <2>3, <3>1 DEF KnownInv
  <2> QED BY <1>0, <1>2, <2>2, <2>3 DEF Check, Goto
<1>3. CASE Increment(c)
  <2>1. lockedUntil' = lockedUntil /\ pc[c] = "increment"
    BY <1>3 DEF Increment, WriteFails
  <2>2. CASE Answer(c)
    <3>1. pc'[c] = "idle" /\ older' = older \ {c}
      BY <1>0, <2>2 DEF Answer, Goto
    <3> QED BY <1>0, <2>1, <3>1 DEF KnownInv
  <2>3. CASE Goto(c, "lock") /\ older' = older
    <3>1. pc'[c] = "lock" /\ (now < lockedUntil => c \in older)
      BY <1>0, <2>1, <2>3 DEF KnownInv, Goto
    <3> QED BY <1>0, <2>1, <2>3, <3>1 DEF KnownInv
  <2> QED BY <1>3, <2>2, <2>3 DEF Increment, LockOrAnswer
<1>4. CASE LockUser(c)
  <2>1. pc'[c] = "idle"
    BY <1>0, <1>4 DEF LockUser, Goto
  <2>2. CASE older' = Others(c)
    BY <1>0, <2>1, <2>2 DEF KnownInv, Others
  <2>3. CASE older' = older \ {c} /\ lockedUntil' = lockedUntil
    BY <1>0, <2>1, <2>3 DEF KnownInv
  <2> QED BY <1>4, <2>2, <2>3 DEF LockUser, WriteFails
<1>5. CASE ResetAttempts(c)
  <2>1. /\ pc'[c] = "idle" /\ older' = older \ {c}
        /\ lockedUntil' = 0 \/ lockedUntil' = lockedUntil
    BY <1>0, <1>5 DEF ResetAttempts, Answer, Goto, accountVars
  <2>2. CASE lockedUntil' = 0
    <3>1. ~(now' < lockedUntil')
      BY <1>0, <2>2
    <3> QED BY <1>0, <2>1, <3>1 DEF KnownInv
  <2>3. CASE lockedUntil' = lockedUntil
    BY <1>0, <2>1, <2>3 DEF KnownInv
  <2> QED BY <2>1, <2>2, <2>3
<1> QED BY <1>1, <1>2, <1>3, <1>4, <1>5 DEF LoginStep

LEMMA StepKeeps == LoginInv /\ [Next]_loginVars => LoginInv'
<1> SUFFICES ASSUME LoginInv, [Next]_loginVars PROVE LoginInv'
  OBVIOUS
<1>1. CASE \E c \in Client : LoginStep(c)
  BY <1>1, TypeKeeps, CountKeeps, KnownKeeps DEF LoginInv
<1>2. CASE Tick
  <2>1. /\ now \in Nat /\ MaxTime \in Nat /\ now < MaxTime /\ now' = now + 1 /\ lockedUntil \in Nat
        /\ UNCHANGED <<failedAttempts, lockedUntil, strikes, lost, pc, user, until, older>>
    BY <1>2, LockoutAssumption DEF Tick, accountVars, requestVars, LoginInv, TypeOK
  <2>2. now' \in 0 .. MaxTime /\ (now' < lockedUntil' => now < lockedUntil)
    BY <2>1
  <2>3. TypeOK'
    BY <2>1, <2>2 DEF LoginInv, TypeOK
  <2>4. CountInv'
    BY <2>1 DEF LoginInv, CountInv, Below, Locking, AtThreshold
  <2>5. KnownInv'
    BY <2>1, <2>2 DEF LoginInv, KnownInv
  <2> QED BY <2>3, <2>4, <2>5 DEF LoginInv
<1>3. CASE UNCHANGED loginVars
  <2>1. UNCHANGED <<now, failedAttempts, lockedUntil, strikes, lost, pc, user, until, older>>
    BY <1>3 DEF loginVars, accountVars, requestVars
  <2> QED BY <2>1 DEF LoginInv, TypeOK, CountInv, KnownInv, Below, Locking, AtThreshold
<1> QED BY <1>1, <1>2, <1>3 DEF Next

LEMMA LoginInvariance == Spec => []LoginInv
<1> QED BY InitInv, StepKeeps, PTL DEF Spec

(***************************************************************************)
(* The results.                                                            *)
(***************************************************************************)
\* The user's row and every request in Login stay in their types.
THEOREM LoginTypeCorrect == Spec => []TypeOK
<1>1. LoginInv => TypeOK
  BY DEF LoginInv
<1> QED BY <1>1, LoginInvariance, PTL

\* Login locks the account after MaxLoginAttempts wrong passwords, give or take
\* the requests under way at once and the statements that failed.
THEOREM LockoutNotOutrun == Spec => []WrongPasswordsBounded
<1>1. LoginInv => WrongPasswordsBounded
  <2> SUFFICES ASSUME LoginInv PROVE WrongPasswordsBounded
    OBVIOUS
  <2>1. /\ Cardinality(Below) \in Nat /\ Cardinality(Locking) \in Nat
        /\ Cardinality(Client) \in Nat
    BY Sizes, SetsOfClients
  <2>2. strikes \in Nat /\ lost \in Nat /\ MaxLoginAttempts \in Nat
    BY LockoutAssumption DEF LoginInv, TypeOK
  <2> QED BY <2>1, <2>2 DEF LoginInv, CountInv, WrongPasswordsBounded
<1> QED BY <1>1, LoginInvariance, PTL

\* ResetFailedAttempts lifts a lock in force only for a login older than it.
THEOREM LocksLiftedByOlder == Spec => LiftedByOlderOnly
<1>1. LoginInv => \A c \in Client :
        now < lockedUntil /\ pc[c] = "reset" /\ lockedUntil' = 0 => c \in older
  BY DEF LoginInv, KnownInv
<1> QED BY <1>1, LoginInvariance, PTL DEF LiftedByOlderOnly

-------------------------------------------------------------------------------
(* Registrations (Registration). *)

LEMMA RegistrationInitInv == RegistrationInit => RegistrationInv
<1> SUFFICES ASSUME RegistrationInit PROVE RegistrationInv
  OBVIOUS
<1> USE DEF RegistrationInit
<1>1. RegistrationTypeOK
  <2>1. Burst \in 0 .. Burst
    BY BurstIsPositive
  <2> QED BY <2>1 DEF RegistrationTypeOK, InFlight
<1>2. BucketInv
  BY DEF BucketInv
<1>3. UserInv
  BY DEF UserInv, HasUser
<1>4. EndInv /\ SpentUnlessLost
  BY DEF EndInv, SpentUnlessLost
<1> QED BY <1>1, <1>2, <1>3, <1>4 DEF RegistrationInv

(***************************************************************************)
(* What every step of a request leaves alone.                              *)
(***************************************************************************)
LEMMA RequestStep ==
  ASSUME RegistrationTypeOK, NEW r \in Req, Step(r)
  PROVE  /\ UNCHANGED <<phase, forced, starts, ticks, issued, expired>>
         /\ stage[r] # "idle" => from'[r] = from[r] /\ email'[r] = email[r]
         /\ \A q \in Req \ {r} :
              /\ stage'[q] = stage[q] /\ from'[q] = from[q] /\ email'[q] = email[q]
              /\ limiter'[q] = limiter[q] /\ inv'[q] = inv[q]
<1> USE DEF RegistrationTypeOK, serverVars, limitVars, inviteVars, rowVars, localVars, Advance, Refuse
<1>1. CASE Arrive(r)
  BY <1>1 DEF Arrive
<1>2. CASE Load(r) \/ LoadOrStore(r) \/ Admit(r) \/ LimitRefuses(r)
  BY <1>2 DEF Load, LoadOrStore, Admit, LimitRefuses
<1>3. CASE OtherAnswer(r) \/ LookUp(r)
  BY <1>3 DEF OtherAnswer, LookUp
<1>4. CASE CreateUser(r) \/ CreateFails(r) \/ Mark(r) \/ MarkFails(r)
  BY <1>4 DEF CreateUser, CreateFails, Mark, MarkFails
<1> QED BY <1>1, <1>2, <1>3, <1>4 DEF Step

LEMMA RequestKeepsType ==
  ASSUME RegistrationTypeOK, NEW r \in Req, Step(r)
  PROVE  RegistrationTypeOK'
<1> USE DEF RegistrationTypeOK, serverVars, limitVars, inviteVars, rowVars, localVars, Advance, Refuse,
            InFlight
<1>1. CASE Arrive(r)
  BY <1>1 DEF Arrive
<1>2. CASE Load(r)
  BY <1>2 DEF Load
<1>3. CASE LoadOrStore(r)
  BY <1>3, NoneIsNothing DEF LoadOrStore
<1>4. CASE Admit(r)
  <2>1. limiter[r] \in Req /\ from[r] \in Address
    BY <1>4 DEF Admit
  <2>2. tokens[limiter[r]] - 1 \in 0 .. Burst /\ admitted[from[r]] + 1 \in Nat
    BY <1>4, <2>1, BurstIsPositive DEF Admit
  <2>3. tokens' \in [Req -> 0 .. Burst] /\ admitted' \in [Address -> Nat]
    BY <1>4, <2>2 DEF Admit
  <2> QED BY <1>4, <2>3 DEF Admit
<1>5. CASE LimitRefuses(r) \/ OtherAnswer(r) \/ CreateFails(r)
  BY <1>5 DEF LimitRefuses, OtherAnswer, CreateFails
<1>6. CASE LookUp(r)
  BY <1>6 DEF LookUp
<1>7. CASE CreateUser(r)
  BY <1>7 DEF CreateUser
<1>8. CASE Mark(r) \/ MarkFails(r)
  BY <1>8 DEF Mark, MarkFails
<1> QED BY <1>1, <1>2, <1>3, <1>4, <1>5, <1>6, <1>7, <1>8 DEF Step

(***************************************************************************)
(* The limiter: a bucket, once stored, is the one every request of its     *)
(* address takes from.                                                     *)
(***************************************************************************)
LEMMA RequestKeepsBuckets ==
  ASSUME RegistrationTypeOK, BucketInv, NEW r \in Req, Step(r)
  PROVE  BucketInv'
<1> USE DEF RegistrationTypeOK, Advance, HasUser
<1>1. /\ ticks' = ticks
      /\ stage[r] # "idle" => from'[r] = from[r]
      /\ \A q \in Req \ {r} : stage'[q] = stage[q] /\ from'[q] = from[q] /\ limiter'[q] = limiter[q]
  BY RequestStep
<1>2. CASE LoadOrStore(r)
  <2>1. from[r] \in Address /\ from' = from /\ tokens' = tokens /\ admitted' = admitted
    BY <1>2 DEF LoadOrStore
  <2>2. /\ \A a \in Address : bucket[a] # None => bucket'[a] = bucket[a]
        /\ \A a \in Address : bucket[a] = None => bucket'[a] = None \/ bucket'[a] = r
        /\ limiter'[r] = bucket'[from[r]]
    BY <1>2 DEF LoadOrStore
  <2>3. \A a \in Address : bucket'[a] # None => admitted[a] + tokens[bucket'[a]] <= Burst + ticks
    BY <2>2, BurstIsPositive DEF BucketInv
  <2>4. \A a \in Address : bucket'[a] = None => admitted[a] = 0
    BY <2>2 DEF BucketInv
  <2>5. ASSUME NEW q \in Req, stage'[q] = "allow" PROVE limiter'[q] = bucket'[from'[q]]
    <3>1. CASE q = r
      BY <2>1, <2>2, <3>1
    <3>2. CASE q # r
      BY <1>1, <2>1, <2>2, <2>5, <3>2 DEF BucketInv
    <3> QED BY <3>1, <3>2
  <2> QED BY <1>1, <2>1, <2>3, <2>4, <2>5 DEF BucketInv
<1>3. CASE Admit(r)
  <2> DEFINE a == from[r]
             b == limiter[r]
  <2>1. /\ a \in Address /\ b \in Req /\ b = bucket[a] /\ bucket[a] # None
        /\ from' = from /\ bucket' = bucket /\ limiter' = limiter
    BY <1>3, NoneIsNothing DEF Admit, BucketInv, localVars
  <2>2. /\ tokens'[b] = tokens[b] - 1
        /\ \A q \in Req : tokens'[q] \in Nat /\ tokens'[q] <= tokens[q]
        /\ admitted'[a] = admitted[a] + 1
        /\ \A x \in Address \ {a} : admitted'[x] = admitted[x]
    BY <1>3, <2>1, BurstIsPositive DEF Admit
  <2>3. ASSUME NEW x \in Address, bucket[x] # None
        PROVE  admitted'[x] + tokens'[bucket[x]] <= Burst + ticks
    <3>1. /\ bucket[x] \in Req /\ tokens[bucket[x]] \in Nat /\ admitted[x] \in Nat
          /\ admitted[x] + tokens[bucket[x]] <= Burst + ticks
      BY <2>3, BurstIsPositive DEF BucketInv
    <3>2. CASE x = a
      BY <2>1, <2>2, <3>1, <3>2, BurstIsPositive
    <3>3. CASE x # a
      BY <2>2, <3>1, <3>3, BurstIsPositive
    <3> QED BY <3>2, <3>3
  <2>4. \A x \in Address : bucket[x] = None => admitted'[x] = 0
    BY <2>1, <2>2 DEF BucketInv
  <2>5. \A q \in Req : stage'[q] = "allow" => stage[q] = "allow"
    BY <1>3 DEF Admit
  <2> QED BY <1>1, <2>1, <2>3, <2>4, <2>5 DEF BucketInv
<1>4. CASE ~ (LoadOrStore(r) \/ Admit(r))
  <2>1. UNCHANGED <<bucket, tokens, admitted>>
    BY <1>4 DEF Step, Arrive, Load, LimitRefuses, OtherAnswer, LookUp, CreateUser, CreateFails, Mark,
                MarkFails, Refuse, limitVars
  <2>2. stage'[r] = "allow" => limiter'[r] = bucket[from[r]] /\ stage[r] # "idle"
    BY <1>4 DEF Step, Arrive, Load, LimitRefuses, OtherAnswer, LookUp, CreateUser, CreateFails, Mark,
                MarkFails, Refuse
  <2> QED BY <1>1, <2>1, <2>2 DEF BucketInv
<1> QED BY <1>2, <1>3, <1>4

(***************************************************************************)
(* Accounts: one user for an email, from the invitation that was read.     *)
(***************************************************************************)
LEMMA RequestKeepsUsers ==
  ASSUME RegistrationTypeOK, UserInv, NEW r \in Req, Step(r)
  PROVE  UserInv'
<1> USE DEF RegistrationTypeOK, Advance
<1>1. /\ stage[r] # "idle" => email'[r] = email[r]
      /\ \A q \in Req \ {r} : stage'[q] = stage[q] /\ email'[q] = email[q] /\ inv'[q] = inv[q]
  BY RequestStep
<1>2. CASE LookUp(r)
  <2>1. /\ stage'[r] = "create" /\ inv'[r] \in Valid(email[r])
        /\ UNCHANGED <<spent, users>> /\ email'[r] = email[r]
    BY <1>2 DEF LookUp, IsNewest, inviteVars, rowVars
  <2>2. EmailOf[inv'[r]] = email'[r]
    BY <2>1 DEF Valid
  <2>3. ~ HasUser(r)' /\ \A q \in Req \ {r} : HasUser(q)' = HasUser(q)
    BY <1>1, <2>1 DEF HasUser
  <2> QED BY <1>1, <2>1, <2>2, <2>3 DEF UserInv
<1>3. CASE CreateUser(r)
  <2> DEFINE e == email[r]
  <2>1. /\ e \in Email /\ users[e] = None /\ stage[r] = "create" /\ inv[r] \in issued
        /\ users' = [users EXCEPT ![e] = inv[r]] /\ stage'[r] = "mark"
        /\ UNCHANGED <<spent, email, inv>>
    BY <1>3 DEF CreateUser, inviteVars, localVars
  <2>2. \A i \in spent : i # None /\ EmailOf[i] \in Email
    BY InvitationsNumbered, NoneIsNothing
  <2>3. \A i \in spent : users'[EmailOf[i]] = i
    BY <2>1, <2>2 DEF UserInv
  <2>4. \A q \in Req : HasUser(q) => email[q] # e
    BY <2>1, NoneIsNothing DEF UserInv, HasUser
  <2>5. HasUser(r)' /\ \A q \in Req \ {r} : HasUser(q)' = HasUser(q)
    BY <1>1, <2>1 DEF HasUser
  <2>6. \A q \in Req : HasUser(q)' => users'[email'[q]] = inv'[q]
    BY <2>1, <2>4, <2>5 DEF UserInv, HasUser
  <2>7. \A q, p \in Req : HasUser(q)' /\ HasUser(p)' /\ email'[q] = email'[p] => q = p
    BY <2>1, <2>4, <2>5 DEF UserInv
  <2>8. \A q \in Req : stage'[q] = "create" \/ HasUser(q)' => EmailOf[inv'[q]] = email'[q]
    BY <1>1, <2>1, <2>5 DEF UserInv
  <2> QED BY <2>1, <2>3, <2>6, <2>7, <2>8 DEF UserInv
<1>4. CASE Mark(r) \/ MarkFails(r)
  <2>1. /\ stage[r] = "mark" /\ stage'[r] = "created" /\ UNCHANGED <<users, email, inv>>
        /\ spent' \subseteq spent \cup {inv[r]}
    BY <1>4 DEF Mark, MarkFails, inviteVars, localVars
  <2>2. \A q \in Req : HasUser(q)' = HasUser(q) /\ (stage'[q] = "create" <=> stage[q] = "create")
    BY <1>1, <2>1 DEF HasUser
  <2>3. HasUser(r)
    BY <2>1 DEF HasUser
  <2> QED BY <2>1, <2>2, <2>3 DEF UserInv
<1>5. CASE ~ (LookUp(r) \/ CreateUser(r) \/ Mark(r) \/ MarkFails(r))
  <2>1. /\ UNCHANGED <<spent, users, inv>> /\ stage'[r] \notin {"create", "mark", "created"}
    BY <1>5 DEF Step, Arrive, Load, LoadOrStore, Admit, LimitRefuses, OtherAnswer, CreateFails,
                Refuse, rowVars, inviteVars, localVars
  <2>2. ~ HasUser(r)' /\ \A q \in Req \ {r} : HasUser(q)' = HasUser(q)
    BY <1>1, <2>1 DEF HasUser
  <2> QED BY <1>1, <2>1, <2>2 DEF UserInv
<1> QED BY <1>2, <1>3, <1>4, <1>5

\* Whoever is between the user and the mark is known; nobody is, in a server
\* that closed in order.
LEMMA RequestKeepsMarks ==
  ASSUME RegistrationTypeOK, UserInv, EndInv, SpentUnlessLost, NEW r \in Req, Step(r)
  PROVE  EndInv' /\ SpentUnlessLost'
<1> USE DEF RegistrationTypeOK, Advance
<1>1. /\ UNCHANGED <<phase, forced>>
      /\ \A q \in Req \ {r} : stage'[q] = stage[q] /\ inv'[q] = inv[q]
  BY RequestStep
<1>2. stage[r] \in InFlight \/ (phase = "serving" /\ stage[r] = "idle")
  BY DEF Step, Arrive, Load, LoadOrStore, Admit, LimitRefuses, OtherAnswer, LookUp, CreateUser, CreateFails,
         Mark, MarkFails, InFlight
<1>3. phase # "down" /\ (phase = "closed" => forced)
  BY <1>2 DEF EndInv, Answered
<1>4. EndInv'
  BY <1>1, <1>3 DEF EndInv
<1>5. CASE CreateUser(r)
  <2>1. /\ stage'[r] = "mark" /\ inv'[r] = inv[r] /\ email[r] \in Email
        /\ users' = [users EXCEPT ![email[r]] = inv[r]] /\ UNCHANGED <<spent, unmarked>>
        /\ stage[r] = "create"
    BY <1>5 DEF CreateUser, inviteVars, localVars
  <2>2. ASSUME NEW e \in Email, users'[e] # None
        PROVE  users'[e] \in spent' \cup unmarked' \/ \E q \in Req : stage'[q] = "mark" /\ inv'[q] = users'[e]
    <3>1. CASE e = email[r]
      BY <2>1, <3>1
    <3>2. CASE e # email[r]
      BY <1>1, <2>1, <2>2, <3>2 DEF SpentUnlessLost
    <3> QED BY <3>1, <3>2
  <2> QED BY <1>4, <2>2 DEF SpentUnlessLost
<1>6. CASE Mark(r) \/ MarkFails(r)
  <2>1. inv[r] \in spent' \cup unmarked' /\ spent \subseteq spent' /\ unmarked \subseteq unmarked'
    BY <1>3, <1>6 DEF Mark, MarkFails, DbOpen, inviteVars
  <2>2. UNCHANGED <<users, inv>>
    BY <1>6 DEF Mark, MarkFails, localVars
  <2> QED BY <1>1, <1>4, <2>1, <2>2 DEF SpentUnlessLost
<1>7. CASE ~ (CreateUser(r) \/ Mark(r) \/ MarkFails(r))
  <2>1. UNCHANGED <<users, spent, unmarked>> /\ stage[r] # "mark"
    BY <1>7 DEF Step, Arrive, Load, LoadOrStore, Admit, LimitRefuses, OtherAnswer, LookUp, CreateFails,
                Refuse, rowVars, inviteVars
  <2> QED BY <1>1, <1>4, <2>1 DEF SpentUnlessLost
<1> QED BY <1>5, <1>6, <1>7

LEMMA RequestKeeps ==
  ASSUME RegistrationInv, NEW r \in Req, Step(r)
  PROVE  RegistrationInv'
BY RequestKeepsType, RequestKeepsBuckets, RequestKeepsUsers, RequestKeepsMarks DEF RegistrationInv

(***************************************************************************)
(* The server and the invitations.                                         *)
(***************************************************************************)
LEMMA ServerKeeps ==
  ASSUME RegistrationInv, Refill \/ Signal \/ Drained \/ GiveUp
  PROVE  RegistrationInv'
<1> USE DEF RegistrationInv, serverVars, limitVars, inviteVars, rowVars, localVars
<1>1. CASE Refill
  <2>1. /\ UNCHANGED <<phase, forced, starts, bucket, admitted, issued, expired, spent, users, unmarked,
                       stage, from, email, limiter, inv>>
        /\ ticks' = ticks + 1
    BY <1>1 DEF Refill
  <2>2. \A b \in Req : tokens[b] \in 0 .. Burst
    BY DEF RegistrationTypeOK
  <2>3. /\ tokens' \in [Req -> 0 .. Burst]
        /\ \A b \in Req : tokens'[b] \in Nat /\ tokens'[b] <= tokens[b] + 1
    BY <1>1, <2>2, BurstIsPositive DEF Refill
  <2>4. RegistrationTypeOK'
    BY <2>1, <2>3 DEF RegistrationTypeOK
  <2>5. \A a \in Address : bucket[a] # None => admitted[a] + tokens'[bucket[a]] <= Burst + (ticks + 1)
    <3> SUFFICES ASSUME NEW a \in Address, bucket[a] # None
                 PROVE  admitted[a] + tokens'[bucket[a]] <= Burst + (ticks + 1)
      OBVIOUS
    <3>1. /\ bucket[a] \in Req /\ admitted[a] \in Nat /\ ticks \in Nat
          /\ admitted[a] + tokens[bucket[a]] <= Burst + ticks
      BY DEF RegistrationTypeOK, BucketInv
    <3> QED BY <2>2, <2>3, <3>1, BurstIsPositive
  <2>6. BucketInv'
    BY <2>1, <2>5 DEF BucketInv
  <2>7. UserInv' /\ EndInv' /\ SpentUnlessLost'
    BY <2>1 DEF UserInv, HasUser, EndInv, Answered, SpentUnlessLost
  <2> QED BY <2>4, <2>6, <2>7
<1>2. CASE Signal \/ Drained \/ GiveUp
  <2>1. UNCHANGED <<starts, limitVars, rowVars, stage, localVars>>
    BY <1>2 DEF Signal, Drained, GiveUp
  <2>2. RegistrationTypeOK'
    BY <1>2, <2>1 DEF Signal, Drained, GiveUp, RegistrationTypeOK
  <2>3. EndInv'
    BY <1>2, <2>1 DEF Signal, Drained, GiveUp, EndInv, Answered
  <2>4. BucketInv' /\ UserInv' /\ SpentUnlessLost'
    BY <2>1 DEF BucketInv, UserInv, HasUser, SpentUnlessLost
  <2> QED BY <2>2, <2>3, <2>4
<1> QED BY <1>1, <1>2

LEMMA EndKeeps ==
  ASSUME RegistrationInv, Exit \/ Kill
  PROVE  RegistrationInv'
<1> USE DEF RegistrationInv, limitVars, inviteVars, rowVars, localVars
<1>1. /\ phase' = "down" /\ forced' \in BOOLEAN
      /\ stage' = [r \in Req |-> IF stage[r] \in InFlight THEN "cut" ELSE stage[r]]
      /\ UNCHANGED <<starts, limitVars, inviteVars, users, localVars>>
  BY DEF Exit, Kill, End, RegistrationTypeOK
<1>2. \A r \in Req : stage'[r] \notin InFlight /\ (stage'[r] # "cut" => stage'[r] = stage[r])
                     /\ (stage'[r] # "idle" => stage[r] # "idle")
  BY <1>1 DEF InFlight
<1>3. /\ unmarked \subseteq unmarked' /\ unmarked' \subseteq issued
      /\ \A r \in Req : stage[r] = "mark" => inv[r] \in unmarked'
  <2>1. CASE unmarked' = unmarked \cup {inv[r] : r \in {q \in Req : stage[q] = "mark"}}
    BY <2>1 DEF RegistrationTypeOK
  <2>2. CASE unmarked' = unmarked /\ phase = "closed" /\ ~forced
    BY <2>2 DEF RegistrationTypeOK, EndInv, Answered, InFlight
  <2> QED BY <2>1, <2>2 DEF Exit, Kill, End, RegistrationTypeOK
<1>4. RegistrationTypeOK'
  BY <1>1, <1>2, <1>3 DEF RegistrationTypeOK, InFlight
<1>5. BucketInv' /\ EndInv'
  BY <1>1, <1>2 DEF BucketInv, EndInv, Answered, InFlight
<1>6. \A r \in Req : HasUser(r)' => HasUser(r) /\ stage'[r] # "create"
  BY <1>1, <1>2 DEF HasUser
<1>7. UserInv'
  BY <1>1, <1>2, <1>6 DEF UserInv, InFlight
<1>8. SpentUnlessLost'
  BY <1>1, <1>3 DEF SpentUnlessLost
<1> QED BY <1>4, <1>5, <1>7, <1>8

LEMMA RestartKeeps ==
  ASSUME RegistrationInv, Restart
  PROVE  RegistrationInv'
<1>1. /\ UNCHANGED <<issued, expired, spent, users, unmarked, stage, from, email, limiter, inv>>
      /\ phase' = "serving" /\ forced' = FALSE /\ starts' = starts + 1 /\ ticks' = 0
      /\ bucket' = [a \in Address |-> None] /\ admitted' = [a \in Address |-> 0]
      /\ tokens' = [r \in Req |-> Burst]
  BY DEF Restart, inviteVars, rowVars, localVars
<1>2. \A r \in Req : stage[r] \notin InFlight
  BY DEF RegistrationInv, EndInv, Answered, Restart
<1>3. RegistrationTypeOK'
  <2>1. RegistrationTypeOK /\ Burst \in 0 .. Burst
    BY BurstIsPositive DEF RegistrationInv
  <2>2. /\ bucket' \in [Address -> Req \cup {None}] /\ tokens' \in [Req -> 0 .. Burst]
        /\ admitted' \in [Address -> Nat] /\ starts' \in Nat
    BY <1>1, <2>1 DEF RegistrationTypeOK
  <2>3. \A r \in Req : stage'[r] # "allow"
    BY <1>1, <1>2 DEF InFlight
  <2> QED BY <1>1, <2>1, <2>2, <2>3 DEF RegistrationTypeOK
<1>4. BucketInv'
  BY <1>1, <1>2 DEF BucketInv, InFlight
<1>5. UserInv' /\ EndInv' /\ SpentUnlessLost'
  BY <1>1 DEF RegistrationInv, UserInv, HasUser, EndInv, SpentUnlessLost
<1> QED BY <1>3, <1>4, <1>5 DEF RegistrationInv

LEMMA InvitationKeeps ==
  ASSUME RegistrationInv, NEW i \in Invitation, Issue(i) \/ Expire(i)
  PROVE  RegistrationInv'
<1> USE DEF RegistrationInv, Issue, Expire, serverVars, limitVars, localVars
<1>1. RegistrationTypeOK'
  BY DEF RegistrationTypeOK
<1>2. BucketInv' /\ UserInv' /\ EndInv' /\ SpentUnlessLost'
  BY DEF BucketInv, UserInv, HasUser, EndInv, Answered, SpentUnlessLost
<1> QED BY <1>1, <1>2

(***************************************************************************)
(* The theorems.                                                           *)
(***************************************************************************)
LEMMA RegistrationNextKeeps ==
  ASSUME RegistrationInv, [RegistrationNext]_registrationVars
  PROVE  RegistrationInv'
<1>1. CASE \E r \in Req : Step(r)
  BY <1>1, RequestKeeps
<1>2. CASE \E i \in Invitation : Issue(i) \/ Expire(i)
  BY <1>2, InvitationKeeps
<1>3. CASE Refill \/ Signal \/ Drained \/ GiveUp
  BY <1>3, ServerKeeps
<1>4. CASE Exit \/ Kill \/ Restart
  BY <1>4, EndKeeps, RestartKeeps
<1>5. CASE UNCHANGED registrationVars
  BY <1>5 DEF registrationVars, serverVars, limitVars, inviteVars, rowVars, localVars, RegistrationInv,
              RegistrationTypeOK, BucketInv, UserInv, HasUser, EndInv, Answered, SpentUnlessLost
<1> QED BY <1>1, <1>2, <1>3, <1>4, <1>5 DEF RegistrationNext

(* RegistrationInv holds in every reachable state. *)
THEOREM RegistrationInvariance == RegistrationSpec => []RegistrationInv
<1>1. RegistrationInit => RegistrationInv
  BY RegistrationInitInv
<1>2. RegistrationInv /\ [RegistrationNext]_registrationVars => RegistrationInv'
  BY RegistrationNextKeeps
<1> QED BY <1>1, <1>2, PTL DEF RegistrationSpec

(* Every variable keeps its type. *)
THEOREM RegistrationTypeCorrect == RegistrationSpec => []RegistrationTypeOK
<1>1. RegistrationInv => RegistrationTypeOK
  BY DEF RegistrationInv
<1> QED BY <1>1, RegistrationInvariance, PTL

(* The limiter lets an address through at most a burst and one request per  *)
(* refill, for any number of addresses and of requests that race to store   *)
(* its bucket, in every life of the server.                                 *)
THEOREM AddressesLimited == RegistrationSpec => []AdmittedBounded
<1>1. RegistrationInv => AdmittedBounded
  <2> SUFFICES ASSUME RegistrationInv, NEW a \in Address
               PROVE  admitted[a] <= Burst + ticks
    BY DEF AdmittedBounded
  <2>1. admitted[a] \in Nat /\ ticks \in Nat /\ (bucket[a] # None => tokens[bucket[a]] \in 0 .. Burst)
    BY DEF RegistrationInv, RegistrationTypeOK
  <2> QED BY <2>1, BurstIsPositive DEF RegistrationInv, BucketInv
<1> QED BY <1>1, RegistrationInvariance, PTL

(* A used invitation has its user, and a created account is its only one.   *)
THEOREM OneUserPerInvitation == RegistrationSpec => []UsedMeansRegistered
<1>1. RegistrationInv => UsedMeansRegistered
  BY DEF RegistrationInv, UserInv, HasUser, UsedMeansRegistered
<1> QED BY <1>1, RegistrationInvariance, PTL

(* The invitation of a user is used in the end, or its mark was lost.       *)
THEOREM InvitationsSpent == RegistrationSpec => []SpentUnlessLost
<1>1. RegistrationInv => SpentUnlessLost
  BY DEF RegistrationInv
<1> QED BY <1>1, RegistrationInvariance, PTL
===============================================================================
