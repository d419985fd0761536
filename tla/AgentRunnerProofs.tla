-------------------------- MODULE AgentRunnerProofs --------------------------
(***************************************************************************)
(* Proofs about AgentRunner, for any definitions, editors, loads and       *)
(* callers, and any bounds.                                                *)
(***************************************************************************)
EXTENDS AgentRunner, SequenceTheorems, WellFoundedInduction, TLAPS

Keys  == AgentKey \cup PromptKey
PK(s) == <<"prompt", s>>

\* How much was published of a key.
Pub(k) == Len(published[k])

(***************************************************************************)
(* The inductive invariant.                                                *)
(***************************************************************************)
StoreInv ==
  /\ published \in [Keys -> Seq([by : Editor, version : Nat])]
  /\ serving \in [Keys -> SUBSET Nat]
  /\ \A k \in Keys : serving[k] \subseteq {Pub(k)}

\* No entry is newer than what was published, and what a load still holds is.
LoadedInv ==
  /\ \A s \in Slug : loaded[s].prompt <= Pub(PK(loaded[s].names))
  /\ \A l \in Load : \A s \in DOMAIN todo[l] :
       /\ todo[l][s].def # 0 /\ todo[l][s].def = floor[l][s].def
       /\ floor[l][s].prompt <= Pub(PK(todo[l][s].names))

AloneInv == \A l \in alone : Loading(l) => \A n \in Load : Loading(n) => n = l

\* An agent that was listed is yet to be registered, or is in the map by now.
Registered(l, s) ==
  /\ loaded[s].def = floor[l][s].def
  /\ loaded[s].prompt >= floor[l][s].prompt \/ loaded[s].prompt = 0

Pending(l, s) == s \in DOMAIN todo[l] /\ todo[l][s].def = floor[l][s].def

FreshInv ==
  \A l \in alone : Loading(l) =>
    \A s \in Slug : floor[l][s].def # 0 =>
      Pending(l, s) \/ (lpc[l] = "loading" /\ Registered(l, s))

FrameLoaded(f) == f.offered \subseteq InMap /\ (f.via = "offer" => f.agent \in InMap)

OfferInv == \A t \in Run : \A i \in 1 .. Len(frames[t]) : FrameLoaded(frames[t][i])

Saving == {"saveUser", "saveReply"}

StackInv ==
  \A t \in Run :
    /\ \A i \in 1 .. Len(frames[t]) : i < Len(frames[t]) => frames[t][i].pc = "dispatch"
    /\ \A i \in 1 .. Len(frames[t]) : frames[t][i].pc \in Saving => Len(frames[t]) = 1
    /\ frames[t] = <<>> \/ outcome[t] = "none"

SavedInv ==
  \A t \in Run :
    /\ saved[t] \in {<<>>, <<"user">>, <<"assistant">>, <<"user", "assistant">>}
    /\ saved[t] # <<>> =>
         \/ outcome[t] = "done"
         \/ Len(frames[t]) = 1 /\ frames[t][1].pc = "saveReply" /\ saved[t] = <<"user">>

LoadInv == StoreInv /\ LoadedInv /\ AloneInv /\ FreshInv
RunInv  == OfferInv /\ StackInv /\ SavedInv
RunnerInv == TypeOK /\ LoadInv /\ RunInv

(***************************************************************************)
(* Lemmas.                                                                 *)
(***************************************************************************)

(* A set of numbers that is not empty has a least element. *)
LEMMA Least ==
  ASSUME NEW S \in SUBSET Nat, S # {}
  PROVE  \E x \in S : \A y \in S : x <= y
<1> DEFINE R == {ss \in Nat \X Nat : ss[1] < ss[2]}
<1>1. IsWellFoundedOn(R, Nat)
  BY NatLessThanWellFounded DEF OpToRel
<1> HIDE DEF R
<1>2. PICK x \in S : \A y \in S : ~ (<<y, x>> \in R)
  BY <1>1, WFMin, Zenon
<1>3. \A y \in S : x <= y
  <2> TAKE y \in S
  <2>1. <<y, x>> \notin R
    BY <1>2
  <2>2. ~ (y < x)
    BY <2>1 DEF R
  <2> QED BY <2>2
<1> QED BY <1>3

(* The definition a load registers next is one it has yet to register. *)
LEMMA NextIsPending ==
  ASSUME TypeOK, NEW l \in Load, DOMAIN todo[l] # {}
  PROVE  NextOf(l) \in DOMAIN todo[l] /\ NextOf(l) \in Slug
<1>1. DOMAIN todo[l] \subseteq Slug
  BY DEF TypeOK
<1>2. DOMAIN todo[l] \in SUBSET Nat
  BY <1>1, SlugsNumbered
<1>3. \E s \in DOMAIN todo[l] : \A m \in DOMAIN todo[l] : s <= m
  BY <1>2, Least
<1>4. NextOf(l) \in DOMAIN todo[l]
  BY <1>3, Zenon DEF NextOf
<1> QED BY <1>1, <1>4

LEMMA KeysOfSlugs ==
  ASSUME NEW s \in Slug
  PROVE  <<"agent", s>> \in Keys /\ PK(s) \in Keys
BY DEF Keys, AgentKey, PromptKey, PK

(* What a query sees was published last. *)
LEMMA ActiveIsNewest ==
  ASSUME StoreInv, NEW k \in Keys
  PROVE  Active(k) \in Nat /\ Pub(k) \in Nat /\ (Active(k) = 0 \/ Active(k) = Pub(k))
<1>1. published[k] \in Seq([by : Editor, version : Nat]) /\ serving[k] \subseteq {Pub(k)}
  BY DEF StoreInv
<1>2. Pub(k) \in Nat
  BY <1>1, LenProperties DEF Pub
<1>3. CASE serving[k] = {}
  BY <1>2, <1>3 DEF Active
<1>4. CASE serving[k] # {}
  <2>1. serving[k] = {Pub(k)}
    BY <1>1, <1>4
  <2>2. (CHOOSE v \in serving[k] : TRUE) = Pub(k)
    BY <2>1
  <2>3. Active(k) = Pub(k)
    BY <1>4, <2>2 DEF Active
  <2> QED BY <1>2, <2>3
<1> QED BY <1>3, <1>4

(* What a query for a prompt sees. *)
LEMMA PromptSeen ==
  ASSUME StoreInv, NEW s \in Slug
  PROVE  /\ ActivePrompt(s) \in Nat /\ Pub(PK(s)) \in Nat
         /\ ActivePrompt(s) = 0 \/ ActivePrompt(s) = Pub(PK(s))
<1>1. PK(s) \in Keys /\ ActivePrompt(s) = Active(PK(s))
  BY KeysOfSlugs DEF ActivePrompt, PK
<1> QED BY <1>1, ActiveIsNewest

(* A definition that is listed was published by an upsert. *)
LEMMA DefinitionSeen ==
  ASSUME StoreInv, NEW s \in Listed
  PROVE  /\ ActiveDefinition(s) \in Definition
         /\ ActiveDefinition(s).def = ActiveAgent(s) /\ ActiveAgent(s) # 0
<1> DEFINE k == <<"agent", s>>
           e == published[k][ActiveAgent(s)].by
<1>1. s \in Slug /\ ActiveAgent(s) # 0 /\ k \in Keys
  BY KeysOfSlugs DEF Listed
<1>2. ActiveAgent(s) = Pub(k) /\ Pub(k) \in Nat
  BY <1>1, ActiveIsNewest DEF ActiveAgent
<1>3. published[k] \in Seq([by : Editor, version : Nat])
  BY <1>1 DEF StoreInv
<1>4. published[k][ActiveAgent(s)] \in [by : Editor, version : Nat]
  <2> DEFINE n == Len(published[k])
  <2>1. ActiveAgent(s) = n /\ n \in Nat /\ n # 0
    BY <1>1, <1>2 DEF Pub
  <2> HIDE DEF k, n
  <2>2. ActiveAgent(s) \in 1 .. n
    BY <2>1
  <2> QED BY <1>3, <2>2, ElementOfSeq DEF n
<1>5. e \in Editor
  BY <1>4
<1>6. PromptIn[e] \in Slug /\ SubsIn[e] \in SUBSET Slug
  BY <1>5, UpsertsNameSlugs
<1>7. ActiveDefinition(s) = [def |-> ActiveAgent(s), names |-> PromptIn[e], subs |-> SubsIn[e]]
  BY DEF ActiveDefinition
<1>8. ActiveAgent(s) \in Nat
  BY <1>2
<1> HIDE DEF e, k
<1> QED BY <1>1, <1>6, <1>7, <1>8 DEF Definition

(* An edit of the store keeps its invariant, and publishes only more. *)
LEMMA EditKeeps ==
  ASSUME StoreInv, Store!VSNext
  PROVE  StoreInv' /\ \A k \in Keys : Pub(k)' >= Pub(k) /\ Pub(k)' \in Nat /\ Pub(k) \in Nat
<1> DEFINE Version == [by : Editor, version : Nat]
<1>1. \A k \in Keys : Pub(k) \in Nat
  BY LenProperties DEF StoreInv, Pub
<1>2. ASSUME NEW k \in Keys, NEW a \in Editor, Store!Publish(k, a)
      PROVE  StoreInv' /\ \A j \in Keys : Pub(j)' >= Pub(j) /\ Pub(j)' \in Nat
  <2> DEFINE n == Pub(k) + 1
  <2>1. /\ published' = [published EXCEPT ![k] = Append(@, [by |-> a, version |-> n])]
        /\ serving' = [serving EXCEPT ![k] = {n}]
    BY <1>2 DEF Store!Publish, Pub
  <2>2. n \in Nat /\ [by |-> a, version |-> n] \in Version /\ published[k] \in Seq(Version)
    <3>1. Pub(k) \in Nat
      BY <1>1
    <3>2. n \in Nat
      BY <3>1
    <3>3. [by |-> a, version |-> n] \in Version
      BY <3>2
    <3> QED BY <3>2, <3>3 DEF StoreInv
  <2>3. /\ Append(published[k], [by |-> a, version |-> n]) \in Seq(Version)
        /\ Len(Append(published[k], [by |-> a, version |-> n])) = n
    BY <2>2, AppendProperties DEF Pub
  <2>4. published' \in [Keys -> Seq(Version)] /\ serving' \in [Keys -> SUBSET Nat]
    BY <2>1, <2>2, <2>3 DEF StoreInv
  <2>5. \A j \in Keys : j # k => published'[j] = published[j] /\ serving'[j] = serving[j]
    BY <2>1 DEF StoreInv
  <2>6. published'[k] = Append(published[k], [by |-> a, version |-> n]) /\ serving'[k] = {n}
    BY <2>1 DEF StoreInv
  <2>7. \A j \in Keys : Pub(j)' = IF j = k THEN n ELSE Pub(j)
    BY <2>3, <2>5, <2>6 DEF Pub
  <2>8. \A j \in Keys : serving'[j] \subseteq {Pub(j)'}
    BY <2>5, <2>6, <2>7 DEF StoreInv
  <2>9. StoreInv'
    BY <2>4, <2>8 DEF StoreInv
  <2>10. \A j \in Keys : Pub(j)' >= Pub(j) /\ Pub(j)' \in Nat
    BY <2>7, <1>1
  <2> QED BY <2>9, <2>10
<1>3. ASSUME NEW k \in PromptKey, Store!Retire(k)
      PROVE  StoreInv' /\ \A j \in Keys : Pub(j)' >= Pub(j) /\ Pub(j)' \in Nat
  <2>1. published' = published /\ serving' = [serving EXCEPT ![k] = {}]
    BY <1>3 DEF Store!Retire
  <2>2. \A j \in Keys : Pub(j)' = Pub(j)
    BY <2>1 DEF Pub
  <2>3. serving' \in [Keys -> SUBSET Nat] /\ \A j \in Keys : serving'[j] \subseteq serving[j]
    BY <2>1 DEF StoreInv
  <2>4. \A j \in Keys : serving'[j] \subseteq {Pub(j)'}
    BY <2>2, <2>3 DEF StoreInv
  <2>5. StoreInv'
    BY <2>1, <2>3, <2>4 DEF StoreInv
  <2> QED BY <2>2, <2>5, <1>1
<1>4. \/ \E k \in Keys, a \in Editor : Store!Publish(k, a)
      \/ \E k \in PromptKey : Store!Retire(k)
  BY DEF Store!VSNext, Keys
<1> QED BY <1>1, <1>2, <1>3, <1>4

LoadTypes ==
  /\ loaded \in [Slug -> Agent]
  /\ mu \in Load \cup {Free}
  /\ lpc \in [Load -> {"idle", "listed", "loading", "finished"}]
  /\ DOMAIN todo = Load
  /\ \A l \in Load : DOMAIN todo[l] \subseteq Slug /\ todo[l] \in [DOMAIN todo[l] -> Definition]
  /\ floor \in [Load -> [Slug -> Versions]]
  /\ alone \subseteq Load
  /\ \A l \in Load : mu = l <=> lpc[l] = "loading"

RunTypes ==
  /\ frames \in [Run -> Seq(Frame)]
  /\ saved \in [Run -> Seq({"user", "assistant"})]
  /\ outcome \in [Run -> {"none", "error", "done"}]
  /\ \A t \in Run : outcome[t] # "none" => frames[t] = <<>>

LEMMA TypesSplit == TypeOK <=> LoadTypes /\ RunTypes
BY DEF TypeOK, LoadTypes, RunTypes

LEMMA NextTypes == LoadTypes' /\ RunTypes' => TypeOK'
BY DEF TypeOK, LoadTypes, RunTypes

LEMMA LoadSideUnchanged ==
  ASSUME LoadTypes, LoadInv, UNCHANGED storeVars, UNCHANGED loadVars
  PROVE  LoadTypes' /\ LoadInv'
<1>1. LoadTypes'
  BY DEF loadVars, LoadTypes
<1>2. StoreInv'
  BY DEF storeVars, LoadInv, StoreInv, Pub
<1>3. LoadedInv' /\ AloneInv'
  BY DEF storeVars, loadVars, LoadInv, LoadedInv, AloneInv, Loading, Pub, PK
<1>4. FreshInv'
  BY DEF storeVars, loadVars, LoadInv, FreshInv, Loading, Pending, Registered
<1> QED BY <1>1, <1>2, <1>3, <1>4 DEF LoadInv

LEMMA RunSideUnchanged ==
  ASSUME RunTypes, RunInv, UNCHANGED runVars, InMap \subseteq InMap'
  PROVE  RunTypes' /\ RunInv'
<1>1. RunTypes' /\ StackInv' /\ SavedInv'
  BY DEF runVars, RunTypes, RunInv, StackInv, SavedInv
<1>2. \A f : FrameLoaded(f) => f.offered \subseteq InMap' /\ (f.via = "offer" => f.agent \in InMap')
  BY DEF FrameLoaded
<1>3. OfferInv'
  BY <1>2 DEF runVars, RunInv, OfferInv, FrameLoaded
<1> QED BY <1>1, <1>3 DEF RunInv

LEMMA InitInv == Init => RunnerInv
<1> SUFFICES ASSUME Init PROVE RunnerInv
  OBVIOUS
<1>1. LoadTypes
  BY FreeIsNoLoad DEF Init, LoadTypes, Versions, Agent, NoAgent, Nothing
<1>2. RunTypes
  BY EmptySeq DEF Init, RunTypes
<1>3. \A k \in Keys : published[k] = <<>> /\ serving[k] = {} /\ Pub(k) = 0
  BY EmptySeq DEF Init, Store!VSInit, Keys, Pub
<1>4. StoreInv
  BY <1>3, EmptySeq DEF Init, Store!VSInit, Keys, StoreInv
<1>5. \A s \in Slug : loaded[s].prompt = 0 /\ loaded[s].names = s /\ PK(s) \in Keys
  BY KeysOfSlugs DEF Init, NoAgent
<1>6. LoadedInv /\ AloneInv /\ FreshInv
  BY <1>3, <1>5 DEF Init, LoadedInv, AloneInv, FreshInv, Loading
<1>7. \A t \in Run : frames[t] = <<>> /\ Len(frames[t]) = 0 /\ saved[t] = <<>>
  BY EmptySeq DEF Init
<1>8. RunInv
  BY <1>7 DEF RunInv, OfferInv, StackInv, SavedInv
<1> QED BY <1>1, <1>2, <1>4, <1>6, <1>8, TypesSplit DEF RunnerInv, LoadInv

(***************************************************************************)
(* The steps of the store and of the loads.                                *)
(***************************************************************************)
LEMMA EditInv ==
  ASSUME LoadTypes, LoadInv, Edit
  PROVE  LoadTypes' /\ LoadInv' /\ InMap' = InMap
<1>1. UNCHANGED loadVars /\ Store!VSNext
  BY DEF Edit
<1>2. StoreInv' /\ \A k \in Keys : Pub(k)' >= Pub(k) /\ Pub(k)' \in Nat /\ Pub(k) \in Nat
  BY <1>1, EditKeeps DEF LoadInv
<1>3. \A s \in Slug : Pub(PK(s))' >= Pub(PK(s)) /\ Pub(PK(s))' \in Nat /\ Pub(PK(s)) \in Nat
  BY <1>2, KeysOfSlugs DEF PK
<1>4. /\ \A s \in Slug : loaded[s].prompt \in Nat /\ loaded[s].names \in Slug
      /\ \A l \in Load : \A s \in DOMAIN todo[l] :
           floor[l][s].prompt \in Nat /\ todo[l][s].names \in Slug
  BY DEF LoadTypes, Versions, Agent, Definition
<1>5. LoadedInv'
  <2>1. \A s \in Slug : loaded[s].prompt <= Pub(PK(loaded[s].names))'
    <3> TAKE s \in Slug
    <3>1. loaded[s].prompt <= Pub(PK(loaded[s].names))
      BY DEF LoadInv, LoadedInv
    <3>2. /\ Pub(PK(loaded[s].names))' >= Pub(PK(loaded[s].names))
          /\ Pub(PK(loaded[s].names))' \in Nat /\ Pub(PK(loaded[s].names)) \in Nat
      BY <1>1, <1>3, <1>4 DEF loadVars, Pub, PK
    <3> QED BY <3>1, <3>2, <1>4
  <2>2. ASSUME NEW l \in Load, NEW s \in DOMAIN todo[l]
        PROVE  floor[l][s].prompt <= Pub(PK(todo[l][s].names))'
    <3>1. floor[l][s].prompt <= Pub(PK(todo[l][s].names))
      BY DEF LoadInv, LoadedInv
    <3>2. /\ Pub(PK(todo[l][s].names))' >= Pub(PK(todo[l][s].names))
          /\ Pub(PK(todo[l][s].names))' \in Nat /\ Pub(PK(todo[l][s].names)) \in Nat
      BY <1>1, <1>3, <1>4 DEF loadVars, Pub, PK
    <3> QED BY <3>1, <3>2, <1>4
  <2> QED BY <1>1, <2>1, <2>2 DEF loadVars, LoadInv, LoadedInv, PK, Pub
<1>6. AloneInv' /\ FreshInv'
  BY <1>1 DEF loadVars, LoadInv, AloneInv, FreshInv, Loading, Pending, Registered
<1>7. LoadTypes' /\ InMap' = InMap
  BY <1>1 DEF loadVars, LoadTypes, InMap
<1> QED BY <1>2, <1>5, <1>6, <1>7 DEF LoadInv

LEMMA StoreSame ==
  ASSUME StoreInv, UNCHANGED storeVars
  PROVE  StoreInv' /\ \A k : Pub(k)' = Pub(k)
<1>1. published' = published /\ serving' = serving
  BY DEF storeVars
<1>2. \A k : Pub(k)' = Pub(k)
  BY <1>1 DEF Pub
<1>3. StoreInv'
  BY <1>1, <1>2 DEF StoreInv
<1> QED BY <1>2, <1>3

LEMMA ListInv ==
  ASSUME LoadTypes, LoadInv, NEW l \in Load, List(l)
  PROVE  LoadTypes' /\ LoadInv' /\ InMap' = InMap
<1> DEFINE others == {m \in Load \ {l} : Loading(m)}
           q == [s \in Listed |-> ActiveDefinition(s)]
<1>1. /\ lpc[l] = "idle" /\ UNCHANGED <<storeVars, loaded, mu>>
      /\ lpc' = [lpc EXCEPT ![l] = "listed"]
      /\ todo' = [todo EXCEPT ![l] = q]
      /\ floor' = [floor EXCEPT ![l] = InForce]
      /\ alone' = IF others = {} THEN alone ELSE alone \ (others \cup {l})
  BY DEF List
<1>2. StoreInv' /\ \A k : Pub(k)' = Pub(k)
  BY <1>1, StoreSame DEF LoadInv
<1>3. /\ InForce \in [Slug -> Versions]
      /\ \A s \in Slug :
           /\ InForce[s].def = ActiveAgent(s)
           /\ s \in Listed => InForce[s].prompt <= Pub(PK(ActiveDefinition(s).names))
  <2> DEFINE p(s) == IF s \in Listed THEN ActivePrompt(ActiveDefinition(s).names) ELSE 0
  <2>1. \A s \in Slug : ActiveAgent(s) \in Nat
    BY KeysOfSlugs, ActiveIsNewest DEF ActiveAgent, LoadInv
  <2>2. \A s \in Slug : p(s) \in Nat /\ (s \in Listed => p(s) <= Pub(PK(ActiveDefinition(s).names)))
    <3> TAKE s \in Slug
    <3>1. CASE s \in Listed
      <4>1. ActiveDefinition(s).names \in Slug
        BY <3>1, DefinitionSeen DEF LoadInv, Definition
      <4> QED BY <3>1, <4>1, PromptSeen DEF LoadInv
    <3>2. CASE s \notin Listed
      BY <3>2
    <3> QED BY <3>1, <3>2
  <2>3. InForce = [s \in Slug |-> [def |-> ActiveAgent(s), prompt |-> p(s)]]
    BY DEF InForce
  <2> HIDE DEF p
  <2>4. InForce \in [Slug -> Versions]
    BY <2>1, <2>2, <2>3 DEF Versions
  <2>5. \A s \in Slug : InForce[s].def = ActiveAgent(s) /\ InForce[s].prompt = p(s)
    BY <2>3
  <2> QED BY <2>2, <2>4, <2>5
<1>4. /\ DOMAIN q = Listed /\ Listed \subseteq Slug /\ q \in [Listed -> Definition]
      /\ \A s \in Listed : /\ q[s] = ActiveDefinition(s) /\ q[s].def = ActiveAgent(s)
                           /\ q[s].def # 0
  BY DefinitionSeen DEF Listed, LoadInv
<1>5. \A s \in Listed : /\ q[s].def # 0 /\ q[s].def = InForce[s].def
                         /\ InForce[s].prompt <= Pub(PK(q[s].names))
  BY <1>3, <1>4
<1> HIDE DEF q
<1>6. /\ todo'[l] = q /\ floor'[l] = InForce /\ lpc'[l] = "listed"
      /\ \A m \in Load : m # l => todo'[m] = todo[m] /\ floor'[m] = floor[m] /\ lpc'[m] = lpc[m]
  BY <1>1 DEF LoadTypes
<1>7. LoadTypes'
  <2>1. DOMAIN todo' = Load /\ \A m \in Load : DOMAIN todo'[m] \subseteq Slug /\ todo'[m] \in [DOMAIN todo'[m] -> Definition]
    BY <1>1, <1>4, <1>6 DEF LoadTypes
  <2>2. floor' \in [Load -> [Slug -> Versions]]
    BY <1>1, <1>3 DEF LoadTypes
  <2>3. alone' \subseteq Load
    BY <1>1 DEF LoadTypes
  <2>4. lpc' \in [Load -> {"idle", "listed", "loading", "finished"}]
        /\ \A m \in Load : mu' = m <=> lpc'[m] = "loading"
    BY <1>1, <1>6 DEF LoadTypes
  <2> QED BY <1>1, <2>1, <2>2, <2>3, <2>4 DEF LoadTypes
<1>8. \A m \in Load : Loading(m)' <=> (m = l \/ Loading(m))
  BY <1>6 DEF Loading
<1>9. LoadedInv'
  <2>1. \A s \in Slug : loaded'[s].prompt <= Pub(PK(loaded[s].names))'
    BY <1>1, <1>2 DEF LoadInv, LoadedInv, PK, Pub
  <2>2. ASSUME NEW m \in Load, NEW s \in DOMAIN todo'[m]
        PROVE  /\ todo'[m][s].def # 0 /\ todo'[m][s].def = floor'[m][s].def
               /\ floor'[m][s].prompt <= Pub(PK(todo'[m][s].names))
    <3>1. CASE m = l
      BY <3>1, <1>4, <1>5, <1>6
    <3>2. CASE m # l
      BY <3>2, <1>6 DEF LoadInv, LoadedInv
    <3> QED BY <3>1, <3>2
  <2> QED BY <1>1, <1>2, <2>1, <2>2 DEF LoadedInv, PK, Pub
<1>10. \A m \in alone' : Loading(m)' => m = l /\ others = {}
  <2> SUFFICES ASSUME NEW m \in alone', Loading(m)' PROVE m = l /\ others = {}
    OBVIOUS
  <2>1. m \in Load
    BY <1>7 DEF LoadTypes
  <2>2. CASE others = {}
    BY <2>1, <2>2, <1>8
  <2>3. CASE others # {}
    BY <2>1, <2>3, <1>1, <1>8
  <2> QED BY <2>2, <2>3
<1>11. AloneInv'
  BY <1>8, <1>10 DEF AloneInv
<1>12. FreshInv'
  <2>1. \A s \in Slug : floor'[l][s].def # 0 => s \in DOMAIN todo'[l] /\ todo'[l][s].def = floor'[l][s].def
    BY <1>3, <1>4, <1>5, <1>6 DEF Listed
  <2> QED BY <1>10, <2>1 DEF FreshInv, Pending
<1> QED BY <1>1, <1>2, <1>7, <1>9, <1>11, <1>12 DEF LoadInv, InMap

LEMMA ListFailsInv ==
  ASSUME LoadTypes, LoadInv, NEW l \in Load, ListFails(l)
  PROVE  LoadTypes' /\ LoadInv' /\ InMap' = InMap
<1>1. /\ lpc[l] = "idle" /\ lpc' = [lpc EXCEPT ![l] = "finished"]
      /\ UNCHANGED <<storeVars, loaded, mu, todo, floor, alone>>
  BY DEF ListFails
<1>2. StoreInv' /\ \A k : Pub(k)' = Pub(k)
  BY <1>1, StoreSame DEF LoadInv
<1>3. /\ lpc' \in [Load -> {"idle", "listed", "loading", "finished"}]
      /\ \A m \in Load : lpc'[m] = IF m = l THEN "finished" ELSE lpc[m]
  BY <1>1 DEF LoadTypes
<1>4. LoadTypes'
  BY <1>1, <1>3 DEF LoadTypes
<1>5. \A m \in Load : Loading(m)' => Loading(m) /\ lpc'[m] = lpc[m]
  BY <1>3 DEF Loading
<1>6. LoadedInv'
  BY <1>1, <1>2, <1>5 DEF LoadInv, LoadedInv, PK, Pub, Loading
<1>7. AloneInv' /\ FreshInv'
  BY <1>1, <1>5, <1>4 DEF LoadInv, AloneInv, FreshInv, Pending, Registered, Loading, LoadTypes
<1> QED BY <1>1, <1>2, <1>4, <1>6, <1>7 DEF LoadInv, InMap

LEMMA LockStepInv ==
  ASSUME LoadTypes, LoadInv, NEW l \in Load, Lock(l)
  PROVE  LoadTypes' /\ LoadInv' /\ InMap' = InMap
<1>1. /\ lpc[l] = "listed" /\ mu = Free /\ mu' = l /\ lpc' = [lpc EXCEPT ![l] = "loading"]
      /\ UNCHANGED <<storeVars, loaded, todo, floor, alone>>
  BY DEF Lock
<1>2. StoreInv' /\ \A k : Pub(k)' = Pub(k)
  BY <1>1, StoreSame DEF LoadInv
<1>3. /\ lpc' \in [Load -> {"idle", "listed", "loading", "finished"}]
      /\ \A m \in Load : lpc'[m] = IF m = l THEN "loading" ELSE lpc[m]
  BY <1>1 DEF LoadTypes
<1>4. LoadTypes'
  BY <1>1, <1>3, FreeIsNoLoad DEF LoadTypes
<1>5. \A m \in Load : (Loading(m)' <=> Loading(m)) /\ (lpc[m] = "loading" => lpc'[m] = "loading")
  BY <1>1, <1>3 DEF Loading
<1>6. LoadedInv'
  BY <1>1, <1>2, <1>5 DEF LoadInv, LoadedInv, PK, Pub, Loading
<1>7. AloneInv' /\ FreshInv'
  BY <1>1, <1>5, <1>4 DEF LoadInv, AloneInv, FreshInv, Pending, Registered, Loading, LoadTypes
<1> QED BY <1>1, <1>2, <1>4, <1>6, <1>7 DEF LoadInv, InMap

LEMMA UnlockInv ==
  ASSUME LoadTypes, LoadInv, NEW l \in Load, Unlock(l)
  PROVE  LoadTypes' /\ LoadInv' /\ InMap' = InMap
<1>1. /\ lpc[l] = "loading" /\ mu' = Free /\ lpc' = [lpc EXCEPT ![l] = "finished"]
      /\ DOMAIN todo[l] = {} /\ floor' = [floor EXCEPT ![l] = Nothing]
      /\ UNCHANGED <<storeVars, loaded, todo, alone>>
  BY DEF Unlock
<1>2. StoreInv' /\ \A k : Pub(k)' = Pub(k)
  BY <1>1, StoreSame DEF LoadInv
<1>3. /\ lpc' \in [Load -> {"idle", "listed", "loading", "finished"}]
      /\ \A m \in Load : lpc'[m] = IF m = l THEN "finished" ELSE lpc[m]
      /\ floor' \in [Load -> [Slug -> Versions]]
      /\ \A m \in Load : m # l => floor'[m] = floor[m]
  BY <1>1 DEF LoadTypes, Nothing, Versions
<1>4. LoadTypes'
  BY <1>1, <1>3, FreeIsNoLoad DEF LoadTypes
<1>5. \A m \in Load : Loading(m)' => Loading(m) /\ lpc'[m] = lpc[m] /\ floor'[m] = floor[m]
  BY <1>3 DEF Loading
<1>6. LoadedInv'
  <2>1. \A s \in Slug : loaded[s].prompt <= Pub(PK(loaded[s].names))'
    BY <1>1, <1>2 DEF LoadInv, LoadedInv, PK, Pub
  <2>2. ASSUME NEW m \in Load, NEW s \in DOMAIN todo[m]
        PROVE  /\ todo[m][s].def # 0 /\ todo[m][s].def = floor'[m][s].def
               /\ floor'[m][s].prompt <= Pub(PK(todo[m][s].names))
    <3>1. m # l
      BY <1>1
    <3>2. floor'[m] = floor[m]
      BY <1>3, <3>1
    <3> QED BY <3>2 DEF LoadInv, LoadedInv
  <2> QED BY <1>1, <1>2, <2>1, <2>2 DEF LoadedInv, PK, Pub
<1>7. AloneInv' /\ FreshInv'
  BY <1>1, <1>5, <1>4 DEF LoadInv, AloneInv, FreshInv, Pending, Registered, Loading, LoadTypes
<1> QED BY <1>1, <1>2, <1>4, <1>6, <1>7 DEF LoadInv, InMap

(* A load goes on to the next of the definitions it has yet to register. *)
LEMMA RestOf ==
  ASSUME LoadTypes, LoadedInv, NEW l \in Load, todo' = [todo EXCEPT ![l] = Rest(l)],
         UNCHANGED floor
  PROVE  /\ DOMAIN todo' = Load
         /\ \A m \in Load : DOMAIN todo'[m] \subseteq Slug /\ todo'[m] \in [DOMAIN todo'[m] -> Definition]
         /\ \A m \in Load : \A s \in DOMAIN todo'[m] :
              s \in DOMAIN todo[m] /\ todo'[m][s] = todo[m][s]
         /\ DOMAIN todo'[l] = DOMAIN todo[l] \ {NextOf(l)}
         /\ \A s \in DOMAIN todo'[l] : todo'[l][s] = todo[l][s]
         /\ \A m \in Load : m # l => todo'[m] = todo[m]
<1>1. todo'[l] = Rest(l) /\ \A m \in Load : m # l => todo'[m] = todo[m]
  BY DEF LoadTypes
<1>2. /\ DOMAIN Rest(l) = DOMAIN todo[l] \ {NextOf(l)}
      /\ \A s \in DOMAIN Rest(l) : Rest(l)[s] = todo[l][s] /\ Rest(l)[s] \in Definition
  BY DEF Rest, LoadTypes
<1>3. Rest(l) \in [DOMAIN Rest(l) -> Definition]
  BY <1>2 DEF Rest
<1>4. DOMAIN todo' = Load
  BY DEF LoadTypes
<1>5. \A m \in Load : \A s \in DOMAIN todo'[m] : s \in DOMAIN todo[m] /\ todo'[m][s] = todo[m][s]
  BY <1>1, <1>2
<1>6. \A m \in Load : DOMAIN todo'[m] \subseteq Slug /\ todo'[m] \in [DOMAIN todo'[m] -> Definition]
  BY <1>1, <1>2, <1>3 DEF LoadTypes
<1> QED BY <1>1, <1>2, <1>4, <1>5, <1>6

LEMMA PassOverInv ==
  ASSUME LoadTypes, LoadInv, NEW l \in Load, PassOver(l)
  PROVE  LoadTypes' /\ LoadInv' /\ InMap' = InMap
<1>1. /\ todo' = [todo EXCEPT ![l] = Rest(l)] /\ alone' = alone \ {l}
      /\ UNCHANGED <<storeVars, loaded, mu, lpc, floor>>
  BY DEF PassOver
<1>2. StoreInv' /\ \A k : Pub(k)' = Pub(k)
  BY <1>1, StoreSame DEF LoadInv
<1>3. /\ DOMAIN todo' = Load
      /\ \A m \in Load : DOMAIN todo'[m] \subseteq Slug /\ todo'[m] \in [DOMAIN todo'[m] -> Definition]
      /\ \A m \in Load : \A s \in DOMAIN todo'[m] : s \in DOMAIN todo[m] /\ todo'[m][s] = todo[m][s]
      /\ \A m \in Load : m # l => todo'[m] = todo[m]
  BY <1>1, RestOf DEF LoadInv
<1>4. LoadTypes'
  BY <1>1, <1>3 DEF LoadTypes
<1>5. LoadedInv'
  <2>1. \A s \in Slug : loaded'[s].prompt <= Pub(PK(loaded[s].names))'
    BY <1>1, <1>2 DEF LoadInv, LoadedInv, PK, Pub
  <2>2. ASSUME NEW m \in Load, NEW s \in DOMAIN todo'[m]
        PROVE  /\ todo'[m][s].def # 0 /\ todo'[m][s].def = floor'[m][s].def
               /\ floor'[m][s].prompt <= Pub(PK(todo'[m][s].names))
    BY <1>1, <1>3 DEF LoadInv, LoadedInv
  <2> QED BY <1>1, <1>2, <2>1, <2>2 DEF LoadedInv, PK, Pub
<1>6. AloneInv'
  BY <1>1 DEF LoadInv, AloneInv, Loading
<1>7. FreshInv'
  <2>1. \A m \in alone' : m \in alone /\ m \in Load /\ todo'[m] = todo[m]
    BY <1>1, <1>3 DEF LoadTypes
  <2> QED BY <1>1, <2>1 DEF LoadInv, FreshInv, Pending, Registered, Loading
<1> QED BY <1>1, <1>2, <1>4, <1>5, <1>6, <1>7 DEF LoadInv, InMap

LEMMA RegisterInv ==
  ASSUME LoadTypes, RunTypes, LoadInv, NEW l \in Load, Register(l)
  PROVE  /\ LoadTypes' /\ LoadInv' /\ InMap \subseteq InMap'
         /\ \A s \in Slug :
              loaded'[s].prompt # 0 /\ loaded'[s].names = loaded[s].names
                => loaded'[s].prompt >= loaded[s].prompt
<1> DEFINE n == NextOf(l)
           d == todo[l][n]
           p == ActivePrompt(d.names)
<1>1. /\ lpc[l] = "loading" /\ DOMAIN todo[l] # {}
      /\ todo' = [todo EXCEPT ![l] = Rest(l)]
      /\ UNCHANGED <<storeVars, mu, lpc, floor, alone>>
      /\ loaded' = [loaded EXCEPT ![n] = Built(d, p)]
  BY DEF Register
<1>2. n \in DOMAIN todo[l] /\ n \in Slug
  BY <1>1, TypesSplit, NextIsPending
<1>3. /\ d \in Definition /\ d.def # 0 /\ d.def = floor[l][n].def
      /\ floor[l][n].prompt <= Pub(PK(d.names))
  BY <1>2 DEF LoadTypes, LoadInv, LoadedInv
<1>4. p \in Nat /\ Pub(PK(d.names)) \in Nat /\ (p = 0 \/ p = Pub(PK(d.names)))
  <2>1. d.names \in Slug
    BY <1>3 DEF Definition
  <2> QED BY <2>1, PromptSeen DEF LoadInv
<1>5. StoreInv' /\ \A k : Pub(k)' = Pub(k)
  BY <1>1, StoreSame DEF LoadInv
<1>6. /\ DOMAIN todo' = Load
      /\ \A m \in Load : DOMAIN todo'[m] \subseteq Slug /\ todo'[m] \in [DOMAIN todo'[m] -> Definition]
      /\ \A m \in Load : \A s \in DOMAIN todo'[m] : s \in DOMAIN todo[m] /\ todo'[m][s] = todo[m][s]
      /\ DOMAIN todo'[l] = DOMAIN todo[l] \ {n}
      /\ \A s \in DOMAIN todo'[l] : todo'[l][s] = todo[l][s]
      /\ \A m \in Load : m # l => todo'[m] = todo[m]
  BY <1>1, RestOf DEF LoadInv
<1> HIDE DEF n, d, p
<1>7. /\ loaded' \in [Slug -> Agent]
      /\ loaded'[n].def = d.def /\ loaded'[n].names = d.names /\ loaded'[n].prompt = p
      /\ \A s \in Slug : s # n => loaded'[s] = loaded[s]
  <2>1. /\ Built(d, p) \in Agent /\ Built(d, p).def = d.def
        /\ Built(d, p).names = d.names /\ Built(d, p).prompt = p
    BY <1>3, <1>4 DEF Built, Definition, Agent
  <2> QED BY <1>1, <1>2, <2>1 DEF LoadTypes
<1>8. LoadTypes'
  BY <1>1, <1>6, <1>7 DEF LoadTypes
<1>9. \A s \in Slug : loaded[s].prompt \in Nat /\ loaded[s].prompt <= Pub(PK(loaded[s].names))
  BY DEF LoadTypes, Agent, LoadInv, LoadedInv
<1>10. \A s \in Slug : loaded'[s].prompt <= Pub(PK(loaded'[s].names))
  <2> TAKE s \in Slug
  <2>1. CASE s = n
    BY <2>1, <1>4, <1>7
  <2>2. CASE s # n
    BY <2>2, <1>7, <1>9
  <2> QED BY <2>1, <2>2
<1>11. LoadedInv'
  <2>1. \A s \in Slug : loaded'[s].prompt <= Pub(PK(loaded[s].names))'
    BY <1>1, <1>10 DEF PK, Pub, storeVars
  <2>2. ASSUME NEW m \in Load, NEW s \in DOMAIN todo'[m]
        PROVE  /\ todo'[m][s].def # 0 /\ todo'[m][s].def = floor'[m][s].def
               /\ floor'[m][s].prompt <= Pub(PK(todo'[m][s].names))
    BY <1>1, <1>6 DEF LoadInv, LoadedInv
  <2> QED BY <1>1, <1>5, <2>1, <2>2 DEF LoadedInv, PK, Pub
<1>12. AloneInv'
  BY <1>1 DEF LoadInv, AloneInv, Loading
<1>13. FreshInv'
  <2> SUFFICES ASSUME NEW m \in alone, Loading(m), NEW s \in Slug, floor[m][s].def # 0
               PROVE  \/ s \in DOMAIN todo'[m] /\ todo'[m][s].def = floor[m][s].def
                      \/ /\ lpc[m] = "loading"
                         /\ loaded'[s].def = floor[m][s].def
                         /\ loaded'[s].prompt >= floor[m][s].prompt \/ loaded'[s].prompt = 0
    BY <1>1 DEF FreshInv, Pending, Registered, Loading
  <2>1. m = l
    <3>1. Loading(l)
      BY <1>1 DEF Loading
    <3> QED BY <3>1 DEF LoadInv, AloneInv
  <2>2. \/ s \in DOMAIN todo[l] /\ todo[l][s].def = floor[l][s].def
        \/ /\ loaded[s].def = floor[l][s].def
           /\ loaded[s].prompt >= floor[l][s].prompt \/ loaded[s].prompt = 0
    BY <2>1 DEF LoadInv, FreshInv, Pending, Registered
  <2>3. CASE s # n
    <3>1. s \in DOMAIN todo[l] => s \in DOMAIN todo'[l] /\ todo'[l][s] = todo[l][s]
      BY <2>3, <1>6
    <3> QED BY <2>1, <2>2, <2>3, <3>1, <1>1, <1>7
  <2>4. CASE s = n
    <3>1. floor[l][n].prompt \in Nat
      BY <1>2, <2>1 DEF LoadTypes, Versions
    <3>2. loaded'[n].prompt >= floor[l][n].prompt \/ loaded'[n].prompt = 0
      BY <3>1, <1>3, <1>4, <1>7
    <3> QED BY <3>2, <2>1, <2>4, <1>1, <1>3, <1>7
  <2> QED BY <2>3, <2>4
<1>14. InMap \subseteq InMap'
  BY <1>2, <1>3, <1>7 DEF InMap
<1>15. \A s \in Slug :
         loaded'[s].prompt # 0 /\ loaded'[s].names = loaded[s].names
           => loaded'[s].prompt >= loaded[s].prompt
  <2> TAKE s \in Slug
  <2>1. CASE s = n
    BY <2>1, <1>2, <1>4, <1>7, <1>9
  <2>2. CASE s # n
    BY <2>2, <1>7, <1>9
  <2> QED BY <2>1, <2>2
<1> QED BY <1>5, <1>8, <1>11, <1>12, <1>13, <1>14, <1>15 DEF LoadInv

(***************************************************************************)
(* The four ways a run's step changes its stack.                           *)
(***************************************************************************)
LEMMA TopOf ==
  ASSUME RunTypes, NEW t \in Run, frames[t] # <<>>
  PROVE  /\ frames[t] \in Seq(Frame) /\ Depth(t) = Len(frames[t])
         /\ Depth(t) \in Nat /\ Depth(t) >= 1
         /\ Depth(t) \in 1 .. Len(frames[t])
         /\ Top(t) = frames[t][Depth(t)] /\ Top(t) \in Frame
<1>1. frames[t] \in Seq(Frame)
  BY DEF RunTypes
<1>2. Len(frames[t]) \in Nat /\ Len(frames[t]) # 0
  BY <1>1, EmptySeq, LenProperties
<1>3. frames[t][Len(frames[t])] \in Frame
  BY <1>1, <1>2, ElementOfSeq
<1> QED BY <1>1, <1>2, <1>3 DEF Depth, Top

(* Until its caller is told, nothing is saved for a run outside its end. *)
LEMMA NothingSavedYet ==
  ASSUME RunTypes, RunInv, NEW t \in Run, outcome[t] = "none",
         frames[t] = <<>> \/ Top(t).pc # "saveReply"
  PROVE  saved[t] = <<>>
<1>1. CASE frames[t] = <<>>
  <2>1. Len(frames[t]) = 0
    BY <1>1, EmptySeq
  <2> QED BY <2>1 DEF RunInv, SavedInv
<1>2. CASE frames[t] # <<>> /\ Top(t).pc # "saveReply"
  <2>1. Len(frames[t]) = 1 => frames[t][1].pc # "saveReply"
    BY <1>2 DEF Top, Depth
  <2> QED BY <2>1 DEF RunInv, SavedInv
<1> QED BY <1>1, <1>2

LEMMA TopSetKeeps ==
  ASSUME RunTypes, RunInv, NEW t \in Run, frames[t] # <<>>,
         NEW f \in Frame, TopSet(t, f), FrameLoaded(f), f.pc \in Saving => Depth(t) = 1,
         UNCHANGED <<loaded, outcome>>,
         saved' \in [Run -> Seq({"user", "assistant"})],
         \A u \in Run : u # t => saved'[u] = saved[u],
         saved'[t] = <<>> \/ (saved'[t] = <<"user">> /\ f.pc = "saveReply")
  PROVE  RunTypes' /\ RunInv'
<1> DEFINE d == Depth(t)
           s == [frames[t] EXCEPT ![d] = f]
<1>1. /\ frames[t] \in Seq(Frame) /\ d = Len(frames[t]) /\ d \in Nat /\ d >= 1
      /\ d \in 1 .. Len(frames[t])
  BY TopOf
<1>2. s \in Seq(Frame) /\ Len(s) = d /\ \A j \in 1 .. d : s[j] = IF j = d THEN f ELSE frames[t][j]
  BY <1>1, ExceptSeq
<1>3. frames' = [frames EXCEPT ![t] = s]
  BY DEF TopSet
<1> HIDE DEF s, d
<1>4. frames' \in [Run -> Seq(Frame)] /\ frames'[t] = s /\ \A u \in Run : u # t => frames'[u] = frames[u]
  BY <1>2, <1>3 DEF RunTypes
<1>5. outcome[t] = "none"
  BY DEF RunInv, StackInv
<1>6. RunTypes'
  BY <1>4, <1>5 DEF RunTypes
<1>7. OfferInv'
  <2>1. \A u \in Run : \A i \in 1 .. Len(frames'[u]) : FrameLoaded(frames'[u][i])
    <3> TAKE u \in Run
    <3>1. CASE u = t
      BY <3>1, <1>1, <1>2, <1>4 DEF RunInv, OfferInv
    <3>2. CASE u # t
      BY <3>2, <1>4 DEF RunInv, OfferInv
    <3> QED BY <3>1, <3>2
  <2>2. InMap' = InMap
    BY DEF InMap
  <2> QED BY <2>1, <2>2 DEF OfferInv, FrameLoaded
<1>8. StackInv'
  <2> SUFFICES ASSUME NEW u \in Run
               PROVE  /\ \A i \in 1 .. Len(frames'[u]) : i < Len(frames'[u]) => frames'[u][i].pc = "dispatch"
                      /\ \A i \in 1 .. Len(frames'[u]) : frames'[u][i].pc \in Saving => Len(frames'[u]) = 1
                      /\ frames'[u] = <<>> \/ outcome'[u] = "none"
    BY DEF StackInv
  <2>1. CASE u = t
    <3>1. \A i \in 1 .. d : i < d => frames[t][i].pc = "dispatch"
      BY <1>1 DEF RunInv, StackInv
    <3>2. \A i \in 1 .. d : i < d => s[i].pc = "dispatch"
      BY <1>1, <1>2, <3>1
    <3>3. s[d].pc \in Saving => d = 1
      BY <1>1, <1>2 DEF d
    <3>4. \A i \in 1 .. d : s[i].pc \in Saving => d = 1
      <4> SUFFICES ASSUME NEW i \in 1 .. d, s[i].pc \in Saving PROVE d = 1
        OBVIOUS
      <4>1. ~ (i < d)
        BY <3>2 DEF Saving
      <4>2. i = d
        BY <4>1, <1>1
      <4> QED BY <3>3, <4>2
    <3> QED BY <2>1, <3>2, <3>4, <1>2, <1>4, <1>5
  <2>2. CASE u # t
    <3>1. frames'[u] = frames[u] /\ outcome'[u] = outcome[u]
      BY <2>2, <1>4
    <3>2. /\ \A i \in 1 .. Len(frames[u]) : i < Len(frames[u]) => frames[u][i].pc = "dispatch"
          /\ \A i \in 1 .. Len(frames[u]) : frames[u][i].pc \in Saving => Len(frames[u]) = 1
          /\ frames[u] = <<>> \/ outcome[u] = "none"
      BY DEF RunInv, StackInv
    <3> QED BY <3>1, <3>2
  <2> QED BY <2>1, <2>2
<1>9. SavedInv'
  <2> SUFFICES ASSUME NEW u \in Run
               PROVE  /\ saved'[u] \in {<<>>, <<"user">>, <<"assistant">>, <<"user", "assistant">>}
                      /\ saved'[u] # <<>> =>
                           \/ outcome'[u] = "done"
                           \/ Len(frames'[u]) = 1 /\ frames'[u][1].pc = "saveReply" /\ saved'[u] = <<"user">>
    BY DEF SavedInv
  <2>1. CASE u = t
    <3>1. f.pc = "saveReply" => Len(s) = 1 /\ s[1] = f
      BY <1>1, <1>2 DEF Saving, d
    <3> QED BY <2>1, <3>1, <1>4
  <2>2. CASE u # t
    BY <2>2, <1>4 DEF RunInv, SavedInv
  <2> QED BY <2>1, <2>2
<1> QED BY <1>6, <1>7, <1>8, <1>9 DEF RunInv

LEMMA EndRunKeeps ==
  ASSUME RunTypes, RunInv, NEW t \in Run, frames[t] # <<>>,
         NEW last \in {"error", "done"}, EndRun(t, last), UNCHANGED loaded,
         saved' \in [Run -> Seq({"user", "assistant"})],
         \A u \in Run : u # t => saved'[u] = saved[u],
         saved'[t] \in {<<>>, <<"user">>, <<"assistant">>, <<"user", "assistant">>},
         saved'[t] # <<>> => Depth(t) = 1 /\ last = "done"
  PROVE  RunTypes' /\ RunInv'
<1> DEFINE d == Depth(t)
           s == SubSeq(frames[t], 1, d - 1)
<1>1. frames[t] \in Seq(Frame) /\ d = Len(frames[t]) /\ d \in Nat /\ d >= 1
  BY TopOf
<1>2. s \in Seq(Frame) /\ Len(s) = d - 1 /\ \A j \in 1 .. d - 1 : s[j] = frames[t][j]
  <2>1. \A i \in 1 .. d - 1 : frames[t][i] \in Frame
    BY <1>1, ElementOfSeq
  <2>2. 1 \in Int /\ d - 1 \in Int
    BY <1>1
  <2>3. /\ s \in Seq(Frame) /\ Len(s) = IF 1 <= d - 1 THEN d - 1 - 1 + 1 ELSE 0
        /\ \A i \in 1 .. d - 1 - 1 + 1 : s[i] = frames[t][1 + i - 1]
    BY <2>1, <2>2, SubSeqProperties
  <2>4. \A i \in 1 .. d - 1 : i \in 1 .. d - 1 - 1 + 1 /\ 1 + i - 1 = i
    BY <1>1
  <2> QED BY <1>1, <2>3, <2>4
<1>3. /\ frames' = [frames EXCEPT ![t] = s]
      /\ outcome' = IF d = 1 THEN [outcome EXCEPT ![t] = last] ELSE outcome
  BY DEF EndRun
<1> HIDE DEF s, d
<1>4. frames' \in [Run -> Seq(Frame)] /\ frames'[t] = s /\ \A u \in Run : u # t => frames'[u] = frames[u]
  BY <1>2, <1>3 DEF RunTypes
<1>5. /\ outcome' \in [Run -> {"none", "error", "done"}]
      /\ \A u \in Run : u # t => outcome'[u] = outcome[u]
      /\ d = 1 => outcome'[t] = last
      /\ d # 1 => outcome'[t] = "none"
  BY <1>3 DEF RunTypes, RunInv, StackInv
<1>6. d = 1 => s = <<>>
  BY <1>2, EmptySeq
<1>7. RunTypes'
  BY <1>4, <1>5, <1>6 DEF RunTypes
<1>8. \A i \in 1 .. d - 1 : i \in 1 .. Len(frames[t]) /\ i < Len(frames[t])
  BY <1>1
<1>9. OfferInv'
  <2>1. \A u \in Run : \A i \in 1 .. Len(frames'[u]) : FrameLoaded(frames'[u][i])
    <3> TAKE u \in Run
    <3>1. CASE u = t
      <4>1. \A i \in 1 .. d - 1 : FrameLoaded(s[i])
        BY <1>2, <1>8 DEF RunInv, OfferInv
      <4> QED BY <3>1, <4>1, <1>2, <1>4
    <3>2. CASE u # t
      BY <3>2, <1>4 DEF RunInv, OfferInv
    <3> QED BY <3>1, <3>2
  <2>2. InMap' = InMap
    BY DEF InMap
  <2> QED BY <2>1, <2>2 DEF OfferInv, FrameLoaded
<1>10. StackInv'
  <2> SUFFICES ASSUME NEW u \in Run
               PROVE  /\ \A i \in 1 .. Len(frames'[u]) : i < Len(frames'[u]) => frames'[u][i].pc = "dispatch"
                      /\ \A i \in 1 .. Len(frames'[u]) : frames'[u][i].pc \in Saving => Len(frames'[u]) = 1
                      /\ frames'[u] = <<>> \/ outcome'[u] = "none"
    BY DEF StackInv
  <2>1. CASE u = t
    <3>1. \A i \in 1 .. d - 1 : frames[t][i].pc = "dispatch"
      BY <1>8 DEF RunInv, StackInv
    <3>2. \A i \in 1 .. d - 1 : s[i].pc = "dispatch"
      BY <1>2, <3>1
    <3> QED BY <2>1, <3>2, <1>2, <1>4, <1>5, <1>6 DEF Saving
  <2>2. CASE u # t
    <3>1. frames'[u] = frames[u] /\ outcome'[u] = outcome[u]
      BY <2>2, <1>4, <1>5
    <3> QED BY <3>1 DEF RunInv, StackInv
  <2> QED BY <2>1, <2>2
<1>11. SavedInv'
  <2> SUFFICES ASSUME NEW u \in Run
               PROVE  /\ saved'[u] \in {<<>>, <<"user">>, <<"assistant">>, <<"user", "assistant">>}
                      /\ saved'[u] # <<>> =>
                           \/ outcome'[u] = "done"
                           \/ Len(frames'[u]) = 1 /\ frames'[u][1].pc = "saveReply" /\ saved'[u] = <<"user">>
    BY DEF SavedInv
  <2>1. CASE u = t
    BY <2>1, <1>5 DEF d
  <2>2. CASE u # t
    BY <2>2, <1>4, <1>5 DEF RunInv, SavedInv
  <2> QED BY <2>1, <2>2
<1> QED BY <1>7, <1>9, <1>10, <1>11 DEF RunInv

LEMMA StartKeeps ==
  ASSUME RunTypes, RunInv, NEW t \in Run, NEW s \in Slug, Start(t, s), UNCHANGED loaded
  PROVE  RunTypes' /\ RunInv'
<1> DEFINE f == NewRun(s, "caller")
<1>1. /\ frames[t] = <<>> /\ outcome[t] = "none"
      /\ frames' = [frames EXCEPT ![t] = <<f>>] /\ UNCHANGED <<saved, outcome>>
  BY DEF Start
<1>2. f \in Frame /\ f.pc = "resolve" /\ f.offered = {} /\ f.via = "caller"
  BY EmptySeq DEF NewRun, Frame, FramePC
<1>3. saved[t] = <<>>
  BY <1>1, NothingSavedYet
<1> HIDE DEF f
<1>4. <<f>> \in Seq(Frame) /\ Len(<<f>>) = 1 /\ \A i \in 1 .. Len(<<f>>) : <<f>>[i] = f
  BY <1>2
<1>5. frames' \in [Run -> Seq(Frame)] /\ frames'[t] = <<f>> /\ \A u \in Run : u # t => frames'[u] = frames[u]
  BY <1>1, <1>4 DEF RunTypes
<1>6. RunTypes'
  BY <1>1, <1>5 DEF RunTypes
<1>7. OfferInv'
  <2>1. \A u \in Run : \A i \in 1 .. Len(frames'[u]) : FrameLoaded(frames'[u][i])
    <3> TAKE u \in Run
    <3>1. CASE u = t
      BY <3>1, <1>2, <1>4, <1>5 DEF FrameLoaded
    <3>2. CASE u # t
      BY <3>2, <1>5 DEF RunInv, OfferInv
    <3> QED BY <3>1, <3>2
  <2>2. InMap' = InMap
    BY DEF InMap
  <2> QED BY <2>1, <2>2 DEF OfferInv, FrameLoaded
<1>8. StackInv'
  <2> SUFFICES ASSUME NEW u \in Run
               PROVE  /\ \A i \in 1 .. Len(frames'[u]) : i < Len(frames'[u]) => frames'[u][i].pc = "dispatch"
                      /\ \A i \in 1 .. Len(frames'[u]) : frames'[u][i].pc \in Saving => Len(frames'[u]) = 1
                      /\ frames'[u] = <<>> \/ outcome'[u] = "none"
    BY DEF StackInv
  <2>1. CASE u = t
    BY <2>1, <1>1, <1>4, <1>5
  <2>2. CASE u # t
    <3>1. frames'[u] = frames[u] /\ outcome'[u] = outcome[u]
      BY <2>2, <1>1, <1>5
    <3> QED BY <3>1 DEF RunInv, StackInv
  <2> QED BY <2>1, <2>2
<1>9. SavedInv'
  <2> SUFFICES ASSUME NEW u \in Run
               PROVE  /\ saved'[u] \in {<<>>, <<"user">>, <<"assistant">>, <<"user", "assistant">>}
                      /\ saved'[u] # <<>> =>
                           \/ outcome'[u] = "done"
                           \/ Len(frames'[u]) = 1 /\ frames'[u][1].pc = "saveReply" /\ saved'[u] = <<"user">>
    BY DEF SavedInv
  <2>1. CASE u = t
    BY <2>1, <1>1, <1>3
  <2>2. CASE u # t
    BY <2>2, <1>1, <1>5 DEF RunInv, SavedInv
  <2> QED BY <2>1, <2>2
<1> QED BY <1>6, <1>7, <1>8, <1>9 DEF RunInv

LEMMA DelegateKeeps ==
  ASSUME RunTypes, RunInv, NEW t \in Run, Delegate(t), UNCHANGED loaded
  PROVE  RunTypes' /\ RunInv'
<1> DEFINE d == Depth(t)
           top == Top(t)
           s == Head(top.calls)
           below == [frames[t] EXCEPT ![d] = NextCall(top)]
           f == NewRun(s, IF s \in top.offered THEN "offer" ELSE "name")
<1>1. /\ frames[t] # <<>> /\ top.pc = "dispatch" /\ top.calls # <<>> /\ s \in top.subs
      /\ frames' = [frames EXCEPT ![t] = Append(below, f)] /\ UNCHANGED <<saved, outcome>>
  BY DEF Delegate, At
<1>2. /\ frames[t] \in Seq(Frame) /\ d = Len(frames[t]) /\ d \in Nat /\ d >= 1
      /\ d \in 1 .. Len(frames[t]) /\ top = frames[t][d] /\ top \in Frame
  BY <1>1, TopOf
<1>3. s \in Slug /\ top.calls \in Seq(Slug) /\ Tail(top.calls) \in Seq(Slug)
  <2>1. top.calls \in Seq(Slug) /\ top.subs \subseteq Slug
    BY <1>2 DEF Frame
  <2> QED BY <2>1, <1>1, HeadTailProperties
<1>4. /\ NextCall(top) \in Frame /\ NextCall(top).pc = "dispatch"
      /\ NextCall(top).offered = top.offered /\ NextCall(top).via = top.via
      /\ NextCall(top).agent = top.agent
  BY <1>1, <1>2, <1>3 DEF NextCall, Frame
<1>5. f \in Frame /\ f.pc = "resolve" /\ f.offered = {} /\ f.agent = s /\ (f.via = "offer" => s \in top.offered)
  BY <1>3, EmptySeq DEF NewRun, Frame, FramePC
<1>6. FrameLoaded(top)
  BY <1>2 DEF RunInv, OfferInv
<1>7. FrameLoaded(NextCall(top)) /\ FrameLoaded(f)
  BY <1>4, <1>5, <1>6 DEF FrameLoaded
<1>8. outcome[t] = "none"
  BY <1>1 DEF RunInv, StackInv
<1>9. saved[t] = <<>>
  BY <1>1, <1>8, NothingSavedYet
<1> HIDE DEF d, top, s, f
<1>10. below \in Seq(Frame) /\ Len(below) = d /\ \A j \in 1 .. d : below[j] = IF j = d THEN NextCall(top) ELSE frames[t][j]
  BY <1>2, <1>4, ExceptSeq
<1> HIDE DEF below
<1> DEFINE q == Append(below, f)
<1>11. q \in Seq(Frame) /\ Len(q) = d + 1 /\ q[d + 1] = f /\ \A j \in 1 .. d : q[j] = below[j]
  BY <1>5, <1>10, AppendProperties
<1> HIDE DEF q
<1>12. frames' \in [Run -> Seq(Frame)] /\ frames'[t] = q /\ \A u \in Run : u # t => frames'[u] = frames[u]
  BY <1>1, <1>11 DEF RunTypes, q
<1>13. \A j \in 1 .. d : FrameLoaded(frames[t][j]) /\ (j < d => frames[t][j].pc = "dispatch")
  BY <1>2 DEF RunInv, OfferInv, StackInv
<1>14. \A j \in 1 .. d : FrameLoaded(q[j]) /\ q[j].pc = "dispatch"
  <2> TAKE j \in 1 .. d
  <2>1. CASE j = d
    BY <2>1, <1>4, <1>7, <1>10, <1>11
  <2>2. CASE j # d
    BY <2>2, <1>2, <1>10, <1>11, <1>13
  <2> QED BY <2>1, <2>2
<1>15. \A j \in 1 .. d + 1 : j \in 1 .. d \/ j = d + 1
  BY <1>2
<1>16. RunTypes'
  BY <1>1, <1>8, <1>12 DEF RunTypes
<1>17. OfferInv'
  <2>1. \A u \in Run : \A i \in 1 .. Len(frames'[u]) : FrameLoaded(frames'[u][i])
    <3> TAKE u \in Run
    <3>1. CASE u = t
      BY <3>1, <1>7, <1>11, <1>12, <1>14, <1>15
    <3>2. CASE u # t
      BY <3>2, <1>12 DEF RunInv, OfferInv
    <3> QED BY <3>1, <3>2
  <2>2. InMap' = InMap
    BY DEF InMap
  <2> QED BY <2>1, <2>2 DEF OfferInv, FrameLoaded
<1>18. StackInv'
  <2> SUFFICES ASSUME NEW u \in Run
               PROVE  /\ \A i \in 1 .. Len(frames'[u]) : i < Len(frames'[u]) => frames'[u][i].pc = "dispatch"
                      /\ \A i \in 1 .. Len(frames'[u]) : frames'[u][i].pc \in Saving => Len(frames'[u]) = 1
                      /\ frames'[u] = <<>> \/ outcome'[u] = "none"
    BY DEF StackInv
  <2>1. CASE u = t
    <3>1. \A j \in 1 .. d + 1 : j < d + 1 => q[j].pc = "dispatch"
      BY <1>2, <1>14, <1>15
    <3>2. \A j \in 1 .. d + 1 : q[j].pc \notin Saving
      BY <1>5, <1>11, <1>14, <1>15 DEF Saving
    <3> QED BY <2>1, <3>1, <3>2, <1>1, <1>8, <1>11, <1>12
  <2>2. CASE u # t
    <3>1. frames'[u] = frames[u] /\ outcome'[u] = outcome[u]
      BY <2>2, <1>1, <1>12
    <3> QED BY <3>1 DEF RunInv, StackInv
  <2> QED BY <2>1, <2>2
<1>19. SavedInv'
  <2> SUFFICES ASSUME NEW u \in Run
               PROVE  /\ saved'[u] \in {<<>>, <<"user">>, <<"assistant">>, <<"user", "assistant">>}
                      /\ saved'[u] # <<>> =>
                           \/ outcome'[u] = "done"
                           \/ Len(frames'[u]) = 1 /\ frames'[u][1].pc = "saveReply" /\ saved'[u] = <<"user">>
    BY DEF SavedInv
  <2>1. CASE u = t
    BY <2>1, <1>1, <1>9
  <2>2. CASE u # t
    BY <2>2, <1>1, <1>12 DEF RunInv, SavedInv
  <2> QED BY <2>1, <2>2
<1> QED BY <1>16, <1>17, <1>18, <1>19 DEF RunInv

(***************************************************************************)
(* The steps of a run.                                                     *)
(***************************************************************************)
LEMMA TopStepKeeps ==
  ASSUME RunTypes, RunInv, NEW t \in Run, frames[t] # <<>>, Top(t).pc \notin Saving,
         NEW f \in Frame, TopSet(t, f), FrameLoaded(f), f.pc \in Saving => Depth(t) = 1,
         UNCHANGED <<loadVars, saved, outcome>>
  PROVE  RunTypes' /\ RunInv'
<1>1. outcome[t] = "none"
  BY DEF RunInv, StackInv
<1>2. saved[t] = <<>>
  BY <1>1, NothingSavedYet DEF Saving
<1>3. saved' \in [Run -> Seq({"user", "assistant"})] /\ saved' = saved /\ UNCHANGED <<loaded, outcome>>
  BY DEF RunTypes, loadVars
<1> QED BY <1>2, <1>3, TopSetKeeps

LEMMA EndStepKeeps ==
  ASSUME RunTypes, RunInv, NEW t \in Run, frames[t] # <<>>, Top(t).pc # "saveReply",
         NEW last \in {"error", "done"}, EndRun(t, last), UNCHANGED <<loadVars, saved>>
  PROVE  RunTypes' /\ RunInv'
<1>1. outcome[t] = "none"
  BY DEF RunInv, StackInv
<1>2. saved[t] = <<>>
  BY <1>1, NothingSavedYet
<1>3. saved' \in [Run -> Seq({"user", "assistant"})] /\ saved' = saved /\ UNCHANGED loaded
  BY DEF RunTypes, loadVars
<1> QED BY <1>2, <1>3, EndRunKeeps

\* What is common to the frames a step may start from.
LEMMA TopLoaded ==
  ASSUME RunTypes, RunInv, NEW t \in Run, NEW p, At(t, p)
  PROVE  frames[t] # <<>> /\ Top(t).pc = p /\ Top(t) \in Frame /\ FrameLoaded(Top(t))
<1>1. frames[t] # <<>> /\ Top(t).pc = p
  BY DEF At
<1>2. Depth(t) \in 1 .. Len(frames[t]) /\ Top(t) = frames[t][Depth(t)] /\ Top(t) \in Frame
  BY <1>1, TopOf
<1> QED BY <1>1, <1>2 DEF RunInv, OfferInv

LEMMA FinishKeeps ==
  ASSUME RunTypes, RunInv, NEW t \in Run, At(t, "loop"), NEW g \in Frame, FrameLoaded(g),
         Finish(t, g), UNCHANGED <<loadVars, saved>>
  PROVE  RunTypes' /\ RunInv'
<1>1. frames[t] # <<>> /\ Top(t).pc = "loop" /\ Top(t) \in Frame /\ FrameLoaded(Top(t))
  BY TopLoaded
<1> DEFINE f == [g EXCEPT !.pc = "saveUser"]
<1>2. f \in Frame /\ f.pc = "saveUser" /\ f.offered = g.offered /\ f.via = g.via /\ f.agent = g.agent
  BY <1>1 DEF Frame, FramePC
<1>3. FrameLoaded(f)
  BY <1>1, <1>2 DEF FrameLoaded
<1>4. CASE Depth(t) = 1
  <2>1. TopSet(t, f) /\ UNCHANGED outcome
    BY <1>4 DEF Finish
  <2> QED BY <2>1, <1>1, <1>2, <1>3, <1>4, TopStepKeeps DEF Saving
<1>5. CASE Depth(t) # 1
  <2>1. EndRun(t, "done")
    BY <1>5 DEF Finish
  <2> QED BY <2>1, <1>1, EndStepKeeps
<1> QED BY <1>4, <1>5

LEMMA ResolveLoadedKeeps ==
  ASSUME LoadTypes, RunTypes, RunInv, NEW t \in Run, ResolveLoaded(t)
  PROVE  RunTypes' /\ RunInv'
<1> DEFINE f == [Top(t) EXCEPT !.pc = "setup", !.subs = loaded[Top(t).agent].subs]
<1>1. At(t, "resolve") /\ TopSet(t, f) /\ UNCHANGED <<loadVars, saved, outcome>>
  BY DEF ResolveLoaded
<1>2. frames[t] # <<>> /\ Top(t).pc = "resolve" /\ Top(t) \in Frame /\ FrameLoaded(Top(t))
  BY <1>1, TopLoaded
<1>3. f \in Frame /\ f.pc = "setup" /\ f.offered = Top(t).offered /\ f.via = Top(t).via /\ f.agent = Top(t).agent
  <2>1. loaded[Top(t).agent].subs \in SUBSET Slug
    BY <1>2 DEF LoadTypes, Agent, Frame
  <2> QED BY <1>2, <2>1 DEF Frame, FramePC
<1> QED BY <1>1, <1>2, <1>3, TopStepKeeps DEF FrameLoaded, Saving

LEMMA MoveKeeps ==
  ASSUME RunTypes, RunInv, NEW t \in Run, NEW p \in {"resolve", "setup"}, At(t, p),
         NEW q \in {"setup", "offer"}, TopSet(t, [Top(t) EXCEPT !.pc = q]),
         UNCHANGED <<loadVars, saved, outcome>>
  PROVE  RunTypes' /\ RunInv'
<1> DEFINE f == [Top(t) EXCEPT !.pc = q]
<1>1. frames[t] # <<>> /\ Top(t).pc = p /\ Top(t) \in Frame /\ FrameLoaded(Top(t))
  BY TopLoaded
<1>2. f \in Frame /\ f.pc = q /\ f.offered = Top(t).offered /\ f.via = Top(t).via /\ f.agent = Top(t).agent
  BY <1>1 DEF Frame, FramePC
<1> QED BY <1>1, <1>2, TopStepKeeps DEF FrameLoaded, Saving

LEMMA OfferKeeps ==
  ASSUME RunTypes, RunInv, NEW t \in Run, Offer(t)
  PROVE  RunTypes' /\ RunInv'
<1> DEFINE f == [Top(t) EXCEPT !.pc = "loop", !.offered = Top(t).subs \cap InMap]
<1>1. At(t, "offer") /\ TopSet(t, f) /\ UNCHANGED <<loadVars, saved, outcome>>
  BY DEF Offer
<1>2. frames[t] # <<>> /\ Top(t).pc = "offer" /\ Top(t) \in Frame /\ FrameLoaded(Top(t))
  BY <1>1, TopLoaded
<1>3. /\ f \in Frame /\ f.pc = "loop" /\ f.offered = Top(t).subs \cap InMap
      /\ f.via = Top(t).via /\ f.agent = Top(t).agent
  BY <1>2 DEF Frame, FramePC
<1> QED BY <1>1, <1>2, <1>3, TopStepKeeps DEF FrameLoaded, Saving

LEMMA CallToolKeeps ==
  ASSUME RunTypes, RunInv, NEW t \in Run, CallTool(t)
  PROVE  RunTypes' /\ RunInv'
<1>1. PICK n \in 1 .. MaxCalls : \E calls \in [1 .. n -> Slug] :
        TopSet(t, [Top(t) EXCEPT !.pc = "dispatch", !.calls = calls])
  BY DEF CallTool
<1>2. PICK calls \in [1 .. n -> Slug] : TopSet(t, [Top(t) EXCEPT !.pc = "dispatch", !.calls = calls])
  BY <1>1
<1> DEFINE f == [Top(t) EXCEPT !.pc = "dispatch", !.calls = calls]
<1>3. At(t, "loop") /\ UNCHANGED <<loadVars, saved, outcome>>
  BY DEF CallTool
<1>4. frames[t] # <<>> /\ Top(t).pc = "loop" /\ Top(t) \in Frame /\ FrameLoaded(Top(t))
  BY <1>3, TopLoaded
<1>5. calls \in Seq(Slug)
  <2>1. n \in Nat
    BY BoundsAreNumbers
  <2> QED BY <2>1, IsASeq
<1>6. /\ f \in Frame /\ f.pc = "dispatch" /\ f.offered = Top(t).offered
      /\ f.via = Top(t).via /\ f.agent = Top(t).agent
  BY <1>4, <1>5 DEF Frame, FramePC
<1> QED BY <1>2, <1>3, <1>4, <1>6, TopStepKeeps DEF FrameLoaded, Saving

LEMMA ExecuteKeeps ==
  ASSUME RunTypes, RunInv, NEW t \in Run, Execute(t)
  PROVE  RunTypes' /\ RunInv'
<1> DEFINE f == NextCall(Top(t))
<1>1. At(t, "dispatch") /\ Top(t).calls # <<>> /\ TopSet(t, f) /\ UNCHANGED <<loadVars, saved, outcome>>
  BY DEF Execute
<1>2. frames[t] # <<>> /\ Top(t).pc = "dispatch" /\ Top(t) \in Frame /\ FrameLoaded(Top(t))
  BY <1>1, TopLoaded
<1>3. Top(t).calls \in Seq(Slug) /\ Tail(Top(t).calls) \in Seq(Slug)
  <2>1. Top(t).calls \in Seq(Slug)
    BY <1>2 DEF Frame
  <2> QED BY <2>1, <1>1, HeadTailProperties
<1>4. /\ f \in Frame /\ f.pc = "dispatch" /\ f.offered = Top(t).offered
      /\ f.via = Top(t).via /\ f.agent = Top(t).agent
  BY <1>2, <1>3 DEF Frame, NextCall
<1> HIDE DEF f
<1> QED BY <1>1, <1>2, <1>4, TopStepKeeps DEF FrameLoaded, Saving

LEMMA IterateKeeps ==
  ASSUME RunTypes, RunInv, NEW t \in Run, Iterate(t)
  PROVE  RunTypes' /\ RunInv'
<1> DEFINE f == [Top(t) EXCEPT !.pc = "loop", !.iter = @ + 1]
<1>1. At(t, "dispatch") /\ TopSet(t, f) /\ UNCHANGED <<loadVars, saved, outcome>>
  BY DEF Iterate
<1>2. frames[t] # <<>> /\ Top(t).pc = "dispatch" /\ Top(t) \in Frame /\ FrameLoaded(Top(t))
  BY <1>1, TopLoaded
<1>3. /\ f \in Frame /\ f.pc = "loop" /\ f.offered = Top(t).offered
      /\ f.via = Top(t).via /\ f.agent = Top(t).agent
  <2>1. Top(t).iter \in Nat /\ Top(t).iter + 1 \in Nat
    BY <1>2 DEF Frame
  <2> DEFINE i == Top(t).iter + 1
  <2>2. i \in Nat /\ f = [Top(t) EXCEPT !.pc = "loop", !.iter = i]
    BY <2>1
  <2> HIDE DEF i
  <2> QED BY <2>2, <1>2, Zenon DEF Frame, FramePC
<1> HIDE DEF f
<1> QED BY <1>1, <1>2, <1>3, TopStepKeeps DEF FrameLoaded, Saving

LEMMA SaveUserKeeps ==
  ASSUME RunTypes, RunInv, NEW t \in Run, SaveUser(t)
  PROVE  RunTypes' /\ RunInv'
<1> DEFINE f == [Top(t) EXCEPT !.pc = "saveReply"]
<1>1. At(t, "saveUser") /\ Insert(t, "user") /\ TopSet(t, f) /\ UNCHANGED <<loadVars, outcome>>
  BY DEF SaveUser
<1>2. frames[t] # <<>> /\ Top(t).pc = "saveUser" /\ Top(t) \in Frame /\ FrameLoaded(Top(t))
  BY <1>1, TopLoaded
<1>3. /\ f \in Frame /\ f.pc = "saveReply" /\ f.offered = Top(t).offered
      /\ f.via = Top(t).via /\ f.agent = Top(t).agent
  BY <1>2 DEF Frame, FramePC
<1>4. FrameLoaded(f)
  BY <1>2, <1>3 DEF FrameLoaded
<1>5. Depth(t) = 1
  <2>1. Depth(t) \in 1 .. Len(frames[t]) /\ Depth(t) = Len(frames[t]) /\ Top(t) = frames[t][Depth(t)]
    BY <1>2, TopOf
  <2> QED BY <2>1, <1>2 DEF RunInv, StackInv, Saving
<1>6. saved[t] = <<>>
  <2>1. outcome[t] = "none"
    BY <1>2 DEF RunInv, StackInv
  <2> QED BY <2>1, <1>2, NothingSavedYet
<1>7. /\ saved' \in [Run -> Seq({"user", "assistant"})]
      /\ \A u \in Run : u # t => saved'[u] = saved[u]
      /\ saved'[t] = <<>> \/ saved'[t] = <<"user">>
  <2>1. CASE saved' = [saved EXCEPT ![t] = Append(@, "user")]
    <3>1. Append(saved[t], "user") \in Seq({"user", "assistant"})
      BY AppendProperties DEF RunTypes
    <3>2. Append(saved[t], "user") = <<"user">>
      BY <1>6
    <3> QED BY <2>1, <3>1, <3>2 DEF RunTypes
  <2>2. CASE saved' = saved
    BY <2>2, <1>6 DEF RunTypes
  <2> QED BY <2>1, <2>2, <1>1 DEF Insert
<1>8. UNCHANGED <<loaded, outcome>>
  BY <1>1 DEF loadVars
<1> HIDE DEF f
<1> QED BY <1>1, <1>2, <1>3, <1>4, <1>5, <1>7, <1>8, TopSetKeeps

(* Appending to a sequence of one. *)
LEMMA AppendToOne ==
  ASSUME NEW S, NEW a \in S, NEW b \in S
  PROVE  Append(<<a>>, b) = <<a, b>>
<1> DEFINE q == <<a>>
           r == Append(q, b)
<1>1. q \in Seq(S) /\ Len(q) = 1 /\ q[1] = a
  OBVIOUS
<1> HIDE DEF q
<1>2. 1 \in 1 .. Len(q)
  BY <1>1
<1>3. r \in Seq(S) /\ Len(r) = 2 /\ r[2] = b
  <2>1. r \in Seq(S) /\ Len(r) = Len(q) + 1 /\ r[Len(q) + 1] = b
    BY <1>1, AppendProperties
  <2> HIDE DEF r
  <2>2. Len(q) + 1 = 2
    BY <1>1
  <2> QED BY <2>1, <2>2
<1>4. r[1] = q[1]
  BY <1>1, <1>2, AppendProperties
<1> HIDE DEF r
<1>5. <<a, b>> \in Seq(S) /\ Len(<<a, b>>) = 2 /\ <<a, b>>[1] = a /\ <<a, b>>[2] = b
  OBVIOUS
<1>6. \A i \in 1 .. Len(r) : r[i] = <<a, b>>[i]
  BY <1>1, <1>3, <1>4, <1>5
<1>7. r = <<a, b>>
  BY <1>3, <1>5, <1>6, SeqEqual
<1> QED BY <1>7 DEF r, q

LEMMA SaveReplyKeeps ==
  ASSUME RunTypes, RunInv, NEW t \in Run, SaveReply(t)
  PROVE  RunTypes' /\ RunInv'
<1>1. /\ At(t, "saveReply") /\ EndRun(t, "done") /\ UNCHANGED loadVars
      /\ saved' = [saved EXCEPT ![t] = Append(@, "assistant")] \/ saved' = saved
  BY DEF SaveReply, Insert
<1>2. frames[t] # <<>> /\ Top(t).pc = "saveReply"
  BY <1>1 DEF At
<1>3. Depth(t) = 1
  <2>1. Depth(t) \in 1 .. Len(frames[t]) /\ Depth(t) = Len(frames[t]) /\ Top(t) = frames[t][Depth(t)]
    BY <1>2, TopOf
  <2> QED BY <2>1, <1>2 DEF RunInv, StackInv, Saving
<1>4. outcome[t] = "none"
  BY <1>2 DEF RunInv, StackInv
<1>5. saved[t] = <<>> \/ saved[t] = <<"user">>
  BY <1>4 DEF RunInv, SavedInv
<1>6. /\ saved' \in [Run -> Seq({"user", "assistant"})]
      /\ \A u \in Run : u # t => saved'[u] = saved[u]
      /\ saved'[t] \in {<<>>, <<"user">>, <<"assistant">>, <<"user", "assistant">>}
  <2>1. CASE saved' = [saved EXCEPT ![t] = Append(@, "assistant")]
    <3>1. Append(saved[t], "assistant") \in Seq({"user", "assistant"})
      BY AppendProperties DEF RunTypes
    <3>2. Append(saved[t], "assistant") \in {<<"assistant">>, <<"user", "assistant">>}
      <4>1. CASE saved[t] = <<>>
        BY <4>1
      <4>2. CASE saved[t] = <<"user">>
        <5>1. Append(<<"user">>, "assistant") = <<"user", "assistant">>
          <6> DEFINE S == {"user", "assistant"}
          <6>1. "user" \in S /\ "assistant" \in S
            OBVIOUS
          <6> HIDE DEF S
          <6> QED BY <6>1, AppendToOne
        <5> QED BY <4>2, <5>1
      <4> QED BY <1>5, <4>1, <4>2
    <3> QED BY <2>1, <3>1, <3>2 DEF RunTypes
  <2>2. CASE saved' = saved
    BY <2>2, <1>5 DEF RunTypes
  <2> QED BY <2>1, <2>2, <1>1
<1>7. UNCHANGED loaded
  BY <1>1 DEF loadVars
<1> QED BY <1>1, <1>2, <1>3, <1>6, <1>7, EndRunKeeps

LEMMA RunStepKeeps ==
  ASSUME LoadTypes, RunTypes, RunInv, NEW t \in Run, RunStep(t)
  PROVE  RunTypes' /\ RunInv' /\ UNCHANGED storeVars /\ UNCHANGED loadVars
<1>1. UNCHANGED storeVars /\ UNCHANGED loadVars
  BY DEF RunStep, ResolveLoaded, ResolvePrompt, NotFound, SetUp, SetUpFails, Offer, Exhausted,
         LoopErrs, Answer, CallTool, Delegate, Execute, Iterate, SaveUser, SaveReply, Errs
<1>2. UNCHANGED loaded
  BY <1>1 DEF loadVars
<1>3. ASSUME NEW p \in {"resolve", "setup", "loop"}, At(t, p), Errs(t)
      PROVE  RunTypes' /\ RunInv'
  <2>1. frames[t] # <<>> /\ Top(t).pc # "saveReply"
    BY <1>3, TopLoaded
  <2> QED BY <1>3, <2>1, EndStepKeeps DEF Errs
<1>4. CASE ResolveLoaded(t)
  BY <1>1, <1>4, ResolveLoadedKeeps
<1>5. CASE ResolvePrompt(t)
  BY <1>1, <1>5, MoveKeeps DEF ResolvePrompt
<1>6. CASE NotFound(t)
  BY <1>1, <1>3, <1>6 DEF NotFound
<1>7. CASE SetUp(t)
  BY <1>1, <1>7, MoveKeeps DEF SetUp
<1>8. CASE SetUpFails(t)
  BY <1>1, <1>3, <1>8 DEF SetUpFails
<1>9. CASE Offer(t)
  BY <1>1, <1>9, OfferKeeps
<1>10. CASE Exhausted(t)
  <2>1. At(t, "loop") /\ Finish(t, Top(t)) /\ UNCHANGED saved
    BY <1>10 DEF Exhausted
  <2>2. Top(t) \in Frame /\ FrameLoaded(Top(t))
    BY <2>1, TopLoaded
  <2> QED BY <1>1, <2>1, <2>2, FinishKeeps
<1>11. CASE LoopErrs(t)
  BY <1>1, <1>3, <1>11 DEF LoopErrs
<1>12. CASE Answer(t)
  <2>1. At(t, "loop") /\ UNCHANGED saved
    BY <1>12 DEF Answer
  <2>2. PICK b \in {"none", "text"} : Finish(t, [Top(t) EXCEPT !.reply = b])
    BY <1>12 DEF Answer
  <2> DEFINE g == [Top(t) EXCEPT !.reply = b]
  <2>3. Top(t) \in Frame /\ FrameLoaded(Top(t))
    BY <2>1, TopLoaded
  <2>4. g \in Frame /\ g.offered = Top(t).offered /\ g.via = Top(t).via /\ g.agent = Top(t).agent
    BY <2>3 DEF Frame
  <2>5. FrameLoaded(g)
    BY <2>3, <2>4 DEF FrameLoaded
  <2> HIDE DEF g
  <2>6. Finish(t, g)
    BY <2>2 DEF g
  <2> QED BY <1>1, <2>1, <2>4, <2>5, <2>6, FinishKeeps
<1>13. CASE CallTool(t)
  BY <1>1, <1>13, CallToolKeeps
<1>14. CASE Delegate(t)
  BY <1>1, <1>2, <1>14, DelegateKeeps
<1>15. CASE Execute(t)
  BY <1>1, <1>15, ExecuteKeeps
<1>16. CASE Iterate(t)
  BY <1>1, <1>16, IterateKeeps
<1>17. CASE SaveUser(t)
  BY <1>1, <1>17, SaveUserKeeps
<1>18. CASE SaveReply(t)
  BY <1>1, <1>18, SaveReplyKeeps
<1> QED BY <1>4, <1>5, <1>6, <1>7, <1>8, <1>9, <1>10, <1>11, <1>12, <1>13, <1>14, <1>15, <1>16,
           <1>17, <1>18 DEF RunStep

(***************************************************************************)
(* One step, of anyone.                                                    *)
(***************************************************************************)
OlderPrompt(s) ==
  /\ loaded'[s].prompt # 0 /\ loaded'[s].names = loaded[s].names
  /\ ~ (loaded'[s].prompt >= loaded[s].prompt)

\* A step of a load keeps the runs' side, and a prompt only gets newer.
LEMMA LoadStepKeeps ==
  ASSUME RunnerInv, NEW l \in Load, LoadStep(l)
  PROVE  RunnerInv' /\ \A s \in Slug : ~ OlderPrompt(s)
<1>1. LoadTypes /\ RunTypes /\ LoadInv /\ RunInv
  BY TypesSplit DEF RunnerInv
<1>2. UNCHANGED runVars
  BY DEF LoadStep, List, ListFails, Lock, Register, PassOver, Unlock
<1>3. \A s \in Slug : loaded[s].prompt \in Nat
  BY <1>1 DEF LoadTypes, Agent
<1>4. CASE Register(l)
  <2>1. /\ LoadTypes' /\ LoadInv' /\ InMap \subseteq InMap'
        /\ \A s \in Slug :
             loaded'[s].prompt # 0 /\ loaded'[s].names = loaded[s].names
               => loaded'[s].prompt >= loaded[s].prompt
    BY <1>1, <1>4, RegisterInv
  <2>2. RunTypes' /\ RunInv'
    BY <1>1, <1>2, <2>1, RunSideUnchanged
  <2>3. TypeOK'
    BY <2>1, <2>2, NextTypes
  <2> QED BY <2>1, <2>2, <2>3 DEF RunnerInv, OlderPrompt
<1>5. CASE ~ Register(l)
  <2>1. UNCHANGED loaded
    BY <1>5 DEF LoadStep, List, ListFails, Lock, PassOver, Unlock
  <2>2. LoadTypes' /\ LoadInv' /\ InMap' = InMap
    BY <1>1, <1>5, ListInv, ListFailsInv, LockStepInv, PassOverInv, UnlockInv DEF LoadStep
  <2>3. RunTypes' /\ RunInv'
    BY <1>1, <1>2, <2>2, RunSideUnchanged
  <2>4. TypeOK'
    BY <2>2, <2>3, NextTypes
  <2>5. \A s \in Slug : ~ OlderPrompt(s)
    BY <2>1, <1>3 DEF OlderPrompt
  <2> QED BY <2>2, <2>3, <2>4, <2>5 DEF RunnerInv
<1> QED BY <1>4, <1>5

\* A step that leaves the loads' side alone.
LEMMA LoadsUntouched ==
  ASSUME RunnerInv, UNCHANGED storeVars, UNCHANGED loadVars, RunTypes' /\ RunInv'
  PROVE  RunnerInv' /\ \A s \in Slug : ~ OlderPrompt(s)
<1>1. LoadTypes /\ LoadInv
  BY TypesSplit DEF RunnerInv
<1>2. LoadTypes' /\ LoadInv'
  BY <1>1, LoadSideUnchanged
<1>3. TypeOK'
  BY <1>2, NextTypes
<1>4. \A s \in Slug : loaded[s].prompt \in Nat /\ loaded'[s].prompt = loaded[s].prompt
  BY <1>1 DEF LoadTypes, Agent, loadVars
<1>5. \A s \in Slug : ~ OlderPrompt(s)
  BY <1>4 DEF OlderPrompt
<1> QED BY <1>2, <1>3, <1>5 DEF RunnerInv

LEMMA StepKeeps ==
  ASSUME RunnerInv, [Next]_vars
  PROVE  RunnerInv' /\ \A s \in Slug : ~ OlderPrompt(s)
<1>1. LoadTypes /\ RunTypes /\ LoadInv /\ RunInv
  BY TypesSplit DEF RunnerInv
<1>2. CASE Edit
  <2>1. LoadTypes' /\ LoadInv' /\ InMap' = InMap
    BY <1>1, <1>2, EditInv
  <2>2. UNCHANGED runVars /\ UNCHANGED loaded
    BY <1>2 DEF Edit, loadVars
  <2>3. RunTypes' /\ RunInv'
    BY <1>1, <2>1, <2>2, RunSideUnchanged
  <2>4. TypeOK'
    BY <2>1, <2>3, NextTypes
  <2>5. \A s \in Slug : loaded[s].prompt \in Nat
    BY <1>1 DEF LoadTypes, Agent
  <2>6. \A s \in Slug : ~ OlderPrompt(s)
    BY <2>2, <2>5 DEF OlderPrompt
  <2> QED BY <2>1, <2>3, <2>4, <2>6 DEF RunnerInv
<1>3. ASSUME NEW l \in Load, LoadStep(l)
      PROVE  RunnerInv' /\ \A s \in Slug : ~ OlderPrompt(s)
  BY <1>3, LoadStepKeeps
<1>4. ASSUME NEW t \in Run, NEW s \in Slug, Start(t, s)
      PROVE  RunnerInv' /\ \A z \in Slug : ~ OlderPrompt(z)
  <2>1. UNCHANGED storeVars /\ UNCHANGED loadVars /\ UNCHANGED loaded
    BY <1>4 DEF Start, loadVars
  <2>2. RunTypes' /\ RunInv'
    BY <1>1, <1>4, <2>1, StartKeeps
  <2> QED BY <2>1, <2>2, LoadsUntouched
<1>5. ASSUME NEW t \in Run, RunStep(t)
      PROVE  RunnerInv' /\ \A s \in Slug : ~ OlderPrompt(s)
  <2>1. RunTypes' /\ RunInv' /\ UNCHANGED storeVars /\ UNCHANGED loadVars
    BY <1>1, <1>5, RunStepKeeps
  <2> QED BY <2>1, LoadsUntouched
<1>6. CASE UNCHANGED vars
  <2>1. UNCHANGED storeVars /\ UNCHANGED loadVars /\ UNCHANGED runVars
    BY <1>6 DEF vars
  <2>2. InMap' = InMap
    BY <2>1 DEF loadVars, InMap
  <2>3. RunTypes' /\ RunInv'
    BY <1>1, <2>1, <2>2, RunSideUnchanged
  <2> QED BY <2>1, <2>3, LoadsUntouched
<1> QED BY <1>2, <1>3, <1>4, <1>5, <1>6 DEF Next

(***************************************************************************)
(* The theorems.                                                           *)
(***************************************************************************)

\* Every reachable state satisfies the inductive invariant.
THEOREM RunnerInvariant == Spec => []RunnerInv
<1>1. RunnerInv /\ [Next]_vars => RunnerInv'
  BY StepKeeps
<1> QED BY InitInv, <1>1, PTL DEF Spec

\* The variables keep their types, the lock is held by the load that is inside
\* it, and a caller that was answered has no run left.
THEOREM RunnerTypeCorrect == Spec => []TypeOK
<1>1. RunnerInv => TypeOK
  BY DEF RunnerInv
<1> QED BY RunnerInvariant, <1>1, PTL

\* buildAgentTools and executeAgent look a sub-agent up at different times: one
\* that was offered is in the map from then on, whatever is loaded meanwhile.
THEOREM OfferedAgentsRun == Spec => []OfferedCanRun
<1>1. RunnerInv => OfferedCanRun
  <2> SUFFICES ASSUME RunnerInv, NEW t \in Run, NEW i \in DOMAIN frames[t]
               PROVE  FrameLoaded(frames[t][i])
    BY DEF OfferedCanRun, FrameLoaded
  <2>1. frames[t] \in Seq(Frame)
    BY DEF RunnerInv, TypeOK
  <2>2. i \in 1 .. Len(frames[t])
    BY <2>1, LenProperties
  <2> QED BY <2>2 DEF RunnerInv, RunInv, OfferInv
<1> QED BY RunnerInvariant, <1>1, PTL

\* LoadAgents on its own leaves the definitions that were served when it began,
\* and their prompts no older, though it reads the list, and then each prompt,
\* at times of its own.
THEOREM LoneLoadsAreFresh == Spec => []LoneLoadIsFresh
<1>1. RunnerInv => LoneLoadIsFresh
  BY DEF RunnerInv, LoadInv, FreshInv, LoneLoadIsFresh, Pending, Registered, Loading
<1> QED BY RunnerInvariant, <1>1, PTL

\* persistExchange is reached by the caller's run only, at its end.
THEOREM OnlyTopRunStores == Spec => []StoredByTopRun
<1>1. RunnerInv => StoredByTopRun
  BY DEF RunnerInv, RunInv, SavedInv, StoredByTopRun, Depth, Top
<1> QED BY RunnerInvariant, <1>1, PTL

\* The version of a prompt is read under the lock, so that overlapping loads
\* never bring back an older one of the prompt an agent has; an older definition
\* they may bring back, with the prompt that one names.
THEOREM PromptsOnlyGetNewer == Spec => PromptsNeverOlder
<1>1. RunnerInv /\ [Next]_vars
        => [\A s \in Slug :
              loaded'[s].prompt # 0 /\ loaded'[s].names = loaded[s].names
                => loaded'[s].prompt >= loaded[s].prompt]_vars
  BY StepKeeps DEF OlderPrompt
<1> QED BY RunnerInvariant, <1>1, PTL DEF Spec, PromptsNeverOlder
==============================================================================
