------------------------ MODULE PlaygroundSharedProofs ------------------------
(***************************************************************************)
(* Proofs about what the requests of the playground share: its stores, for *)
(* any number of visitors and ids and any quota, time to live and cleanup  *)
(* period; the conversations and tool calls of any number of requests, for *)
(* any window.                                                             *)
(***************************************************************************)
EXTENDS PlaygroundChat, FiniteSetTheorems, SequenceTheorems, TLAPS

-------------------------------------------------------------------------------
(* The stores (PlaygroundStore). *)

(* A call that adds an entry keeps the invariant: the id is fresh, so it   *)
(* enters the map and one list of the index at the same time, and the list *)
(* had room for it.                                                        *)
LEMMA CreateKeeps ==
  ASSUME StoreInv, NEW v \in Visitor, Create(v)
  PROVE  StoreInv'
<1> USE StoreAssumption DEF StoreInv
<1>1. PICK id \in Id \ issued :
        /\ entries' = [x \in Live \cup {id} |-> IF x = id THEN Renewed(v) ELSE entries[x]]
        /\ index' = [index EXCEPT ![v] = @ \cup {id}]
        /\ issued' = issued \cup {id}
  BY DEF Create
<1>2. Cardinality(index[v]) < Quota /\ UNCHANGED <<now, nextSweep, sweeper>>
  BY DEF Create
<1>3. Live' = Live \cup {id} /\ id \notin Live
  BY <1>1 DEF Live, TypeOK
<1>4. Renewed(v) \in Entry
  BY DEF Renewed, Entry, TypeOK
<1>5. TypeOK'
  BY <1>1, <1>2, <1>3, <1>4 DEF TypeOK, Live
<1>6. \A x \in Live : entries'[x] = entries[x]
  BY <1>1, <1>3
<1>7. entries'[id] = Renewed(v)
  BY <1>1
<1>8. IndexExact'
  <2> SUFFICES ASSUME NEW u \in Visitor PROVE index'[u] = OwnedBy(u)'
    BY DEF IndexExact
  <2>1. index[u] = OwnedBy(u)
    BY DEF IndexExact
  <2>2. CASE u = v
    <3>1. index'[u] = index[u] \cup {id}
      BY <1>1, <2>2 DEF TypeOK
    <3>2. OwnedBy(u)' = OwnedBy(u) \cup {id}
      BY <1>3, <1>6, <1>7, <2>2 DEF OwnedBy, Renewed
    <3> QED BY <2>1, <3>1, <3>2
  <2>3. CASE u # v
    <3>1. index'[u] = index[u]
      BY <1>1, <2>3 DEF TypeOK
    <3>2. OwnedBy(u)' = OwnedBy(u)
      BY <1>3, <1>6, <1>7, <2>3 DEF OwnedBy, Renewed
    <3> QED BY <2>1, <3>1, <3>2
  <2> QED BY <2>2, <2>3
<1>9. IndexFinite'
  <2> SUFFICES ASSUME NEW u \in Visitor
               PROVE IsFiniteSet(index'[u]) /\ Cardinality(index'[u]) <= Quota
    BY DEF IndexFinite
  <2>1. IsFiniteSet(index[u]) /\ Cardinality(index[u]) <= Quota
    BY DEF IndexFinite
  <2>2. CASE u = v
    <3>1. index'[u] = index[u] \cup {id}
      BY <1>1, <2>2 DEF TypeOK
    <3>2. id \notin index[u]
      BY <1>3 DEF IndexExact, OwnedBy
    <3>3. /\ IsFiniteSet(index[u] \cup {id})
          /\ Cardinality(index[u] \cup {id}) = Cardinality(index[u]) + 1
      BY <2>1, <3>2, FS_AddElement
    <3>4. Cardinality(index[u]) \in Nat
      BY <2>1, FS_CardinalityType
    <3> QED BY <1>2, <2>2, <3>1, <3>3, <3>4
  <2>3. CASE u # v
    BY <1>1, <2>1, <2>3 DEF TypeOK
  <2> QED BY <2>2, <2>3
<1>10. TimesInv'
  <2>1. \A x \in Live' : entries'[x].expires <= now + TTL
    BY <1>3, <1>6, <1>7 DEF TimesInv, Renewed, TypeOK
  <2>2. ASSUME sweeper # "off", NEW x \in Live'
        PROVE  nextSweep <= entries'[x].expires + Every
    <3>1. CASE x = id
      <4>1. nextSweep <= now + Every
        BY <2>2 DEF TimesInv
      <4>2. entries'[x].expires = now + TTL
        BY <1>7, <3>1 DEF Renewed
      <4> QED BY <4>1, <4>2 DEF TypeOK
    <3>2. CASE x # id
      BY <1>3, <1>6, <2>2, <3>2 DEF TimesInv
    <3> QED BY <3>1, <3>2
  <2> QED BY <1>2, <2>1, <2>2 DEF TimesInv
<1> QED BY <1>5, <1>8, <1>9, <1>10

(* Renewing a live entry for the owner it has keeps the invariant. *)
LEMMA RenewKeeps ==
  ASSUME StoreInv, NEW id \in Live,
         entries' = [entries EXCEPT ![id] = Renewed(entries[id].owner)],
         UNCHANGED <<index, issued, now, nextSweep, sweeper>>
  PROVE  StoreInv'
<1> USE StoreAssumption DEF StoreInv
<1>1. Live' = Live
  BY DEF Live, TypeOK
<1>2. \A x \in Live : entries'[x].owner = entries[x].owner
  BY DEF Live, TypeOK, Renewed
<1>3. \A x \in Live : entries'[x] = IF x = id THEN Renewed(entries[id].owner) ELSE entries[x]
  BY DEF Live, TypeOK
<1>4. TypeOK'
  <2>1. entries[id].owner \in Visitor
    BY DEF TypeOK, Entry
  <2>2. Renewed(entries[id].owner) \in Entry
    BY <2>1 DEF Renewed, Entry, TypeOK
  <2>3. entries' \in [Live' -> Entry]
    BY <1>1, <2>2 DEF TypeOK
  <2> QED BY <1>1, <2>3 DEF TypeOK
<1>5. IndexExact'
  <2>1. ASSUME NEW u \in Visitor PROVE OwnedBy(u)' = OwnedBy(u)
    BY <1>1, <1>2 DEF OwnedBy
  <2> QED BY <2>1 DEF IndexExact
<1>6. IndexFinite'
  BY DEF IndexFinite
<1>7. TimesInv'
  <2>1. \A x \in Live : entries'[x].expires <= now + TTL
    BY <1>3 DEF TimesInv, Renewed, TypeOK
  <2>2. ASSUME sweeper # "off", NEW x \in Live
        PROVE  nextSweep <= entries'[x].expires + Every
    <3>1. CASE x = id
      <4>1. nextSweep <= now + Every
        BY <2>2 DEF TimesInv
      <4>2. entries'[x].expires = now + TTL
        BY <1>3, <3>1 DEF Renewed
      <4> QED BY <4>1, <4>2 DEF TypeOK
    <3>2. CASE x # id
      BY <1>3, <2>2, <3>2 DEF TimesInv
    <3> QED BY <3>1, <3>2
  <2> QED BY <1>1, <2>1, <2>2 DEF TimesInv
<1> QED BY <1>4, <1>5, <1>6, <1>7

(* Removing any set of live ids from the map and from the index together   *)
(* keeps the two in step and never adds to a visitor's share.              *)
LEMMA DropKeeps ==
  ASSUME StoreInv, NEW R, Drop(R)
  PROVE  /\ Live' = Live \ R
         /\ \A x \in Live' : entries'[x] = entries[x]
         /\ entries' \in [Live' -> Entry]
         /\ index' \in [Visitor -> SUBSET Id]
         /\ IndexExact'
         /\ IndexFinite'
<1> USE DEF StoreInv
<1>1. Live' = Live \ R /\ \A x \in Live' : entries'[x] = entries[x]
  BY DEF Drop, Live
<1>2. entries' \in [Live' -> Entry]
  BY <1>1 DEF Drop, TypeOK, Live
<1>3. \A u \in Visitor : index'[u] = index[u] \ (R \cap OwnedBy(u))
  BY DEF Drop
<1>4. index' \in [Visitor -> SUBSET Id]
  BY DEF Drop, TypeOK
<1>5. IndexExact'
  <2> SUFFICES ASSUME NEW u \in Visitor PROVE index'[u] = OwnedBy(u)'
    BY DEF IndexExact
  <2>1. OwnedBy(u)' = OwnedBy(u) \ R
    BY <1>1 DEF OwnedBy
  <2> QED BY <1>3, <2>1 DEF IndexExact
<1>6. IndexFinite'
  <2> SUFFICES ASSUME NEW u \in Visitor
               PROVE IsFiniteSet(index'[u]) /\ Cardinality(index'[u]) <= Quota
    BY DEF IndexFinite
  <2>1. IsFiniteSet(index[u]) /\ Cardinality(index[u]) <= Quota
    BY DEF IndexFinite
  <2>2. index'[u] \subseteq index[u]
    BY <1>3
  <2>3. /\ IsFiniteSet(index'[u])
        /\ Cardinality(index'[u]) <= Cardinality(index[u])
    BY <2>1, <2>2, FS_Subset
  <2>4. Cardinality(index[u]) \in Nat /\ Cardinality(index'[u]) \in Nat
    BY <2>1, <2>3, FS_CardinalityType
  <2> QED BY <2>1, <2>3, <2>4, StoreAssumption
<1> QED BY <1>1, <1>2, <1>4, <1>5, <1>6

LEMMA StoreInitInv == Init => StoreInv
<1> SUFFICES ASSUME Init PROVE StoreInv
  OBVIOUS
<1> USE StoreAssumption DEF Init
<1>1. Live = {}
  BY DEF Live
<1>2. TypeOK
  BY <1>1 DEF TypeOK
<1>3. IndexExact
  BY <1>1 DEF IndexExact, OwnedBy
<1>4. IndexFinite
  BY FS_EmptySet DEF IndexFinite
<1>5. TimesInv
  BY <1>1 DEF TimesInv
<1> QED BY <1>2, <1>3, <1>4, <1>5 DEF StoreInv

LEMMA StoreCallKeeps ==
  ASSUME StoreInv, [Next]_storeVars
  PROVE  StoreInv'
<1>1. ASSUME NEW v \in Visitor, Create(v) PROVE StoreInv'
  BY <1>1, CreateKeeps
<1>2. ASSUME NEW id \in Live, NEW v \in Visitor, Get(id, v) PROVE StoreInv'
  BY <1>2, RenewKeeps DEF Get
<1>3. ASSUME NEW id \in Live, AddMessage(id) PROVE StoreInv'
  BY <1>3, RenewKeeps DEF AddMessage
<1>4. ASSUME NEW id \in Live, NEW v \in Visitor, Delete(id, v) PROVE StoreInv'
  <2>1. /\ Live' = Live \ {id}
        /\ \A x \in Live' : entries'[x] = entries[x]
        /\ entries' \in [Live' -> Entry] /\ index' \in [Visitor -> SUBSET Id]
        /\ IndexExact' /\ IndexFinite'
    BY <1>4, DropKeeps DEF Delete
  <2>2. UNCHANGED <<issued, now, nextSweep, sweeper>>
    BY <1>4 DEF Delete
  <2>3. TypeOK'
    BY <2>1, <2>2 DEF StoreInv, TypeOK
  <2>4. TimesInv'
    BY <2>1, <2>2 DEF StoreInv, TimesInv
  <2> QED BY <2>1, <2>3, <2>4 DEF StoreInv
<1>5. CASE Sweep
  <2>1. /\ Live' = Live \ Expired
        /\ \A x \in Live' : entries'[x] = entries[x]
        /\ entries' \in [Live' -> Entry] /\ index' \in [Visitor -> SUBSET Id]
        /\ IndexExact' /\ IndexFinite'
    BY <1>5, DropKeeps DEF Sweep
  <2>2. /\ UNCHANGED <<issued, now, sweeper>>
        /\ now = nextSweep /\ nextSweep' = nextSweep + Every
    BY <1>5 DEF Sweep
  <2>3. TypeOK'
    BY <2>1, <2>2, StoreAssumption DEF StoreInv, TypeOK
  <2>4. ASSUME NEW x \in Live' PROVE now <= entries'[x].expires /\ entries'[x].expires \in Nat
    BY <2>1, <2>4 DEF Expired, StoreInv, TypeOK, Entry
  <2>5. TimesInv'
    <3>1. \A x \in Live' : entries'[x].expires <= now' + TTL
      BY <2>1, <2>2 DEF StoreInv, TimesInv
    <3>2. now' <= nextSweep' /\ nextSweep' <= now' + Every
      BY <2>2, StoreAssumption DEF StoreInv, TypeOK
    <3>3. \A x \in Live' : nextSweep' <= entries'[x].expires + Every
      BY <2>2, <2>4, StoreAssumption DEF StoreInv, TypeOK
    <3> QED BY <3>1, <3>2, <3>3 DEF TimesInv
  <2> QED BY <2>1, <2>3, <2>5 DEF StoreInv
<1>6. CASE Stop \/ SweeperEnds
  <2>1. UNCHANGED <<entries, index, issued, now, nextSweep>> /\ Live' = Live
    BY <1>6 DEF Stop, SweeperEnds, Live
  <2>2. sweeper' \in {"on", "stopping", "off"} /\ (sweeper' # "off" => sweeper # "off")
    BY <1>6 DEF Stop, SweeperEnds
  <2>3. TypeOK'
    BY <2>1, <2>2 DEF StoreInv, TypeOK
  <2>4. IndexExact' /\ IndexFinite'
    BY <2>1 DEF StoreInv, IndexExact, OwnedBy, IndexFinite
  <2>5. TimesInv'
    BY <2>1, <2>2 DEF StoreInv, TimesInv
  <2> QED BY <2>3, <2>4, <2>5 DEF StoreInv
<1>7. CASE Tick
  <2>1. /\ UNCHANGED <<entries, index, issued, nextSweep, sweeper>> /\ Live' = Live
        /\ now' = now + 1 /\ now < MaxTime
        /\ (sweeper # "off" => now < nextSweep)
    BY <1>7 DEF Tick, MayTick, Live
  <2>2. TypeOK'
    BY <2>1, StoreAssumption DEF StoreInv, TypeOK
  <2>3. IndexExact' /\ IndexFinite'
    BY <2>1 DEF StoreInv, IndexExact, OwnedBy, IndexFinite
  <2>4. TimesInv'
    <3>1. \A x \in Live : entries[x].expires \in Nat
      BY DEF StoreInv, TypeOK, Entry
    <3>2. \A x \in Live' : entries'[x].expires <= now' + TTL
      BY <2>1, <3>1, StoreAssumption DEF StoreInv, TimesInv, TypeOK
    <3>3. sweeper' # "off" => now' <= nextSweep' /\ nextSweep' <= now' + Every
      BY <2>1, StoreAssumption DEF StoreInv, TimesInv, TypeOK
    <3>4. sweeper' # "off" => \A x \in Live' : nextSweep' <= entries'[x].expires + Every
      BY <2>1 DEF StoreInv, TimesInv
    <3> QED BY <3>2, <3>3, <3>4 DEF TimesInv
  <2> QED BY <2>2, <2>3, <2>4 DEF StoreInv
<1>8. CASE UNCHANGED storeVars
  <2>1. UNCHANGED <<entries, index, issued, now, nextSweep, sweeper>> /\ Live' = Live
    BY <1>8 DEF storeVars, Live
  <2> QED BY <2>1 DEF StoreInv, TypeOK, IndexExact, OwnedBy, IndexFinite, TimesInv
<1> QED BY <1>1, <1>2, <1>3, <1>4, <1>5, <1>6, <1>7, <1>8 DEF Next

(* The invariant holds in every reachable state. *)
LEMMA StoreInvariance == Spec => []StoreInv
<1>1. Init => StoreInv
  BY StoreInitInv
<1>2. StoreInv /\ [Next]_storeVars => StoreInv'
  BY StoreCallKeeps
<1> QED BY <1>1, <1>2, PTL DEF Spec

(* Type correctness of the stores. *)
THEOREM StoreTypeCorrect == Spec => []TypeOK
<1>1. StoreInv => TypeOK
  BY DEF StoreInv
<1> QED BY <1>1, StoreInvariance, PTL

(* The visitors' index and the map of entries always agree. *)
THEOREM IndexAgreesWithMap == Spec => []IndexExact
<1>1. StoreInv => IndexExact
  BY DEF StoreInv
<1> QED BY <1>1, StoreInvariance, PTL

(* The quota bounds the live entries of every visitor. *)
THEOREM QuotaRespected == Spec => []QuotaHolds
<1>1. StoreInv => QuotaHolds
  BY DEF StoreInv, IndexExact, IndexFinite, QuotaHolds
<1> QED BY <1>1, StoreInvariance, PTL

(* While the cleanup goroutine runs, an expired entry lasts no longer than *)
(* one more cleanup period.                                                *)
THEOREM ExpiredEntriesGo == Spec => []GoneInTime
<1>1. StoreInv => GoneInTime
  <2> SUFFICES ASSUME StoreInv, sweeper # "off", NEW id \in Live
               PROVE  now <= entries[id].expires + Every
    BY DEF GoneInTime
  <2>1. now <= nextSweep /\ nextSweep <= entries[id].expires + Every
    BY DEF StoreInv, TimesInv
  <2>2. entries[id].expires \in Nat /\ now \in Nat /\ nextSweep \in Nat
    BY DEF StoreInv, TypeOK, Entry
  <2> QED BY <2>1, <2>2, StoreAssumption
<1> QED BY <1>1, StoreInvariance, PTL

(* Only its owner's Delete takes an entry before its time, and takes no    *)
(* other with it.                                                          *)
THEOREM FreshEntriesKept == Spec => FreshEntriesSurvive
<1>1. StoreInv /\ [Next]_storeVars =>
        [\A id \in Live \ DOMAIN entries' :
           id \in Expired \/ \E v \in Visitor : Delete(id, v)]_storeVars
  <2> SUFFICES ASSUME StoreInv, Next, NEW id \in Live \ DOMAIN entries'
               PROVE  id \in Expired \/ \E v \in Visitor : Delete(id, v)
    OBVIOUS
  <2>1. ASSUME NEW v \in Visitor, Create(v) PROVE FALSE
    BY <2>1 DEF Create, Live
  <2>2. ASSUME NEW x \in Live, NEW v \in Visitor, Get(x, v) PROVE FALSE
    BY <2>2 DEF Get, Live, StoreInv, TypeOK
  <2>3. ASSUME NEW x \in Live, AddMessage(x) PROVE FALSE
    BY <2>3 DEF AddMessage, Live, StoreInv, TypeOK
  <2>4. ASSUME NEW x \in Live, NEW v \in Visitor, Delete(x, v)
        PROVE  Delete(id, v)
    <3>1. id = x
      BY <2>4 DEF Delete, Drop
    <3> QED BY <2>4, <3>1
  <2>5. CASE Sweep
    BY <2>5 DEF Sweep, Drop
  <2>6. CASE Stop \/ SweeperEnds \/ Tick
    BY <2>6 DEF Stop, SweeperEnds, Tick, Live
  <2> QED BY <2>1, <2>2, <2>3, <2>4, <2>5, <2>6 DEF Next
<1> QED BY <1>1, StoreInvariance, PTL DEF Spec, FreshEntriesSurvive

(* No call changes an entry's owner or shortens its remaining life. *)
THEOREM RenewalExtends == Spec => RenewalOnlyExtends
<1>1. StoreInv /\ [Next]_storeVars =>
        [\A id \in Live \cap DOMAIN entries' :
           /\ entries'[id].owner = entries[id].owner
           /\ entries'[id].expires >= entries[id].expires]_storeVars
  <2> SUFFICES ASSUME StoreInv, Next, NEW id \in Live \cap DOMAIN entries'
               PROVE  /\ entries'[id].owner = entries[id].owner
                      /\ entries'[id].expires >= entries[id].expires
    OBVIOUS
  <2>1. entries[id].expires \in Nat /\ entries[id].expires <= now + TTL
    BY DEF StoreInv, TypeOK, TimesInv, Entry
  <2>2. entries' = entries \/ entries'[id] = entries[id] =>
          /\ entries'[id].owner = entries[id].owner
          /\ entries'[id].expires >= entries[id].expires
    BY <2>1
  <2>3. ASSUME NEW v \in Visitor, Create(v) PROVE entries'[id] = entries[id]
    BY <2>3 DEF Create, StoreInv, TypeOK
  <2>4. ASSUME NEW x \in Live,
               entries' = [entries EXCEPT ![x] = Renewed(entries[x].owner)]
        PROVE  /\ entries'[id].owner = entries[id].owner
               /\ entries'[id].expires >= entries[id].expires
    BY <2>1, <2>4 DEF Renewed, StoreInv, TypeOK, Live
  <2>5. ASSUME NEW x \in Live, NEW v \in Visitor, Get(x, v)
        PROVE  entries' = [entries EXCEPT ![x] = Renewed(entries[x].owner)]
    BY <2>5 DEF Get
  <2>6. ASSUME NEW x \in Live, AddMessage(x)
        PROVE  entries' = [entries EXCEPT ![x] = Renewed(entries[x].owner)]
    BY <2>6 DEF AddMessage
  <2>7. ASSUME NEW x \in Live, NEW v \in Visitor, Delete(x, v)
        PROVE  entries'[id] = entries[id]
    BY <2>7 DEF Delete, Drop
  <2>8. CASE Sweep
    <3>1. entries'[id] = entries[id]
      BY <2>8 DEF Sweep, Drop
    <3> QED BY <3>1, <2>2
  <2>9. CASE Stop \/ SweeperEnds \/ Tick
    <3>1. entries' = entries
      BY <2>9 DEF Stop, SweeperEnds, Tick
    <3> QED BY <3>1, <2>2
  <2> QED BY <2>2, <2>3, <2>4, <2>5, <2>6, <2>7, <2>8, <2>9 DEF Next
<1> QED BY <1>1, StoreInvariance, PTL DEF Spec, RenewalOnlyExtends

-------------------------------------------------------------------------------
(* Requests (PlaygroundChat). *)

(***************************************************************************)
(* What the calls of the store do to the conversations of the requests.    *)
(***************************************************************************)
\* A call that renews one conversation leaves the others, and the clock, alone.
LEMMA RenewedOne ==
  ASSUME StoreInv, NEW c \in Live, NEW v,
         entries[c].owner = v, Get(c, v) \/ AddMessage(c)
  PROVE  /\ Live' = Live /\ UNCHANGED <<issued, now>>
         /\ entries'[c] = [owner |-> v, expires |-> now + TTL]
         /\ \A x \in Live \ {c} : entries'[x] = entries[x]
  BY DEF Get, AddMessage, Renewed, StoreInv, TypeOK, Live

\* The store's own steps only drop what is past its time.
LEMMA StoreStepDrops ==
  ASSUME StoreInv, StoreStep
  PROVE  /\ Live' \subseteq Live /\ issued' = issued
         /\ \A x \in Live' : entries'[x] = entries[x]
         /\ \A x \in Live \ Live' : now > entries[x].expires
         /\ now \in Nat /\ now' \in {now, now + 1}
<1>1. now \in Nat
  BY DEF StoreInv, TypeOK
<1>2. CASE Sweep
  <2>1. Live' = Live \ Expired /\ \A x \in Live' : entries'[x] = entries[x]
    BY <1>2, DropKeeps DEF Sweep
  <2> QED BY <1>1, <1>2, <2>1 DEF Sweep, Expired
<1>3. CASE Stop \/ SweeperEnds \/ Tick
  BY <1>1, <1>3 DEF Stop, SweeperEnds, Tick, Live
<1> QED BY <1>2, <1>3 DEF StoreStep

\* Every step of the requests is one of the store, or leaves it alone.
LEMMA ChatUsesStore == ASSUME OwnInv, [ChatNext]_chatVars PROVE [Next]_storeVars
<1>1. CASE UNCHANGED chatVars
  BY <1>1 DEF chatVars
<1>2. CASE StoreStep
  BY <1>2 DEF StoreStep, Next
<1>3. ASSUME NEW r \in Req, Step(r) PROVE [Next]_storeVars
  <2>1. ASSUME NEW v \in Visitor, StreamChat(r, v) PROVE [Next]_storeVars
    BY <2>1 DEF StreamChat, Next
  <2>2. ASSUME NEW v \in Visitor, Delegate(r, v) PROVE [Next]_storeVars
    BY <2>2 DEF Delegate
  <2>3. CASE GetConversation(r)
    <3>1. CASE conv[r] \in Live
      <4>1. Get(conv[r], visitor[r])
        BY <2>3, <3>1 DEF GetConversation
      <4>2. visitor[r] \in Visitor
        BY <2>3 DEF GetConversation, OwnInv
      <4> QED BY <3>1, <4>1, <4>2 DEF Next
    <3>2. CASE conv[r] \notin Live
      BY <2>3, <3>2 DEF GetConversation
    <3> QED BY <3>1, <3>2
  <2>4. CASE SaveUser(r) \/ SaveReply(r)
    BY <2>4 DEF SaveUser, SaveReply, AddRow, Next
  <2>5. CASE Refuse(r) \/ RunFails(r) \/ CallTool(r) \/ Answer(r)
    BY <2>5 DEF Refuse, RunFails, CallTool, Answer
  <2> QED BY <1>3, <2>1, <2>2, <2>3, <2>4, <2>5 DEF Step
<1> QED BY <1>1, <1>2, <1>3 DEF ChatNext

(***************************************************************************)
(* The store's calls of a request, seen from all requests.                 *)
(***************************************************************************)
\* A step that makes no call of the store and lets no time pass.
Quiet == UNCHANGED <<storeVars, conv, msgs, timeVars>>

LEMMA QuietKeeps ==
  ASSUME OwnInv, RowsInv, Quiet, NEW r \in Req,
         \/ UNCHANGED runVars
         \/ Refuse(r) \/ RunFails(r) \/ Answer(r) \/ \E v \in Visitor : Delegate(r, v),
         ChatTypeOK
  PROVE  OwnInv' /\ RowsInv'
<1>1. UNCHANGED <<entries, issued, now, conv, msgs, touched, late>> /\ Live' = Live
  BY DEF Quiet, storeVars, timeVars, Live
<1>2. CASE UNCHANGED runVars
  BY <1>1, <1>2 DEF runVars, OwnInv, RowsInv, RowsOf
<1>3. CASE Refuse(r)
  BY <1>1, <1>3 DEF Refuse, Goto, ChatTypeOK, OwnInv, RowsInv, RowsOf
<1>4. CASE RunFails(r)
  BY <1>1, <1>4 DEF RunFails, Goto, ChatTypeOK, OwnInv, RowsInv, RowsOf
<1>5. CASE Answer(r)
  BY <1>1, <1>5 DEF Answer, Goto, ChatTypeOK, OwnInv, RowsInv, RowsOf
<1>6. ASSUME NEW v \in Visitor, Delegate(r, v) PROVE OwnInv' /\ RowsInv'
  BY <1>1, <1>6 DEF Delegate, Goto, ChatTypeOK, OwnInv, RowsInv, RowsOf
<1> QED BY <1>2, <1>3, <1>4, <1>5, <1>6

\* A new conversation is a new id, so no other request has it.
LEMMA StreamChatKeeps ==
  ASSUME StoreInv, ChatTypeOK, OwnInv, RowsInv, NEW r \in Req, NEW v \in Visitor, StreamChat(r, v)
  PROVE  OwnInv' /\ RowsInv'
<1>1. PICK id \in Id \ issued :
        /\ entries' = [x \in Live \cup {id} |-> IF x = id THEN Renewed(v) ELSE entries[x]]
        /\ issued' = issued \cup {id}
  BY DEF StreamChat, Create
<1>2. /\ now' = now /\ conv' = [conv EXCEPT ![r] = id]
      /\ visitor' = [visitor EXCEPT ![r] = v] /\ touched' = [touched EXCEPT ![r] = now]
      /\ pc' = [pc EXCEPT ![r] = "run"] /\ UNCHANGED <<msgs, late>>
  BY <1>1 DEF StreamChat, Create, Goto
<1>3. Live' = Live \cup {id} /\ id \notin Live /\ conv[r] = None /\ id # None
  BY <1>1, NoneIsApart DEF Live, StoreInv, TypeOK, OwnInv, StreamChat
<1>4. \A q \in Req \ {r} : /\ conv'[q] = conv[q] /\ visitor'[q] = visitor[q]
                           /\ touched'[q] = touched[q] /\ pc'[q] = pc[q]
                           /\ conv[q] # id
  BY <1>1, <1>2, <1>3 DEF ChatTypeOK, OwnInv
<1>5. /\ conv'[r] = id /\ visitor'[r] = v /\ touched'[r] = now /\ pc'[r] = "run"
      /\ entries'[id] = [owner |-> v, expires |-> now + TTL]
  BY <1>1, <1>2 DEF ChatTypeOK, Renewed
<1>6. \A x \in Live : entries'[x] = entries[x]
  BY <1>1, <1>3
<1>7. OwnInv'
  <2>1. \A q \in Req : conv'[q] # None => conv'[q] \in issued'
    BY <1>1, <1>4, <1>5 DEF OwnInv
  <2>2. \A p, q \in Req : conv'[p] # None /\ conv'[p] = conv'[q] => p = q
    BY <1>4, <1>5 DEF OwnInv
  <2>3. \A q \in Req : pc'[q] = "idle" => conv'[q] = None
    BY <1>4, <1>5 DEF OwnInv
  <2>4. \A q \in Req : pc'[q] \in {"run", "saveUser", "saveReply"} => conv'[q] # None
    BY <1>3, <1>4, <1>5 DEF OwnInv
  <2>5. ASSUME NEW q \in Req, conv'[q] # None
        PROVE  IF conv'[q] \in Live'
                 THEN entries'[conv'[q]] = [owner |-> visitor'[q], expires |-> touched'[q] + TTL]
                 ELSE q \in late' \/ now' > touched'[q] + TTL
    <3>1. CASE q = r
      BY <1>3, <1>5, <3>1
    <3>2. CASE q # r
      BY <1>2, <1>3, <1>4, <1>6, <2>5, <3>2 DEF OwnInv
    <3> QED BY <3>1, <3>2
  <2>6. \A q \in Req : pc'[q] = "loop" \/ conv'[q] # None => visitor'[q] \in Visitor
    BY <1>4, <1>5 DEF OwnInv
  <2> QED BY <2>1, <2>2, <2>3, <2>4, <2>5, <2>6 DEF OwnInv
<1>8. RowsInv'
  <2>1. msgs[id] = << >>
    BY <1>1 DEF RowsInv
  <2>2. \A q \in Req \ {r} : conv[q] # None => (conv[q] \in Live' <=> conv[q] \in Live)
    BY <1>3, <1>4
  <2>3. \A c \in Id : c \notin issued' => msgs'[c] = << >>
    BY <1>1, <1>2 DEF RowsInv
  <2>4. ASSUME NEW q \in Req, conv'[q] # None PROVE RowsOf(q)'
    <3>1. CASE q = r
      BY <1>2, <1>5, <2>1, <3>1 DEF RowsOf
    <3>2. CASE q # r
      <4>1. conv[q] # None /\ RowsOf(q)
        BY <1>4, <2>4, <3>2 DEF RowsInv
      <4> QED BY <1>2, <1>4, <2>2, <3>2, <4>1 DEF RowsOf
    <3> QED BY <3>1, <3>2
  <2> QED BY <2>3, <2>4 DEF RowsInv
<1> QED BY <1>7, <1>8

\* A call of the run for its conversation, which renews it if it lives.
LEMMA TouchKeepsOwn ==
  ASSUME StoreInv, ChatTypeOK, OwnInv, NEW r \in Req, conv[r] # None, Touch(r),
         IF conv[r] \in Live THEN Get(conv[r], visitor[r]) \/ AddMessage(conv[r])
                             ELSE UNCHANGED storeVars,
         NEW p, p # "idle", pc' = [pc EXCEPT ![r] = p], UNCHANGED <<visitor, conv>>
  PROVE  /\ OwnInv'
         /\ Live' = Live /\ issued' = issued
         /\ \A q \in Req \ {r} : q \in late' <=> q \in late
         /\ r \in late => r \in late'
         /\ conv[r] \notin Live => r \in late'
<1>t. now \in Nat /\ TTL \in Nat /\ touched[r] \in Nat
  BY StoreAssumption DEF StoreInv, TypeOK, ChatTypeOK
<1>1. /\ Live' = Live /\ UNCHANGED <<issued, now>>
      /\ conv[r] \in Live => entries'[conv[r]] = [owner |-> visitor[r], expires |-> now + TTL]
      /\ \A x \in Live \ {conv[r]} : entries'[x] = entries[x]
  <2>1. CASE conv[r] \in Live
    <3>1. entries[conv[r]] = [owner |-> visitor[r], expires |-> touched[r] + TTL]
      BY <2>1 DEF OwnInv
    <3> QED BY <2>1, <3>1, RenewedOne
  <2>2. CASE conv[r] \notin Live
    BY <2>2 DEF storeVars, Live
  <2> QED BY <2>1, <2>2
<1>2. touched'[r] = now /\ \A q \in Req \ {r} : touched'[q] = touched[q] /\ pc'[q] = pc[q]
  BY DEF Touch, ChatTypeOK
<1>3. \A q \in Req \ {r} : q \in late' <=> q \in late
  BY DEF Touch
<1>4. r \in late => r \in late'
  BY DEF Touch
<1>5. conv[r] \notin Live => r \in late'
  BY DEF OwnInv, Touch
<1>6. pc'[r] = p
  BY DEF ChatTypeOK
<1>7. OwnInv'
  <2>1. ASSUME NEW q \in Req, conv'[q] # None
        PROVE  IF conv'[q] \in Live'
                 THEN entries'[conv'[q]] = [owner |-> visitor'[q], expires |-> touched'[q] + TTL]
                 ELSE q \in late' \/ now' > touched'[q] + TTL
    <3>1. CASE q = r
      BY <1>1, <1>2, <1>5, <3>1
    <3>2. CASE q # r
      <4>1. conv[q] # conv[r]
        BY <2>1, <3>2 DEF OwnInv
      <4> QED BY <1>1, <1>2, <1>3, <2>1, <3>2, <4>1 DEF OwnInv
    <3> QED BY <3>1, <3>2
  <2>2. \A q \in Req : pc'[q] = "idle" => conv'[q] = None
    BY <1>2, <1>6 DEF OwnInv
  <2>3. \A q \in Req : pc'[q] \in {"run", "saveUser", "saveReply"} => conv'[q] # None
    BY <1>2 DEF OwnInv
  <2>4. \A q \in Req : pc'[q] = "loop" \/ conv'[q] # None => visitor'[q] \in Visitor
    BY <1>2 DEF OwnInv
  <2> QED BY <1>1, <2>1, <2>2, <2>3, <2>4 DEF OwnInv
<1> QED BY <1>1, <1>3, <1>4, <1>5, <1>7

LEMMA GetConversationKeeps ==
  ASSUME StoreInv, ChatTypeOK, OwnInv, RowsInv, NEW r \in Req, GetConversation(r)
  PROVE  OwnInv' /\ RowsInv'
<1>1. pc[r] = "run" /\ conv[r] # None /\ msgs' = msgs /\ UNCHANGED <<visitor, conv>>
      /\ pc' = [pc EXCEPT ![r] = "loop"]
  BY DEF GetConversation, Goto, OwnInv
<1>2. /\ OwnInv' /\ Live' = Live /\ issued' = issued
      /\ \A q \in Req \ {r} : q \in late' <=> q \in late
  BY <1>1, TouchKeepsOwn DEF GetConversation
<1>3. pc'[r] = "loop" /\ \A q \in Req \ {r} : pc'[q] = pc[q]
  BY <1>1 DEF ChatTypeOK
<1> QED BY <1>1, <1>2, <1>3 DEF RowsInv, RowsOf

\* What Append makes of a sequence of one.
LEMMA AppendToOne ==
  ASSUME NEW S, NEW s \in Seq(S), Len(s) = 1, NEW e \in S
  PROVE  /\ Append(s, e) \in Seq(S)
         /\ Len(Append(s, e)) = 2
         /\ Append(s, e)[1] = s[1]
         /\ Append(s, e)[2] = e
<1>1. Append(s, e) \in Seq(S) /\ Len(Append(s, e)) = Len(s) + 1
  OBVIOUS
<1>2. Append(s, e)[1] = s[1]
  OBVIOUS
<1>3. Append(s, e)[Len(s) + 1] = e
  BY AppendProperties
<1> QED BY <1>1, <1>2, <1>3

LEMMA PairAppended == Append(<<"user">>, "assistant") = <<"user", "assistant">>
<1> DEFINE S == {"user", "assistant"}
           one == <<"user">>
           two == Append(one, "assistant")
<1>1. one \in Seq(S) /\ Len(one) = 1 /\ one[1] = "user" /\ "assistant" \in S
  OBVIOUS
<1> HIDE DEF one
<1>2. two \in Seq(S) /\ Len(two) = 2 /\ two[1] = "user" /\ two[2] = "assistant"
  <2> HIDE DEF S
  <2> QED BY <1>1, AppendToOne
<1> HIDE DEF two
<1>3. two = <<"user", "assistant">>
  BY <1>2
<1> QED BY <1>3 DEF two, one

LEMMA SaveKeeps ==
  ASSUME StoreInv, ChatTypeOK, OwnInv, RowsInv, NEW r \in Req, SaveUser(r) \/ SaveReply(r)
  PROVE  OwnInv' /\ RowsInv'
<1> DEFINE c == conv[r]
           p == IF pc[r] = "saveUser" THEN "saveReply" ELSE "done"
           role == IF pc[r] = "saveUser" THEN "user" ELSE "assistant"
<1>1. /\ pc[r] \in {"saveUser", "saveReply"} /\ c # None /\ UNCHANGED <<visitor, conv>>
      /\ pc' = [pc EXCEPT ![r] = p] /\ Touch(r) /\ AddRow(r, role)
  BY DEF SaveUser, SaveReply, Goto, OwnInv
<1>2. /\ OwnInv' /\ Live' = Live /\ issued' = issued
      /\ \A q \in Req \ {r} : q \in late' <=> q \in late
      /\ r \in late => r \in late'
      /\ c \notin Live => r \in late'
  BY <1>1, TouchKeepsOwn DEF AddRow
<1>3. pc'[r] = p /\ \A q \in Req \ {r} : pc'[q] = pc[q]
  BY <1>1 DEF ChatTypeOK
<1>4. c \in issued /\ c \in Id /\ \A q \in Req \ {r} : conv[q] # c
  BY <1>1 DEF OwnInv, StoreInv, TypeOK
<1>5. /\ \A x \in Id \ {c} : msgs'[x] = msgs[x]
      /\ msgs'[c] = IF c \in Live THEN Append(msgs[c], role) ELSE msgs[c]
  <2>1. CASE c \in Live
    BY <1>1, <1>4, <2>1 DEF AddRow, ChatTypeOK
  <2>2. CASE c \notin Live
    BY <1>1, <2>2 DEF AddRow
  <2> QED BY <2>1, <2>2
<1>6. pc[r] = "saveUser" => msgs'[c] = <<"user">> \/ (msgs'[c] = << >> /\ c \notin Live)
  <2> SUFFICES ASSUME pc[r] = "saveUser"
               PROVE  msgs'[c] = <<"user">> \/ (msgs'[c] = << >> /\ c \notin Live)
    OBVIOUS
  <2>1. msgs[c] = << >> /\ role = "user"
    BY <1>1 DEF RowsInv, RowsOf
  <2>2. Append(<< >>, "user") = <<"user">>
    OBVIOUS
  <2> QED BY <1>5, <2>1, <2>2
<1>7. pc[r] = "saveReply" =>
        /\ msgs'[c] \in {<< >>, <<"user">>, Exchange}
        /\ c \in Live => msgs'[c] = Exchange
  <2> SUFFICES ASSUME pc[r] = "saveReply"
               PROVE  /\ msgs'[c] \in {<< >>, <<"user">>, Exchange}
                      /\ c \in Live => msgs'[c] = Exchange
    OBVIOUS
  <2>1. msgs[c] = <<"user">> \/ (msgs[c] = << >> /\ c \notin Live)
    BY <1>1 DEF RowsInv, RowsOf
  <2>2. Append(<<"user">>, "assistant") = Exchange /\ role = "assistant"
    BY <1>1, PairAppended DEF Exchange
  <2> QED BY <1>5, <2>1, <2>2
<1>8. RowsInv'
  <2>1. \A x \in Id : x \notin issued' => msgs'[x] = << >>
    BY <1>2, <1>4, <1>5 DEF RowsInv
  <2>2. ASSUME NEW q \in Req, conv'[q] # None
        PROVE  RowsOf(q)'
    <3>1. CASE q = r
      BY <1>1, <1>2, <1>3, <1>6, <1>7, <3>1 DEF RowsOf
    <3>2. CASE q # r
      <4>1. conv'[q] = conv[q] /\ conv[q] # c /\ conv[q] \in Id
        BY <1>1, <1>4, <2>2, <3>2 DEF ChatTypeOK
      <4>2. msgs'[conv[q]] = msgs[conv[q]]
        BY <1>5, <4>1
      <4> QED BY <1>2, <1>3, <2>2, <3>2, <4>1, <4>2 DEF RowsInv, RowsOf
    <3> QED BY <3>1, <3>2
  <2> QED BY <2>1, <2>2 DEF RowsInv, RowsOf
<1> QED BY <1>2, <1>8

\* A sweep takes only what its run left alone for longer than the time to live.
LEMMA StoreStepKeeps ==
  ASSUME StoreInv, ChatTypeOK, OwnInv, RowsInv, StoreStep
  PROVE  OwnInv' /\ RowsInv'
<1>1. UNCHANGED <<pc, visitor, conv, msgs, touched, late>>
  BY DEF StoreStep, runVars, timeVars
<1>2. /\ Live' \subseteq Live /\ issued' = issued
      /\ \A x \in Live' : entries'[x] = entries[x]
      /\ \A x \in Live \ Live' : now > entries[x].expires
      /\ now \in Nat /\ now' \in {now, now + 1}
  BY StoreStepDrops
<1>3. ASSUME NEW q \in Req, conv[q] # None
      PROVE  IF conv[q] \in Live'
               THEN entries'[conv[q]] = [owner |-> visitor[q], expires |-> touched[q] + TTL]
               ELSE q \in late \/ now' > touched[q] + TTL
  <2>1. CASE conv[q] \in Live'
    BY <1>2, <1>3, <2>1 DEF OwnInv
  <2>2. CASE conv[q] \in Live \ Live'
    <3>1. entries[conv[q]] = [owner |-> visitor[q], expires |-> touched[q] + TTL]
      BY <1>3, <2>2 DEF OwnInv
    <3>3. now > touched[q] + TTL
      BY <1>2, <2>2, <3>1
    <3>2. touched[q] + TTL \in Nat
      BY StoreAssumption DEF ChatTypeOK
    <3> QED BY <1>2, <2>2, <3>3, <3>2
  <2>3. CASE conv[q] \notin Live
    <3>1. q \in late \/ now > touched[q] + TTL
      BY <1>3, <2>3 DEF OwnInv
    <3>2. touched[q] + TTL \in Nat
      BY StoreAssumption DEF ChatTypeOK
    <3> QED BY <1>2, <2>3, <3>1, <3>2
  <2> QED BY <2>1, <2>2, <2>3
<1>4. OwnInv'
  BY <1>1, <1>2, <1>3 DEF OwnInv
<1>5. RowsInv'
  BY <1>1, <1>2 DEF RowsInv, RowsOf
<1> QED BY <1>4, <1>5

(***************************************************************************)
(* The limiter.                                                            *)
(***************************************************************************)
\* A call that is let through is a window after the last one, and so after all.
LEMMA CallKeepsTools ==
  ASSUME StoreInv, ChatTypeOK, ToolInv, NEW r \in Req, visitor[r] \in Visitor, CallTool(r)
  PROVE  ToolInv'
<1> DEFINE v == visitor[r]
           n == Len(calls[v])
<1>1. /\ lastCall[v] # None => now - lastCall[v] >= Window
      /\ lastCall' = [lastCall EXCEPT ![v] = now]
      /\ calls' = [calls EXCEPT ![v] = Append(@, now)] /\ now' = now
  BY DEF CallTool, storeVars
<1>2. calls[v] \in Seq(Nat) /\ now \in Nat /\ n \in Nat
  BY DEF ChatTypeOK, StoreInv, TypeOK
<1>3. /\ DOMAIN calls'[v] = 1 .. n + 1 /\ calls'[v][n + 1] = now
      /\ \A i \in 1 .. n : calls'[v][i] = calls[v][i] /\ i \in DOMAIN calls[v]
  BY <1>1, <1>2 DEF ChatTypeOK
<1>4. \A u \in Visitor \ {v} : calls'[u] = calls[u] /\ lastCall'[u] = lastCall[u]
  BY <1>1 DEF ChatTypeOK
<1>5. lastCall'[v] = now
  BY <1>1 DEF ChatTypeOK
<1>6. ASSUME NEW i \in 1 .. n PROVE calls[v][i] \in Nat /\ now - calls[v][i] >= Window /\ calls[v][i] <= now
  <2>1. calls[v][i] \in Nat /\ lastCall[v] \in Nat /\ calls[v][i] <= lastCall[v]
    BY <1>2, <1>3 DEF ToolInv
  <2>2. lastCall[v] # None
    BY <2>1, NoneIsApart
  <2>3. lastCall[v] <= now
    BY <2>2 DEF ToolInv
  <2>4. now - lastCall[v] >= Window
    BY <1>1, <2>2
  <2> HIDE DEF v
  <2>5. now - calls[v][i] >= now - lastCall[v] /\ calls[v][i] <= now
    BY <1>2, <2>1, <2>3
  <2>6. now - calls[v][i] >= Window
    BY <1>2, <2>1, <2>4, <2>5, WindowIsTime
  <2> QED BY <2>1, <2>5, <2>6
<1>7. \A u \in Visitor :
        /\ \A i \in DOMAIN calls'[u] : lastCall'[u] \in Nat /\ calls'[u][i] <= lastCall'[u]
        /\ lastCall'[u] # None => lastCall'[u] <= now'
  <2> SUFFICES ASSUME NEW u \in Visitor
               PROVE /\ \A i \in DOMAIN calls'[u] : lastCall'[u] \in Nat /\ calls'[u][i] <= lastCall'[u]
                     /\ lastCall'[u] # None => lastCall'[u] <= now'
    OBVIOUS
  <2>1. CASE u = v
    <3>1. ASSUME NEW i \in 1 .. n + 1 PROVE calls'[v][i] <= now
      <4>1. i \in 1 .. n \/ i = n + 1
        BY <1>2
      <4> QED BY <1>2, <1>3, <1>6, <4>1
    <3> QED BY <1>1, <1>2, <1>3, <1>5, <2>1, <3>1
  <2>2. CASE u # v
    BY <1>1, <1>4, <2>2 DEF ToolInv
  <2> QED BY <2>1, <2>2
<1>8. ToolsSpaced'
  <2> SUFFICES ASSUME NEW u \in Visitor, NEW i \in DOMAIN calls'[u], NEW j \in DOMAIN calls'[u], i < j
               PROVE  calls'[u][j] - calls'[u][i] >= Window
    BY DEF ToolsSpaced
  <2>1. CASE u = v
    <3>1. i \in 1 .. n
      BY <1>2, <1>3, <2>1
    <3>2. j \in 1 .. n \/ j = n + 1
      BY <1>2, <1>3, <2>1
    <3>3. CASE j \in 1 .. n
      BY <1>3, <2>1, <3>1, <3>3 DEF ToolInv, ToolsSpaced
    <3>4. CASE j = n + 1
      BY <1>3, <1>6, <2>1, <3>1, <3>4
    <3> QED BY <3>2, <3>3, <3>4
  <2>2. CASE u # v
    BY <1>4, <2>2 DEF ToolInv, ToolsSpaced
  <2> QED BY <2>1, <2>2
<1> QED BY <1>7, <1>8 DEF ToolInv

\* Whatever else happens, time does not go back.
LEMMA OthersKeepTools ==
  ASSUME StoreInv, ChatTypeOK, ToolInv, UNCHANGED toolVars, now' \in {now, now + 1}
  PROVE  ToolInv'
<1>1. now \in Nat /\ \A v \in Visitor : lastCall[v] \in Nat \cup {None}
  BY DEF ChatTypeOK, StoreInv, TypeOK
<1>2. UNCHANGED <<lastCall, calls>>
  BY DEF toolVars
<1>3. \A v \in Visitor : lastCall[v] # None => lastCall[v] <= now'
  BY <1>1 DEF ToolInv
<1> QED BY <1>2, <1>3 DEF ToolInv, ToolsSpaced

(***************************************************************************)
(* Typing, and all steps together.                                         *)
(***************************************************************************)
LEMMA ChatTypeStep ==
  ASSUME ChatTypeOK, OwnInv, TypeOK', [ChatNext]_chatVars
  PROVE  ChatTypeOK'
<1>1. CASE UNCHANGED chatVars
  BY <1>1 DEF chatVars, runVars, timeVars, toolVars, ChatTypeOK
<1>2. CASE StoreStep
  BY <1>2 DEF StoreStep, runVars, timeVars, toolVars, ChatTypeOK
<1>3. ASSUME NEW r \in Req, Step(r) PROVE ChatTypeOK'
  <2> USE DEF ChatTypeOK, ChatStep, Goto, runVars, timeVars, toolVars
  <2>t. now \in Nat
    BY DEF TypeOK
  <2>u. ASSUME Touch(r) PROVE touched' \in [Req -> Nat] /\ late' \subseteq Req
    BY <2>t, <2>u DEF Touch
  <2>1. ASSUME NEW v \in Visitor, StreamChat(r, v) PROVE ChatTypeOK'
    BY <2>1, <2>t DEF StreamChat
  <2>2. ASSUME NEW v \in Visitor, Delegate(r, v) PROVE ChatTypeOK'
    BY <2>2 DEF Delegate
  <2>3. CASE Refuse(r) \/ RunFails(r)
    BY <2>3 DEF Refuse, RunFails
  <2>4. CASE GetConversation(r)
    BY <2>4, <2>u DEF GetConversation
  <2>5. CASE CallTool(r)
    <3>1. visitor[r] \in Visitor
      BY <2>5 DEF CallTool, OwnInv
    <3>2. Append(calls[visitor[r]], now) \in Seq(Nat)
      BY <2>t, <3>1
    <3> QED BY <2>5, <2>t, <3>1, <3>2 DEF CallTool
  <2>6. CASE Answer(r)
    BY <2>6 DEF Answer
  <2>7. ASSUME NEW role \in {"user", "assistant"}, AddRow(r, role)
        PROVE  msgs' \in [Id -> Seq({"user", "assistant"})]
    <3>1. CASE conv[r] \in Live
      <4>1. conv[r] \in Id => Append(msgs[conv[r]], role) \in Seq({"user", "assistant"})
        OBVIOUS
      <4> QED BY <2>7, <3>1, <4>1 DEF AddRow
    <3>2. CASE conv[r] \notin Live
      BY <2>7, <3>2 DEF AddRow
    <3> QED BY <3>1, <3>2
  <2>8. CASE SaveUser(r) \/ SaveReply(r)
    <3>1. msgs' \in [Id -> Seq({"user", "assistant"})]
      BY <2>7, <2>8 DEF SaveUser, SaveReply
    <3> QED BY <2>8, <2>u, <3>1 DEF SaveUser, SaveReply
  <2> QED BY <1>3, <2>1, <2>2, <2>3, <2>4, <2>5, <2>6, <2>8 DEF Step
<1> QED BY <1>1, <1>2, <1>3 DEF ChatNext

LEMMA ChatStepKeeps ==
  ASSUME ChatInv, [ChatNext]_chatVars
  PROVE  ChatInv'
<1> USE DEF ChatInv
<1>1. StoreInv'
  BY ChatUsesStore, StoreCallKeeps
<1>2. ChatTypeOK'
  BY <1>1, ChatTypeStep DEF StoreInv
<1>3. CASE UNCHANGED chatVars
  <2>1. UNCHANGED <<entries, issued, now, pc, visitor, conv, msgs, touched, late, lastCall, calls>>
        /\ Live' = Live
    BY <1>3 DEF chatVars, storeVars, runVars, timeVars, toolVars, Live
  <2> QED BY <1>1, <1>2, <2>1 DEF OwnInv, RowsInv, RowsOf, ToolInv, ToolsSpaced
<1>4. CASE StoreStep
  <2>1. OwnInv' /\ RowsInv'
    BY <1>4, StoreStepKeeps
  <2>2. ToolInv'
    BY <1>4, StoreStepDrops, OthersKeepTools DEF StoreStep
  <2> QED BY <1>1, <1>2, <2>1, <2>2
<1>5. ASSUME NEW r \in Req, Step(r) PROVE ChatInv'
  <2>1. OwnInv' /\ RowsInv'
    <3>1. ASSUME NEW v \in Visitor, StreamChat(r, v) PROVE OwnInv' /\ RowsInv'
      BY <3>1, StreamChatKeeps
    <3>2. ASSUME NEW v \in Visitor, Delegate(r, v) PROVE OwnInv' /\ RowsInv'
      BY <3>2, QuietKeeps DEF Delegate, Quiet
    <3>3. CASE Refuse(r) \/ RunFails(r) \/ Answer(r)
      BY <3>3, QuietKeeps DEF Refuse, RunFails, Answer, Quiet
    <3>4. CASE CallTool(r)
      BY <3>4, QuietKeeps DEF CallTool, Quiet, runVars
    <3>5. CASE GetConversation(r)
      BY <3>5, GetConversationKeeps
    <3>6. CASE SaveUser(r) \/ SaveReply(r)
      BY <3>6, SaveKeeps
    <3> QED BY <1>5, <3>1, <3>2, <3>3, <3>4, <3>5, <3>6 DEF Step
  <2>2. ToolInv'
    <3>1. CASE CallTool(r)
      <4>1. visitor[r] \in Visitor
        BY <3>1 DEF CallTool, OwnInv
      <4> QED BY <3>1, <4>1, CallKeepsTools
    <3>2. CASE ~CallTool(r)
      <4>1. UNCHANGED toolVars
        BY <1>5, <3>2 DEF Step, Refuse, StreamChat, Delegate, RunFails, GetConversation, Answer,
                          SaveUser, SaveReply
      <4>2. now' = now
        BY <1>5, <3>2 DEF Step, Refuse, StreamChat, Create, Delegate, RunFails, GetConversation, Get,
                          Answer, SaveUser, SaveReply, AddRow, AddMessage, storeVars
      <4> QED BY <4>1, <4>2, OthersKeepTools
    <3> QED BY <3>1, <3>2
  <2> QED BY <1>1, <1>2, <2>1, <2>2
<1> QED BY <1>3, <1>4, <1>5 DEF ChatNext

LEMMA ChatInvariance == ChatSpec => []ChatInv
<1>1. ChatInit => ChatInv
  <2> SUFFICES ASSUME ChatInit PROVE ChatInv
    OBVIOUS
  <2>1. StoreInv
    BY StoreInitInv DEF ChatInit
  <2>2. ChatTypeOK
    BY <2>1 DEF ChatInit, ChatTypeOK, ChatStep, StoreInv
  <2>3. OwnInv
    BY DEF ChatInit, OwnInv
  <2>4. RowsInv
    BY DEF ChatInit, RowsInv, KeptUnlessSlow
  <2>5. ToolInv
    BY DEF ChatInit, ToolInv, ToolsSpaced
  <2> QED BY <2>1, <2>2, <2>3, <2>4, <2>5 DEF ChatInv
<1>2. ChatInv /\ [ChatNext]_chatVars => ChatInv'
  BY ChatStepKeeps
<1> QED BY <1>1, <1>2, PTL DEF ChatSpec

(* The variables of the requests keep their types. *)
THEOREM ChatTypeCorrect == ChatSpec => []ChatTypeOK
<1>1. ChatInv => ChatTypeOK
  BY DEF ChatInv
<1> QED BY <1>1, ChatInvariance, PTL

(* The requests use the store as PlaygroundStore describes its callers:    *)
(* each of their steps is one call of the store or none, so what is proved *)
(* of the store holds while they run.                                      *)
THEOREM ChatsUseTheStore == ChatSpec => Spec
<1>1. ChatInit => Init
  BY DEF ChatInit
<1>2. ChatInv /\ [ChatNext]_chatVars => [Next]_storeVars
  BY ChatUsesStore DEF ChatInv
<1> QED BY <1>1, <1>2, ChatInvariance, PTL DEF ChatSpec, Spec

(* A sweep never costs an answered chat its exchange unless its run paused *)
(* for longer than the time to live between two calls of the store.        *)
THEOREM ExchangesKeptUnlessSlow == ChatSpec => []KeptUnlessSlow
<1>1. ChatInv => KeptUnlessSlow
  BY DEF ChatInv, RowsInv, RowsOf, KeptUnlessSlow
<1> QED BY <1>1, ChatInvariance, PTL

(* Two calls of HTTP tools of one visitor are at least the window apart.   *)
THEOREM ToolCallsSpaced == ChatSpec => []ToolsSpaced
<1>1. ChatInv => ToolsSpaced
  BY DEF ChatInv, ToolInv
<1> QED BY <1>1, ChatInvariance, PTL
===============================================================================
