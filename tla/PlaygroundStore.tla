--------------------------- MODULE PlaygroundStore ---------------------------
(***************************************************************************)
(* An in-memory store of the playground: AgentStore and ConversationStore  *)
(* (internal/store/playground).  Both keep a map from ids to entries, an   *)
(* index from visitors to the ids they own, a quota per visitor, a time to *)
(* live that every access renews, and a goroutine that sweeps on a ticker. *)
(*                                                                         *)
(* Every method holds the store's mutex from its first to its last line,   *)
(* so each is one action.  A call that is refused (quota, unknown id,      *)
(* another visitor's entry) changes nothing and has no action.             *)
(***************************************************************************)
EXTENDS Naturals, FiniteSets

CONSTANTS
  Visitor,   \* visitor ids (the cookie or address of an anonymous client)
  Id,        \* ids uuid.NewString may return; each is returned once
  Quota,     \* MaxAgentsPerIP, MaxConvPerIP
  TTL,       \* TTLMinutes
  Every,     \* CleanupSecs, in the unit of TTL
  MaxTime    \* model bound: where the clock stops

ASSUME StoreAssumption ==
  /\ Quota \in Nat
  /\ TTL \in Nat
  /\ Every \in Nat \ {0}
  /\ MaxTime \in Nat

VARIABLES
  entries,    \* the map: live id -> its owner and when it expires
  index,      \* byOwner, byVisitor.  The order of a list is never read
  issued,     \* the ids handed out so far
  now,        \* time.Now()
  nextSweep,  \* when the ticker fires next
  sweeper     \* the cleanup goroutine: "on", "stopping" (stopCh closed), "off"

storeVars == <<entries, index, issued, now, nextSweep, sweeper>>

Entry == [owner : Visitor, expires : Nat]
Live == DOMAIN entries
OwnedBy(v) == {id \in Live : entries[id].owner = v}
Expired == {id \in Live : now > entries[id].expires}

TypeOK ==
  /\ Live \subseteq issued
  /\ entries \in [Live -> Entry]
  /\ index \in [Visitor -> SUBSET Id]
  /\ issued \subseteq Id
  /\ now \in 0 .. MaxTime
  /\ nextSweep \in Nat
  /\ sweeper \in {"on", "stopping", "off"}

Init ==
  /\ entries = [id \in {} |-> {}]
  /\ index = [v \in Visitor |-> {}]
  /\ issued = {}
  /\ now = 0
  /\ nextSweep = Every
  /\ sweeper = "on"

Renewed(owner) == [owner |-> owner, expires |-> now + TTL]

(* Create, GetOrCreate: always a new entry, if the visitor has room. *)
Create(v) ==
  /\ Cardinality(index[v]) < Quota
  /\ \E id \in Id \ issued :
       /\ entries' = [x \in Live \cup {id} |-> IF x = id THEN Renewed(v) ELSE entries[x]]
       /\ index' = [index EXCEPT ![v] = @ \cup {id}]
       /\ issued' = issued \cup {id}
  /\ UNCHANGED <<now, nextSweep, sweeper>>

(* Get by the owner renews the entry, even one that is past its time and   *)
(* only waits for the next sweep: Get compares no times.                   *)
Get(id, v) ==
  /\ id \in Live /\ entries[id].owner = v
  /\ entries' = [entries EXCEPT ![id] = Renewed(v)]
  /\ UNCHANGED <<index, issued, now, nextSweep, sweeper>>

(* AddMessage (conversations only) renews by id, whoever the owner is. *)
AddMessage(id) ==
  /\ id \in Live
  /\ entries' = [entries EXCEPT ![id] = Renewed(entries[id].owner)]
  /\ UNCHANGED <<index, issued, now, nextSweep, sweeper>>

\* The entries and the index without the ids of R.
Drop(R) ==
  /\ entries' = [id \in Live \ R |-> entries[id]]
  /\ index' = [v \in Visitor |-> index[v] \ (R \cap OwnedBy(v))]

Delete(id, v) ==
  /\ id \in Live /\ entries[id].owner = v
  /\ Drop({id})
  /\ UNCHANGED <<issued, now, nextSweep, sweeper>>

\* Defect: the sweep removes the entries but not their ids from the index.
SweepForgetsIndex ==
  /\ sweeper # "off" /\ now = nextSweep
  /\ entries' = [id \in Live \ Expired |-> entries[id]]
  /\ nextSweep' = nextSweep + Every
  /\ UNCHANGED <<index, issued, now, sweeper>>

\* Defect: the inner break leaves the outer loop too: one entry per sweep.
SweepStopsAtFirst ==
  /\ sweeper # "off" /\ now = nextSweep
  /\ \/ Expired = {} /\ UNCHANGED <<entries, index>>
     \/ \E id \in Expired : Drop({id})
  /\ nextSweep' = nextSweep + Every
  /\ UNCHANGED <<issued, now, sweeper>>

\* Defect: not Before instead of After: an entry goes in its last instant.
SweepTooEarly ==
  /\ sweeper # "off" /\ now = nextSweep
  /\ Drop({id \in Live : now >= entries[id].expires})
  /\ nextSweep' = nextSweep + Every
  /\ UNCHANGED <<issued, now, sweeper>>

(* cleanup, at a tick: everything strictly past its time goes.  With both  *)
(* the ticker and stopCh ready, select may still choose the ticker.        *)
Sweep ==
  /\ sweeper # "off" /\ now = nextSweep
  /\ Drop(Expired)
  /\ nextSweep' = nextSweep + Every
  /\ UNCHANGED <<issued, now, sweeper>>

(* Stop closes stopCh; the goroutine returns at its next select. *)
Stop ==
  /\ sweeper = "on"
  /\ sweeper' = "stopping"
  /\ UNCHANGED <<entries, index, issued, now, nextSweep>>

SweeperEnds ==
  /\ sweeper = "stopping"
  /\ sweeper' = "off"
  /\ UNCHANGED <<entries, index, issued, now, nextSweep>>

(* Time passes.  The sweep is taken to run at the instant of its tick: it  *)
(* waits for no more than the mutex, which is held only briefly.           *)
MayTick == now < MaxTime /\ (sweeper = "off" \/ now < nextSweep)

Tick ==
  /\ MayTick
  /\ now' = now + 1
  /\ UNCHANGED <<entries, index, issued, nextSweep, sweeper>>

Next ==
  \/ \E v \in Visitor : Create(v)
  \/ \E id \in Live, v \in Visitor : Get(id, v) \/ Delete(id, v)
  \/ \E id \in Live : AddMessage(id)
  \/ Sweep \/ Stop \/ SweeperEnds \/ Tick

Spec == Init /\ [][Next]_storeVars

(***************************************************************************)
(* Properties.                                                             *)
(***************************************************************************)
(* The index lists, for each visitor, exactly the entries that are live    *)
(* and his: no id leaks out of it (an entry that no longer counts) or      *)
(* stays in it (a visitor refused for entries that are gone), whichever of *)
(* Delete and cleanup removed the entry.                                   *)
IndexExact == \A v \in Visitor : index[v] = OwnedBy(v)

(* No visitor holds more live entries than the quota, although the quota   *)
(* is checked against the index and not against the map.                   *)
QuotaHolds == \A v \in Visitor : Cardinality(OwnedBy(v)) <= Quota

(* An entry nobody renews is gone one cleanup period after it expired: it  *)
(* cannot hold its visitor's quota for longer.                             *)
GoneInTime ==
  sweeper # "off" => \A id \in Live : now <= entries[id].expires + Every

(* Only its owner's Delete removes an entry before its time, and no other  *)
(* entry with it: a sweep takes none that still has time to live.          *)
FreshEntriesSurvive ==
  [][\A id \in Live \ DOMAIN entries' :
       id \in Expired \/ \E v \in Visitor : Delete(id, v)]_storeVars

(* An entry keeps its owner, and no call shortens the life it has left.    *)
RenewalOnlyExtends ==
  [][\A id \in Live \cap DOMAIN entries' :
       /\ entries'[id].owner = entries[id].owner
       /\ entries'[id].expires >= entries[id].expires]_storeVars

(***************************************************************************)
(* The inductive invariant.                                                *)
(***************************************************************************)
IndexFinite == \A v \in Visitor : IsFiniteSet(index[v]) /\ Cardinality(index[v]) <= Quota

\* No expiry lies further ahead than one TTL; the ticker is never behind.
TimesInv ==
  /\ \A id \in Live : entries[id].expires <= now + TTL
  /\ sweeper # "off" =>
       /\ now <= nextSweep /\ nextSweep <= now + Every
       /\ \A id \in Live : nextSweep <= entries[id].expires + Every

StoreInv == TypeOK /\ IndexExact /\ IndexFinite /\ TimesInv
=============================================================================
