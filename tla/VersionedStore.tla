--------------------------- MODULE VersionedStore ---------------------------
(***************************************************************************)
(* What the prompt store promises its callers, without transactions or     *)
(* locks: every key has a sequence of published versions that only grows   *)
(* and is numbered without gaps, and serves its newest version or nothing. *)
(***************************************************************************)
EXTENDS Naturals, Sequences

CONSTANTS
  Key,        \* slugs of one organization: prompt_id and agent_id
  Retirable,  \* the keys with a delete operation
  Author      \* the requests that publish

VARIABLES
  published,  \* per key, what was published, oldest first
  serving     \* per key, the versions a reader may be given

vs == <<published, serving>>

VSInit ==
  /\ published = [k \in Key |-> <<>>]
  /\ serving   = [k \in Key |-> {}]

PublishedBy(k, a) == \E i \in DOMAIN published[k] : published[k][i].by = a

\* A request publishes once; its version becomes the one that is served.
Publish(k, a) ==
  /\ \A j \in Key : ~ PublishedBy(j, a)
  /\ LET n == Len(published[k]) + 1
     IN  /\ published' = [published EXCEPT ![k] = Append(@, [by |-> a, version |-> n])]
         /\ serving'   = [serving EXCEPT ![k] = {n}]

Retire(k) ==
  /\ serving' = [serving EXCEPT ![k] = {}]
  /\ UNCHANGED published

VSNext == \/ \E k \in Key, a \in Author : Publish(k, a)
          \/ \E k \in Retirable : Retire(k)

VSSpec == VSInit /\ [][VSNext]_vs
=============================================================================
