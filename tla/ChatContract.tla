---------------------------- MODULE ChatContract ----------------------------
(***************************************************************************)
(* What one chat request promises, seen from the client and the database,  *)
(* without goroutines or channels: a stream of progress events that ends   *)
(* in exactly one outcome, "done" or "error"; the exchange is stored       *)
(* before "done" is announced, never after it, and never when the outcome  *)
(* is "error".  ChatPipeline implements this specification.                *)
(***************************************************************************)
EXTENDS Naturals, Sequences

VARIABLES
  announced,  \* the kinds of the events announced so far, in order
  delivered,  \* how many of them the client's connection was handed
  stored,     \* the roles of the rows the exchange added to its thread
  closed      \* nothing will be announced any more

contractVars == <<announced, delivered, stored, closed>>

Progress == {"token", "status"}
Outcome == {"done", "error"}

Decided == \E k \in DOMAIN announced : announced[k] \in Outcome

ContractInit ==
  /\ announced = << >>
  /\ delivered = 0
  /\ stored = << >>
  /\ closed = FALSE

\* A token or a status, only while nothing is stored yet.
AnnounceProgress ==
  /\ ~Decided /\ stored = << >>
  /\ \E e \in Progress : announced' = Append(announced, e)
  /\ UNCHANGED <<delivered, stored, closed>>

\* The request failed: it leaves no trace in the thread.
AnnounceError ==
  /\ ~Decided /\ stored = << >>
  /\ announced' = Append(announced, "error")
  /\ UNCHANGED <<delivered, stored, closed>>

AnnounceDone ==
  /\ ~Decided
  /\ announced' = Append(announced, "done")
  /\ UNCHANGED <<delivered, stored, closed>>

\* The question, then the answer; either insert may be missing, each happens
\* at most once, and the answer is never followed by the question.
StoreUser ==
  /\ ~Decided /\ stored = << >>
  /\ stored' = <<"user">>
  /\ UNCHANGED <<announced, delivered, closed>>

StoreAnswer ==
  /\ ~Decided /\ stored \in {<< >>, <<"user">>}
  /\ stored' = Append(stored, "assistant")
  /\ UNCHANGED <<announced, delivered, closed>>

Deliver ==
  /\ delivered < Len(announced)
  /\ delivered' = delivered + 1
  /\ UNCHANGED <<announced, stored, closed>>

Close ==
  /\ Decided /\ ~closed
  /\ closed' = TRUE
  /\ UNCHANGED <<announced, delivered, stored>>

ContractNext ==
  \/ AnnounceProgress \/ AnnounceError \/ AnnounceDone
  \/ StoreUser \/ StoreAnswer \/ Deliver \/ Close

ContractSpec == ContractInit /\ [][ContractNext]_contractVars
=============================================================================
