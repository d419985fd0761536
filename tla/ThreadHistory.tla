---------------------------- MODULE ThreadHistory ----------------------------
(***************************************************************************)
(* The conversations table as the requests of one thread share it: each    *)
(* reads the last rows (ConversationStore.GetHistory), has its answer      *)
(* streamed, and appends its exchange with two separate inserts            *)
(* (persistExchange, SaveMessage).  Nothing orders the requests of a       *)
(* thread except that a client may wait for the outcome of one before it   *)
(* sends the next.  The streaming itself is ChatPipeline's subject.        *)
(***************************************************************************)
EXTENDS Naturals, Sequences, FiniteSets

CONSTANTS
  Request,   \* the chat requests of the thread
  Limit,     \* how many rows GetHistory is asked for (20 in the code)
  MaxTime    \* model bound: where the clock stops

ASSUME LimitAssumption == Limit \in Nat \ {0}
ASSUME MaxTimeAssumption == MaxTime \in Nat

VARIABLES
  table,    \* the rows of the thread; the position of a row orders as its id
  clock,    \* CURRENT_TIMESTAMP: whole seconds
  pc,       \* where each request's worker is
  reply,    \* its final answer is not ""
  history,  \* the rows it read, as positions in the table
  readAt,   \* how many rows the table had when it read
  outcome,  \* what its client was told
  before,   \* the requests that were over for the client when it was sent
  lost      \* requests one of whose inserts failed

threadVars == <<table, clock, pc, reply, history, readAt, outcome, before, lost>>

Row == [req : Request, role : {"user", "assistant"}, at : Nat]
PC == {"new", "read", "answer", "saveUser", "saveReply", "announce", "ended", "dead"}

TypeOK ==
  /\ table \in Seq(Row)
  /\ clock \in 0 .. MaxTime
  /\ pc \in [Request -> PC]
  /\ reply \in [Request -> BOOLEAN]
  /\ history \in [Request -> Seq(Nat)]
  /\ \A r \in Request : Len(history[r]) <= Limit
  /\ readAt \in [Request -> Nat]
  /\ outcome \in [Request -> {"none", "done", "error"}]
  /\ before \in [Request -> SUBSET Request]
  /\ lost \subseteq Request

Init ==
  /\ table = << >>
  /\ clock = 0
  /\ pc = [r \in Request |-> "new"]
  /\ reply = [r \in Request |-> FALSE]
  /\ history = [r \in Request |-> << >>]
  /\ readAt = [r \in Request |-> 0]
  /\ outcome = [r \in Request |-> "none"]
  /\ before = [r \in Request |-> {}]
  /\ lost = {}

(***************************************************************************)
(* The query.  It orders by created_at alone; the index on (thread_id,     *)
(* created_at), scanned backwards, yields rows of one second by id.        *)
(***************************************************************************)
IndexBefore(i, j) ==
  \/ table[i].at < table[j].at
  \/ table[i].at = table[j].at /\ i < j

\* Defect: ascending order, so that LIMIT keeps the oldest rows.
OldestRows ==
  {i \in DOMAIN table : Cardinality({j \in DOMAIN table : IndexBefore(j, i)}) < Limit}

\* ORDER BY created_at DESC LIMIT ?
LastRows ==
  {i \in DOMAIN table : Cardinality({j \in DOMAIN table : IndexBefore(i, j)}) < Limit}

\* The rows of S in index order, as the final reversal leaves them.
InOrder(S) ==
  {h \in [1 .. Cardinality(S) -> S] :
     /\ S = {h[k] : k \in DOMAIN h}
     /\ \A k, l \in DOMAIN h : k < l => IndexBefore(h[k], h[l])}

(***************************************************************************)
(* The requests.                                                           *)
(***************************************************************************)
OverForClient(r) == outcome[r] # "none" \/ pc[r] = "dead"

Goto(r, l) == pc' = [pc EXCEPT ![r] = l]

Send(r) ==
  /\ pc[r] = "new"
  /\ before' = [before EXCEPT ![r] = {a \in Request : OverForClient(a)}]
  /\ Goto(r, "read")
  /\ UNCHANGED <<table, clock, reply, history, readAt, outcome, lost>>

\* An error event ends the request before anything is stored.
Fail(r) ==
  /\ pc[r] \in {"read", "answer"}
  /\ outcome' = [outcome EXCEPT ![r] = "error"]
  /\ Goto(r, "ended")
  /\ UNCHANGED <<table, clock, reply, history, readAt, before, lost>>

Read(r) ==
  /\ pc[r] = "read"
  /\ \E h \in InOrder(LastRows) : history' = [history EXCEPT ![r] = h]
  /\ readAt' = [readAt EXCEPT ![r] = Len(table)]
  /\ Goto(r, "answer")
  /\ UNCHANGED <<table, clock, reply, outcome, before, lost>>

\* Defect: done is announced first and the exchange is persisted after it.
AnswerAnnouncesFirst(r) ==
  /\ pc[r] = "answer"
  /\ \E b \in BOOLEAN : reply' = [reply EXCEPT ![r] = b]
  /\ outcome' = [outcome EXCEPT ![r] = "done"]
  /\ Goto(r, "saveUser")
  /\ UNCHANGED <<table, clock, history, readAt, before, lost>>

\* The reasoning loop ends: with a text, or with "" (an empty answer, or
\* every iteration spent on tool calls).
Answer(r) ==
  /\ pc[r] = "answer"
  /\ \E b \in BOOLEAN : reply' = [reply EXCEPT ![r] = b]
  /\ Goto(r, "saveUser")
  /\ UNCHANGED <<table, clock, history, readAt, outcome, before, lost>>

\* SaveMessage stamps the row with the clock, or fails and is only logged.
Insert(r, role) ==
  \/ /\ table' = Append(table, [req |-> r, role |-> role, at |-> clock])
     /\ UNCHANGED lost
  \/ /\ lost' = lost \cup {r}
     /\ UNCHANGED table

\* Defect: the condition on the reply guards the wrong insert.
SaveUserUnlessReply(r) ==
  /\ pc[r] = "saveUser"
  /\ IF reply[r] THEN UNCHANGED <<table, lost>> ELSE Insert(r, "user")
  /\ Goto(r, IF reply[r] THEN "saveReply" ELSE "announce")
  /\ UNCHANGED <<clock, reply, history, readAt, outcome, before>>

SaveUser(r) ==
  /\ pc[r] = "saveUser"
  /\ Insert(r, "user")
  /\ Goto(r, IF reply[r] THEN "saveReply" ELSE "announce")
  /\ UNCHANGED <<clock, reply, history, readAt, outcome, before>>

SaveReply(r) ==
  /\ pc[r] = "saveReply"
  /\ Insert(r, "assistant")
  /\ Goto(r, "announce")
  /\ UNCHANGED <<clock, reply, history, readAt, outcome, before>>

Announce(r) ==
  /\ pc[r] = "announce"
  /\ outcome' = [outcome EXCEPT ![r] = "done"]
  /\ Goto(r, "ended")
  /\ UNCHANGED <<table, clock, reply, history, readAt, before, lost>>

(* The process stops and starts again: the table is on disk, every request *)
(* in flight is gone and its client sees the connection drop.              *)
Crash ==
  /\ \E r \in Request : pc[r] \notin {"new", "ended", "dead"}
  /\ pc' = [r \in Request |-> IF pc[r] \in {"new", "ended"} THEN pc[r] ELSE "dead"]
  /\ UNCHANGED <<table, clock, reply, history, readAt, outcome, before, lost>>

Tick ==
  /\ clock < MaxTime
  /\ clock' = clock + 1
  /\ UNCHANGED <<table, pc, reply, history, readAt, outcome, before, lost>>

RequestStep(r) ==
  \/ Send(r) \/ Fail(r) \/ Read(r) \/ Answer(r)
  \/ SaveUser(r) \/ SaveReply(r) \/ Announce(r)

Next == (\E r \in Request : RequestStep(r)) \/ Crash \/ Tick

Spec == Init /\ [][Next]_threadVars

(***************************************************************************)
(* Properties.                                                             *)
(***************************************************************************)
HasRead(r) ==
  pc[r] \in {"answer", "saveUser", "saveReply", "announce"} \/ outcome[r] = "done"

(* What a request reads are the rows inserted last before it read, at most *)
(* Limit of them, in the order of their insertion, although the query      *)
(* orders by a timestamp that several of them may share.                   *)
HistoryIsRecent ==
  \A r \in Request : HasRead(r) =>
    /\ {history[r][k] : k \in DOMAIN history[r]} =
         {i \in 1 .. readAt[r] : readAt[r] < i + Limit}
    /\ \A k, l \in DOMAIN history[r] : k < l => history[r][k] < history[r][l]

(* A client that waits for the outcome of a request and then sends another *)
(* one finds everything the first stored in the table the second reads:    *)
(* nothing of it is inserted later, not even after a crash.                *)
FollowUpSeesExchange ==
  \A r \in Request : HasRead(r) =>
    \A i \in DOMAIN table : table[i].req \in before[r] => i <= readAt[r]

Sent == {r \in Request : pc[r] # "new"}
Serial == \A r, s \in Sent : r = s \/ r \in before[s] \/ s \in before[r]
OwnQuestionPrecedes(i) ==
  i > 1 /\ table[i - 1].role = "user" /\ table[i - 1].req = table[i].req

(* In a thread whose client sends one request at a time, a stored answer   *)
(* directly follows its own question, unless an insert failed.             *)
SerialExchangesWhole ==
  Serial => \A i \in DOMAIN table :
    table[i].role = "assistant" /\ table[i].req \notin lost => OwnQuestionPrecedes(i)

(***************************************************************************)
(* The inductive invariant.                                                *)
(***************************************************************************)
\* Later rows are not older, and none is from the future.
ClockInv ==
  /\ \A i, j \in DOMAIN table : i <= j => table[i].at <= table[j].at
  /\ \A i \in DOMAIN table : table[i].at <= clock

\* Only a worker past its answer has rows, and only one that is over for its
\* client is in another request's past.
RowsInv ==
  /\ \A i \in DOMAIN table :
       pc[table[i].req] \in {"saveReply", "announce", "ended", "dead"}
  /\ \A r \in Request : outcome[r] # "none" => pc[r] = "ended"
  /\ \A r \in Request : \A a \in before[r] : pc[a] \in {"ended", "dead"}

\* In a serial thread the question of the answer about to be stored is last.
PairInv ==
  Serial => \A r \in Request : pc[r] = "saveReply" /\ r \notin lost =>
    /\ Len(table) > 0
    /\ table[Len(table)].req = r /\ table[Len(table)].role = "user"

ThreadInv ==
  /\ TypeOK /\ ClockInv /\ RowsInv /\ PairInv
  /\ HistoryIsRecent /\ FollowUpSeesExchange /\ SerialExchangesWhole
=============================================================================
