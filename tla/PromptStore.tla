----------------------------- MODULE PromptStore -----------------------------
(***************************************************************************)
(* The prompt and agent definitions of one organization: the handlers of   *)
(* internal/handler/prompt.go over internal/store/prompt.go and the        *)
(* tables of migrations/002_prompts_and_agents.sql, under several requests *)
(* at a time.  A request is one handler goroutine; every SQL statement is  *)
(* a step.  The database is SQLite in WAL mode: a transaction reads the    *)
(* snapshot of its first statement, one transaction writes at a time, and  *)
(* one whose snapshot is no longer the newest cannot start to write.       *)
(***************************************************************************)
EXTENDS Naturals, Sequences, FiniteSets

CONSTANTS
  Req,        \* requests, at most one handler each
  PromptKey,  \* prompt_id slugs
  AgentKey,   \* agent_id slugs
  None        \* nobody holds the write lock

ASSUME KeysDisjoint == PromptKey \cap AgentKey = {}
ASSUME NoneIsNoRequest == None \notin Req

Key == PromptKey \cup AgentKey

VARIABLES
  rows,    \* the committed tables: per key its rows, in the order of insertion
  work,    \* the tables as the write transaction sees them
  writer,  \* the request whose transaction holds the write lock, or None
  stale,   \* open read transactions whose snapshot is not the newest one
  pc,      \* where each request is
  op,      \* what it asks for: put, delete or read
  key,     \* of which slug
  maxv,    \* maxVersion of UpsertPrompt
  told,    \* the version a request was answered with, 0 for none
  floor    \* history: the newest version acknowledged before the request arrived

db   == <<rows, work, writer, stale>>
vars == <<rows, work, writer, stale, pc, op, key, maxv, told, floor>>

Open      == {"open", "read", "locked", "inserted"}  \* nothing committed yet
Committed == {"committed", "done", "lost"}
Step      == Open \cup Committed \cup {"idle", "failed"}

\* agents have no version column: their rows carry 0.
Row == [by : Req, version : Nat, active : BOOLEAN]

TypeOK ==
  /\ rows \in [Key -> Seq(Row)]
  /\ work \in [Key -> Seq(Row)]
  /\ writer \in Req \cup {None}
  /\ stale \subseteq Req
  /\ pc \in [Req -> Step]
  /\ op \in [Req -> {"put", "delete", "read"}]
  /\ key \in [Req -> Key]
  /\ maxv \in [Req -> Nat]
  /\ told \in [Req -> Nat]
  /\ floor \in [Req -> Nat]

Init ==
  /\ rows = [k \in Key |-> <<>>]
  /\ work = rows
  /\ writer = None
  /\ stale = {}
  /\ pc = [r \in Req |-> "idle"]
  /\ op = [r \in Req |-> "read"]
  /\ key \in {[r \in Req |-> k] : k \in Key}
  /\ maxv = [r \in Req |-> 0]
  /\ told = [r \in Req |-> 0]
  /\ floor = [r \in Req |-> 0]
------------------------------------------------------------------------------
(* The statements. *)

ActiveIn(s) == {i \in DOMAIN s : s[i].active}

\* SELECT COALESCE(MAX(version), 0)
IsNewest(v, S) == v \in S /\ \A m \in S : m <= v
Versions(s)    == {0} \cup {s[i].version : i \in DOMAIN s}

\* UPDATE ... SET is_active = 0
Deactivated(s) == [i \in DOMAIN s |-> [s[i] EXCEPT !.active = FALSE]]

NewPromptRow(r) == [by |-> r, version |-> maxv[r] + 1, active |-> TRUE]
NewAgentRow(r)  == [by |-> r, version |-> 0, active |-> TRUE]

\* The unique partial indexes: one active row of a slug.
IndexAllows(s) == ActiveIn(s) = {}

\* A commit leaves every open read transaction with an old snapshot.
Readers == {r \in Req : pc[r] = "read"}

GrabLock(r) ==
  /\ writer = None
  /\ writer' = r
  /\ stale' = stale \ {r}
  /\ pc' = [pc EXCEPT ![r] = "locked"]

ReleaseLock(r) == writer' = IF writer = r THEN None ELSE writer
------------------------------------------------------------------------------
(* Requests. *)

Acknowledged(k) ==
  {0} \cup {told[q] : q \in {p \in Req : pc[p] = "done" /\ op[p] = "put" /\ key[p] = k}}

Arrive(r, o, k) ==
  /\ pc[r] = "idle"
  /\ o = "delete" => k \in PromptKey
  /\ pc' = [pc EXCEPT ![r] = "open"]
  /\ op' = [op EXCEPT ![r] = o]
  /\ key' = [key EXCEPT ![r] = k]
  /\ \E n \in Acknowledged(k) :
       IsNewest(n, Acknowledged(k)) /\ floor' = [floor EXCEPT ![r] = n]
  /\ UNCHANGED <<db, maxv, told>>

\* A body that does not parse or validate: 400.
Refuse(r) ==
  /\ pc[r] = "open" /\ op[r] = "put"
  /\ pc' = [pc EXCEPT ![r] = "failed"]
  /\ UNCHANGED <<db, op, key, maxv, told, floor>>

Asks(r, o, K) == pc[r] = "open" /\ op[r] = o /\ key[r] \in K

\* The first statement of UpsertPrompt takes the transaction's snapshot.
SelectMaxVersion(r) ==
  /\ Asks(r, "put", PromptKey)
  /\ \E v \in Versions(rows[key[r]]) :
       IsNewest(v, Versions(rows[key[r]])) /\ maxv' = [maxv EXCEPT ![r] = v]
  /\ pc' = [pc EXCEPT ![r] = "read"]
  /\ UNCHANGED <<db, op, key, told, floor>>

\* Defect: the maximum was read outside the transaction.
DeactivateAnySnapshot(r) ==
  /\ pc[r] = "read"
  /\ GrabLock(r)
  /\ work' = [work EXCEPT ![key[r]] = Deactivated(@)]
  /\ UNCHANGED <<rows, op, key, maxv, told, floor>>

\* Its first write asks for the lock, which an old snapshot is refused.
DeactivatePrompt(r) ==
  /\ pc[r] = "read" /\ r \notin stale
  /\ GrabLock(r)
  /\ work' = [work EXCEPT ![key[r]] = Deactivated(@)]
  /\ UNCHANGED <<rows, op, key, maxv, told, floor>>

InsertPrompt(r) ==
  /\ pc[r] = "locked" /\ key[r] \in PromptKey /\ IndexAllows(work[key[r]])
  /\ work' = [work EXCEPT ![key[r]] = Append(@, NewPromptRow(r))]
  /\ pc' = [pc EXCEPT ![r] = "inserted"]
  /\ UNCHANGED <<rows, writer, stale, op, key, maxv, told, floor>>

\* Defect: the old definition is deactivated outside the transaction.
DeactivateAgentAtOnce(r) ==
  /\ Asks(r, "put", AgentKey)
  /\ GrabLock(r)
  /\ rows' = [rows EXCEPT ![key[r]] = Deactivated(@)]
  /\ work' = rows'
  /\ UNCHANGED <<op, key, maxv, told, floor>>

\* UpsertAgent writes first: its snapshot is taken with the lock.
DeactivateAgent(r) ==
  /\ Asks(r, "put", AgentKey)
  /\ GrabLock(r)
  /\ work' = [work EXCEPT ![key[r]] = Deactivated(@)]
  /\ UNCHANGED <<rows, op, key, maxv, told, floor>>

InsertAgent(r) ==
  /\ pc[r] = "locked" /\ key[r] \in AgentKey /\ IndexAllows(work[key[r]])
  /\ work' = [work EXCEPT ![key[r]] = Append(@, NewAgentRow(r))]
  /\ pc' = [pc EXCEPT ![r] = "inserted"]
  /\ UNCHANGED <<rows, writer, stale, op, key, maxv, told, floor>>

Commit(r) ==
  /\ pc[r] = "inserted"
  /\ rows' = work
  /\ ReleaseLock(r)
  /\ stale' = stale \cup Readers
  /\ told' = [told EXCEPT ![r] = IF key[r] \in PromptKey THEN maxv[r] + 1
                                 ELSE Len(work[key[r]])]
  /\ pc' = [pc EXCEPT ![r] = "committed"]
  /\ UNCHANGED <<work, op, key, maxv, floor>>

\* One UPDATE in a transaction of its own, whether or not the prompt exists.
DeletePrompt(r) ==
  /\ Asks(r, "delete", PromptKey)
  /\ writer = None
  /\ rows' = [rows EXCEPT ![key[r]] = Deactivated(@)]
  /\ work' = rows'
  /\ stale' = stale \cup Readers
  /\ pc' = [pc EXCEPT ![r] = "committed"]
  /\ UNCHANGED <<writer, op, key, maxv, told, floor>>

\* The 200 of a write.
Answer(r) ==
  /\ pc[r] = "committed"
  /\ pc' = [pc EXCEPT ![r] = "done"]
  /\ UNCHANGED <<db, op, key, maxv, told, floor>>

\* The 500 of a write: a busy database, an old snapshot, an index, a context
\* that is over, a failing disk.  The deferred Rollback undoes the transaction.
Fail(r) ==
  /\ pc[r] \in Open
  /\ pc' = [pc EXCEPT ![r] = "failed"]
  /\ ReleaseLock(r)
  /\ work' = IF writer = r THEN rows ELSE work
  /\ stale' = stale \ {r}
  /\ UNCHANGED <<rows, op, key, maxv, told, floor>>
------------------------------------------------------------------------------
(* Reads: one SELECT of the newest snapshot. *)

\* Defect: no condition on is_active.
AnyRow(s, i) == i \in DOMAIN s \/ (s = <<>> /\ i = 0)

\* GetActivePrompt and GetActiveAgent: any row the condition lets through.
ActiveRow(s, i) == i \in ActiveIn(s) \/ (ActiveIn(s) = {} /\ i = 0)

\* The entry of a slug in ListPrompts or ListAgents, if it has one.
Listed(k, i) == ActiveRow(rows[k], i)

\* GetPromptHistory: the first of ORDER BY version DESC.
FirstOfHistory(s, i) ==
  \/ s = <<>> /\ i = 0
  \/ i \in DOMAIN s /\ IsNewest(s[i].version, Versions(s))

Got(r, i) ==
  /\ told' = [told EXCEPT ![r] = i]
  /\ pc' = [pc EXCEPT ![r] = "done"]
  /\ UNCHANGED <<db, op, key, maxv, floor>>

Position(s) == 0 .. Len(s)

GetPrompt(r) ==
  /\ Asks(r, "read", PromptKey)
  /\ \E i \in Position(rows[key[r]]) : ActiveRow(rows[key[r]], i) /\ Got(r, i)

ListPrompts(r) ==
  /\ Asks(r, "read", PromptKey)
  /\ \E i \in Position(rows[key[r]]) : Listed(key[r], i) /\ Got(r, i)

GetPromptHistory(r) ==
  /\ Asks(r, "read", PromptKey)
  /\ \E i \in Position(rows[key[r]]) : FirstOfHistory(rows[key[r]], i) /\ Got(r, i)

GetAgent(r) ==
  /\ Asks(r, "read", AgentKey)
  /\ \E i \in Position(rows[key[r]]) : ActiveRow(rows[key[r]], i) /\ Got(r, i)

ListAgents(r) ==
  /\ Asks(r, "read", AgentKey)
  /\ \E i \in Position(rows[key[r]]) : Listed(key[r], i) /\ Got(r, i)
------------------------------------------------------------------------------
(* The rest of the program. *)

\* Another store commits to the same database file.
OtherWrite ==
  /\ writer = None
  /\ stale' = stale \cup Readers
  /\ UNCHANGED <<rows, work, writer, pc, op, key, maxv, told, floor>>

\* The process ends between two steps and is started again.  The file keeps
\* what was committed; every connection is gone.
Crash ==
  /\ pc' = [r \in Req |-> IF pc[r] \in Open THEN "failed"
                          ELSE IF pc[r] = "committed" THEN "lost" ELSE pc[r]]
  /\ writer' = None
  /\ work' = rows
  /\ stale' = {}
  /\ UNCHANGED <<rows, op, key, maxv, told, floor>>

Upsert(r) == \/ SelectMaxVersion(r) \/ DeactivatePrompt(r) \/ InsertPrompt(r)
             \/ DeactivateAgent(r) \/ InsertAgent(r)
             \/ Commit(r)

Read(r) == \/ GetPrompt(r) \/ ListPrompts(r) \/ GetPromptHistory(r)
           \/ GetAgent(r) \/ ListAgents(r)

Handler(r) == Refuse(r) \/ Upsert(r) \/ DeletePrompt(r) \/ Answer(r) \/ Fail(r) \/ Read(r)

Next == \/ \E r \in Req, o \in {"put", "delete", "read"}, k \in Key : Arrive(r, o, k)
        \/ \E r \in Req : Handler(r)
        \/ OtherWrite
        \/ Crash

Spec == Init /\ [][Next]_vars
------------------------------------------------------------------------------
(* Properties. *)

RowsOf(r) == {i \in DOMAIN rows[key[r]] : rows[key[r]][i].by = r}

\* An upsert that was committed is one row, under the version its client is
\* told, and stays there whatever other editors do; one that failed left
\* nothing behind.
AnsweredAsStored ==
  \A r \in Req : op[r] = "put" =>
    /\ pc[r] \in Committed =>
         RowsOf(r) = {told[r]} /\ (key[r] \in PromptKey => rows[key[r]][told[r]].version = told[r])
    /\ pc[r] \notin Committed => RowsOf(r) = {}

Deleted(k) == \E d \in Req : op[d] = "delete" /\ key[d] = k /\ pc[d] \in Committed

\* Requests take effect in the order clients see: an upsert gets a newer
\* version than every one acknowledged before it was sent, and no read answers
\* with an older one; only a delete can make a definition disappear.
RealTimeOrder ==
  \A r \in Req : pc[r] = "done" =>
    /\ op[r] = "put" => told[r] > floor[r]
    /\ op[r] = "read" => told[r] >= floor[r] \/ (told[r] = 0 /\ Deleted(key[r]))

(* The inductive invariant. *)

Inserted(r) ==
  Append(Deactivated(rows[key[r]]), IF key[r] \in PromptKey THEN NewPromptRow(r) ELSE NewAgentRow(r))

\* Only the holder of the lock sees tables that are not the committed ones.
LockInv ==
  /\ \A r \in Req : writer = r <=> pc[r] \in {"locked", "inserted"}
  /\ writer = None => work = rows
  /\ \A r \in Req : pc[r] = "locked" => work = [rows EXCEPT ![key[r]] = Deactivated(rows[key[r]])]
  /\ \A r \in Req : pc[r] = "inserted" => work = [rows EXCEPT ![key[r]] = Inserted(r)]

\* A maximum that may still be used is the newest version.
SnapshotInv ==
  \A r \in Req :
    /\ pc[r] \in {"read", "locked", "inserted"} => op[r] = "put"
    /\ pc[r] = "read" => key[r] \in PromptKey
    /\ pc[r] = "read" /\ r \notin stale => maxv[r] = Len(rows[key[r]])
    /\ pc[r] \in {"locked", "inserted"} /\ key[r] \in PromptKey => maxv[r] = Len(rows[key[r]])

VersionInv ==
  \A k \in Key : \A i \in 1 .. Len(rows[k]) :
    /\ k \in PromptKey => rows[k][i].version = i
    /\ rows[k][i].active => i = Len(rows[k])

\* Only a delete leaves a slug with versions and without an active one.
HiddenInv ==
  \A k \in Key : rows[k] # <<>> => rows[k][Len(rows[k])].active \/ Deleted(k)

RowInv ==
  /\ \A k \in Key : \A i \in 1 .. Len(rows[k]) :
       LET q == rows[k][i].by
       IN  op[q] = "put" /\ key[q] = k /\ pc[q] \in Committed /\ told[q] = i
  /\ \A r \in Req : op[r] = "put" /\ pc[r] \in Committed =>
       told[r] \in 1 .. Len(rows[key[r]]) /\ rows[key[r]][told[r]].by = r

FloorInv ==
  \A r \in Req :
    /\ pc[r] # "idle" => floor[r] <= Len(rows[key[r]])
    /\ pc[r] \in Committed /\ op[r] = "put" => told[r] > floor[r]
    /\ pc[r] \in Committed /\ op[r] = "read" =>
         told[r] >= floor[r] \/ (told[r] = 0 /\ Deleted(key[r]))

StoreInv == TypeOK /\ LockInv /\ SnapshotInv /\ VersionInv /\ HiddenInv /\ RowInv /\ FloorInv
------------------------------------------------------------------------------
Published(k) ==
  [i \in DOMAIN rows[k] |->
    [by |-> rows[k][i].by, version |-> IF k \in PromptKey THEN rows[k][i].version ELSE i]]

PublishedRows == [k \in Key |-> Published(k)]
ServedRows    == [k \in Key |-> ActiveIn(rows[k])]

Abstract == INSTANCE VersionedStore WITH
  Retirable <- PromptKey, Author <- Req, published <- PublishedRows, serving <- ServedRows

\* The store implements its contract: every upsert takes effect in one step,
\* versions have no gap and no duplicate, a slug serves its newest version or,
\* after a delete, nothing, and a published version is never changed.
ImplementsVersionedStore == Abstract!VSSpec
==============================================================================
