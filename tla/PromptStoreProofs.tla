-------------------------- MODULE PromptStoreProofs --------------------------
(***************************************************************************)
(* Proofs about PromptStore, for any set of requests and any slugs.        *)
(***************************************************************************)
EXTENDS PromptStore, SequenceTheorems, TLAPS

(***************************************************************************)
(* What the statements do to a table.                                      *)
(***************************************************************************)
LEMMA DeactivatedRows ==
  ASSUME NEW s \in Seq(Row)
  PROVE  /\ Deactivated(s) \in Seq(Row)
         /\ Len(Deactivated(s)) = Len(s)
         /\ \A i \in 1 .. Len(s) : /\ Deactivated(s)[i].by = s[i].by
                                   /\ Deactivated(s)[i].version = s[i].version
                                   /\ Deactivated(s)[i].active = FALSE
<1>1. DOMAIN s = 1 .. Len(s) /\ Len(s) \in Nat
  BY LenProperties
<1>2. \A i \in 1 .. Len(s) : s[i] \in Row
  BY ElementOfSeq
<1>3. \A i \in 1 .. Len(s) :
         /\ Deactivated(s)[i] = [s[i] EXCEPT !.active = FALSE]
         /\ Deactivated(s)[i] \in Row
         /\ Deactivated(s)[i].by = s[i].by
         /\ Deactivated(s)[i].version = s[i].version
         /\ Deactivated(s)[i].active = FALSE
  BY <1>1, <1>2 DEF Deactivated, Row
<1>4. Deactivated(s) \in [1 .. Len(s) -> Row]
  BY <1>1, <1>3 DEF Deactivated
<1>5. Deactivated(s) \in Seq(Row)
  BY <1>1, <1>4, IsASeq
<1>6. DOMAIN Deactivated(s) = 1 .. Len(s)
  BY <1>1 DEF Deactivated
<1>7. Len(Deactivated(s)) = Len(s)
  BY <1>1, <1>5, <1>6, LenProperties
<1> QED BY <1>3, <1>5, <1>7

LEMMA AppendedRows ==
  ASSUME NEW s \in Seq(Row), NEW x \in Row
  PROVE  LET t == Append(Deactivated(s), x)
         IN  /\ t \in Seq(Row)
             /\ Len(t) = Len(s) + 1
             /\ t[Len(s) + 1] = x
             /\ \A i \in 1 .. Len(s) : /\ t[i].by = s[i].by
                                       /\ t[i].version = s[i].version
                                       /\ t[i].active = FALSE
<1> DEFINE d == Deactivated(s)
<1>1. d \in Seq(Row) /\ Len(d) = Len(s)
  BY DeactivatedRows
<1>2. /\ Append(d, x) \in Seq(Row)
      /\ Len(Append(d, x)) = Len(s) + 1
      /\ Append(d, x)[Len(s) + 1] = x
      /\ \A i \in 1 .. Len(s) : Append(d, x)[i] = d[i]
  BY <1>1, AppendProperties
<1>3. \A i \in 1 .. Len(s) : /\ Append(d, x)[i].by = s[i].by
                             /\ Append(d, x)[i].version = s[i].version
                             /\ Append(d, x)[i].active = FALSE
  <2> TAKE i \in 1 .. Len(s)
  <2>1. Append(d, x)[i] = Deactivated(s)[i]
    BY <1>2
  <2>2. /\ Deactivated(s)[i].by = s[i].by
        /\ Deactivated(s)[i].version = s[i].version
        /\ Deactivated(s)[i].active = FALSE
    BY DeactivatedRows
  <2> QED BY <2>1, <2>2
<1> QED BY <1>2, <1>3

LEMMA NewRows ==
  ASSUME TypeOK, NEW r \in Req
  PROVE  NewPromptRow(r) \in Row /\ NewAgentRow(r) \in Row
BY DEF TypeOK, NewPromptRow, NewAgentRow, Row

LEMMA InitInv == Init => StoreInv
<1> SUFFICES ASSUME Init PROVE StoreInv
  OBVIOUS
<1>1. TypeOK
  BY EmptySeq DEF Init, TypeOK, Step, Open, Committed
<1>2. \A k \in Key : rows[k] = <<>> /\ Len(rows[k]) = 0
  BY EmptySeq DEF Init
<1>3. LockInv
  BY NoneIsNoRequest DEF Init, LockInv
<1>4. SnapshotInv
  BY DEF Init, SnapshotInv
<1>5. VersionInv /\ HiddenInv
  BY <1>2 DEF VersionInv, HiddenInv
<1>6. RowInv
  BY <1>2 DEF Init, RowInv, Committed
<1>7. FloorInv
  BY DEF Init, FloorInv, Committed
<1> QED BY <1>1, <1>3, <1>4, <1>5, <1>6, <1>7 DEF StoreInv

(***************************************************************************)
(* Types.                                                                  *)
(***************************************************************************)
LEMMA PcType ==
  ASSUME TypeOK, NEW r \in Req, NEW p \in Step
  PROVE  [pc EXCEPT ![r] = p] \in [Req -> Step]
BY DEF TypeOK

LEMMA MoveType ==
  ASSUME TypeOK, NEW r \in Req,
         Refuse(r) \/ Answer(r) \/ (\E o \in {"put", "delete", "read"}, k \in Key : Arrive(r, o, k))
  PROVE  TypeOK'
<1>1. CASE Refuse(r) \/ Answer(r)
  BY <1>1, PcType DEF TypeOK, Refuse, Answer, db, Step, Committed
<1>2. CASE \E o \in {"put", "delete", "read"}, k \in Key : Arrive(r, o, k)
  <2>1. PICK o \in {"put", "delete", "read"}, k \in Key : Arrive(r, o, k)
    BY <1>2
  <2>2. Acknowledged(k) \in SUBSET Nat
    BY DEF Acknowledged, TypeOK
  <2>3. floor' \in [Req -> Nat]
    BY <2>1, <2>2 DEF Arrive, TypeOK
  <2> QED BY <2>1, <2>3, PcType DEF TypeOK, Arrive, db, Step, Open
<1> QED BY <1>1, <1>2

LEMMA SelectType ==
  ASSUME TypeOK, NEW r \in Req, SelectMaxVersion(r)
  PROVE  TypeOK'
<1>1. rows[key[r]] \in Seq(Row)
  BY DEF TypeOK
<1>2. Versions(rows[key[r]]) \in SUBSET Nat
  <2> DEFINE s == rows[key[r]]
  <2>1. DOMAIN s = 1 .. Len(s)
    BY <1>1, LenProperties
  <2>2. \A i \in 1 .. Len(s) : s[i] \in Row
    BY <1>1, ElementOfSeq
  <2>3. \A i \in DOMAIN s : s[i].version \in Nat
    BY <2>1, <2>2 DEF Row
  <2> QED BY <2>3 DEF Versions
<1>3. maxv' \in [Req -> Nat]
  BY <1>2 DEF SelectMaxVersion, TypeOK
<1> QED BY <1>3, PcType DEF TypeOK, SelectMaxVersion, db, Step, Open

LEMMA WriteType ==
  ASSUME TypeOK, NEW r \in Req,
         DeactivatePrompt(r) \/ DeactivateAgent(r) \/ InsertPrompt(r) \/ InsertAgent(r)
  PROVE  TypeOK'
<1>1. work[key[r]] \in Seq(Row) /\ key[r] \in Key
  BY DEF TypeOK
<1>2. CASE DeactivatePrompt(r) \/ DeactivateAgent(r)
  <2>1. work' = [work EXCEPT ![key[r]] = Deactivated(work[key[r]])] /\ GrabLock(r)
    BY <1>2 DEF DeactivatePrompt, DeactivateAgent
  <2>2. work' \in [Key -> Seq(Row)]
    BY <1>1, <2>1, DeactivatedRows DEF TypeOK
  <2>3. pc' \in [Req -> Step] /\ writer' \in Req \cup {None} /\ stale' \subseteq Req
    BY <2>1, PcType DEF GrabLock, Step, Open, TypeOK
  <2> QED BY <1>2, <2>2, <2>3 DEF TypeOK, DeactivatePrompt, DeactivateAgent
<1>3. CASE InsertPrompt(r) \/ InsertAgent(r)
  <2>1. PICK x \in Row : work' = [work EXCEPT ![key[r]] = Append(work[key[r]], x)]
    BY <1>3, NewRows DEF InsertPrompt, InsertAgent
  <2>2. work' \in [Key -> Seq(Row)]
    BY <1>1, <2>1, AppendProperties DEF TypeOK
  <2>3. pc' \in [Req -> Step]
    BY <1>3, PcType DEF InsertPrompt, InsertAgent, Step, Open
  <2> QED BY <1>3, <2>2, <2>3 DEF TypeOK, InsertPrompt, InsertAgent
<1> QED BY <1>2, <1>3

LEMMA CommitType ==
  ASSUME TypeOK, NEW r \in Req, Commit(r) \/ DeletePrompt(r) \/ Fail(r)
  PROVE  TypeOK'
<1>1. rows[key[r]] \in Seq(Row) /\ work[key[r]] \in Seq(Row) /\ key[r] \in Key
  BY DEF TypeOK
<1>2. CASE Commit(r)
  <2>1. Len(work[key[r]]) \in Nat /\ maxv[r] + 1 \in Nat
    BY <1>1, LenProperties DEF TypeOK
  <2>2. told' \in [Req -> Nat]
    BY <1>2, <2>1 DEF Commit, TypeOK
  <2>3. pc' \in [Req -> Step]
    BY <1>2, PcType DEF Commit, Step, Committed
  <2> QED BY <1>2, <2>2, <2>3 DEF TypeOK, Commit, ReleaseLock, Readers
<1>3. CASE DeletePrompt(r)
  <2>1. rows' \in [Key -> Seq(Row)]
    BY <1>1, <1>3, DeactivatedRows DEF TypeOK, DeletePrompt
  <2>2. pc' \in [Req -> Step]
    BY <1>3, PcType DEF DeletePrompt, Step, Committed
  <2> QED BY <1>3, <2>1, <2>2 DEF TypeOK, DeletePrompt, Readers
<1>4. CASE Fail(r)
  BY <1>4, PcType DEF TypeOK, Fail, ReleaseLock, Step
<1> QED BY <1>2, <1>3, <1>4

\* A read is answered with a position of the slug's rows.
LEMMA ReadIsGot ==
  ASSUME TypeOK, NEW r \in Req, Read(r)
  PROVE  \E i \in Position(rows[key[r]]) :
           /\ Got(r, i)
           /\ \/ ActiveRow(rows[key[r]], i)
              \/ key[r] \in PromptKey /\ FirstOfHistory(rows[key[r]], i)
           /\ pc[r] = "open" /\ op[r] = "read"
BY DEF Read, GetPrompt, ListPrompts, GetPromptHistory, GetAgent, ListAgents, Listed, Asks

LEMMA ReadType ==
  ASSUME TypeOK, NEW r \in Req, Read(r)
  PROVE  TypeOK'
<1>1. PICK i \in Position(rows[key[r]]) : Got(r, i)
  BY ReadIsGot
<1>2. i \in Nat
  BY LenProperties DEF TypeOK, Position
<1>3. told' \in [Req -> Nat]
  BY <1>1, <1>2 DEF Got, TypeOK
<1> QED BY <1>1, <1>3, PcType DEF TypeOK, Got, db, Step, Committed

LEMMA TypeKeeps == TypeOK /\ [Next]_vars => TypeOK'
<1> SUFFICES ASSUME TypeOK, [Next]_vars PROVE TypeOK'
  OBVIOUS
<1>1. ASSUME NEW r \in Req, Handler(r) PROVE TypeOK'
  BY <1>1, MoveType, SelectType, WriteType, CommitType, ReadType DEF Handler, Upsert
<1>2. CASE OtherWrite
  BY <1>2 DEF TypeOK, OtherWrite, Readers
<1>3. CASE Crash
  <2>1. pc' \in [Req -> Step]
    BY <1>3 DEF Crash, TypeOK, Step, Committed
  <2> QED BY <1>3, <2>1 DEF TypeOK, Crash
<1>4. CASE UNCHANGED vars
  BY <1>4 DEF TypeOK, vars
<1> QED BY <1>1, <1>2, <1>3, <1>4, MoveType DEF Next

(***************************************************************************)
(* The write lock.                                                         *)
(***************************************************************************)
LEMMA NobodyLocks ==
  ASSUME LockInv, writer = None
  PROVE  \A q \in Req : pc[q] \notin {"locked", "inserted"}
BY NoneIsNoRequest DEF LockInv

\* Steps that leave the tables and the lock alone.
LEMMA LockQuiet ==
  ASSUME TypeOK, LockInv, NEW r \in Req,
         UNCHANGED <<rows, work, writer>>,
         pc[r] \notin {"locked", "inserted"}, pc'[r] \notin {"locked", "inserted"},
         \A q \in Req : q # r => pc'[q] = pc[q] /\ key'[q] = key[q] /\ maxv'[q] = maxv[q]
  PROVE  LockInv'
<1>1. \A q \in Req : writer' = q <=> pc'[q] \in {"locked", "inserted"}
  BY DEF LockInv
<1>2. writer' = None => work' = rows'
  BY DEF LockInv
<1>3. ASSUME NEW q \in Req, pc'[q] = "locked"
      PROVE  work' = [rows' EXCEPT ![key'[q]] = Deactivated(rows'[key'[q]])]
  <2>1. q # r
    BY <1>3
  <2> QED BY <1>3, <2>1 DEF LockInv
<1>4. ASSUME NEW q \in Req, pc'[q] = "inserted"
      PROVE  work' = [rows' EXCEPT ![key'[q]] = Inserted(q)']
  <2>1. q # r
    BY <1>4
  <2>2. Inserted(q)' = Inserted(q)
    BY <2>1 DEF Inserted, NewPromptRow, NewAgentRow
  <2> QED BY <1>4, <2>1, <2>2 DEF LockInv
<1> QED BY <1>1, <1>2, <1>3, <1>4 DEF LockInv

LEMMA LockTaken ==
  ASSUME TypeOK, LockInv, NEW r \in Req, DeactivatePrompt(r) \/ DeactivateAgent(r)
  PROVE  LockInv'
<1>1. /\ writer = None /\ writer' = r /\ pc' = [pc EXCEPT ![r] = "locked"]
      /\ work' = [work EXCEPT ![key[r]] = Deactivated(work[key[r]])]
      /\ rows' = rows /\ key' = key
  BY DEF DeactivatePrompt, DeactivateAgent, GrabLock
<1>2. work = rows
  BY <1>1 DEF LockInv
<1>3. pc'[r] = "locked" /\ \A q \in Req : q # r => pc'[q] \notin {"locked", "inserted"}
  BY <1>1, NobodyLocks DEF TypeOK
<1> QED BY <1>1, <1>2, <1>3, NoneIsNoRequest DEF LockInv

LEMMA LockInserts ==
  ASSUME TypeOK, LockInv, NEW r \in Req, InsertPrompt(r) \/ InsertAgent(r)
  PROVE  LockInv'
<1>1. /\ pc[r] = "locked" /\ pc' = [pc EXCEPT ![r] = "inserted"]
      /\ UNCHANGED <<rows, writer, key, maxv>>
  BY DEF InsertPrompt, InsertAgent
<1>2. writer = r /\ work = [rows EXCEPT ![key[r]] = Deactivated(rows[key[r]])]
  BY <1>1 DEF LockInv
<1>3. work[key[r]] = Deactivated(rows[key[r]])
  BY <1>2 DEF TypeOK
<1>4. work' = [work EXCEPT ![key[r]] = Inserted(r)]
  BY <1>3, KeysDisjoint DEF InsertPrompt, InsertAgent, Inserted, TypeOK
<1>5. work' = [rows EXCEPT ![key[r]] = Inserted(r)]
  BY <1>2, <1>4 DEF TypeOK
<1>6. Inserted(r)' = Inserted(r)
  BY <1>1 DEF Inserted, NewPromptRow, NewAgentRow
<1>7. pc'[r] = "inserted" /\ \A q \in Req : q # r => pc'[q] \notin {"locked", "inserted"}
  BY <1>1, <1>2 DEF LockInv, TypeOK
<1> QED BY <1>1, <1>2, <1>5, <1>6, <1>7, NoneIsNoRequest DEF LockInv

LEMMA LockReleased ==
  ASSUME TypeOK, LockInv, NEW r \in Req, Commit(r) \/ DeletePrompt(r) \/ Fail(r)
  PROVE  LockInv'
<1>1. CASE Commit(r)
  <2>1. writer = r /\ writer' = None /\ work' = rows'
    BY <1>1 DEF Commit, LockInv, ReleaseLock
  <2>2. \A q \in Req : pc'[q] \notin {"locked", "inserted"}
    BY <1>1, <2>1 DEF Commit, LockInv, TypeOK
  <2> QED BY <2>1, <2>2, NoneIsNoRequest DEF LockInv
<1>2. CASE DeletePrompt(r)
  <2>1. \A q \in Req : pc'[q] \notin {"locked", "inserted"}
    BY <1>2, NobodyLocks DEF DeletePrompt, TypeOK
  <2> QED BY <1>2, <2>1, NoneIsNoRequest DEF DeletePrompt, LockInv
<1>3. CASE Fail(r)
  <2>1. pc' = [pc EXCEPT ![r] = "failed"] /\ UNCHANGED <<rows, key, maxv>>
    BY <1>3 DEF Fail
  <2>2. CASE writer = r
    <3>1. writer' = None /\ work' = rows'
      BY <1>3, <2>2 DEF Fail, ReleaseLock
    <3>2. \A q \in Req : pc'[q] \notin {"locked", "inserted"}
      BY <2>1, <2>2 DEF LockInv, TypeOK
    <3> QED BY <3>1, <3>2, NoneIsNoRequest DEF LockInv
  <2>3. CASE writer # r
    <3>1. UNCHANGED <<work, writer>>
      BY <1>3, <2>3 DEF Fail, ReleaseLock
    <3>2. pc[r] \notin {"locked", "inserted"}
      BY <2>3 DEF LockInv
    <3> QED BY <2>1, <3>1, <3>2, LockQuiet DEF TypeOK
  <2> QED BY <2>2, <2>3
<1> QED BY <1>1, <1>2, <1>3

LEMMA LockKeeps ==
  ASSUME TypeOK, LockInv, [Next]_vars
  PROVE  LockInv'
<1>1. ASSUME NEW r \in Req, NEW o \in {"put", "delete", "read"}, NEW k \in Key, Arrive(r, o, k)
      PROVE  LockInv'
  BY <1>1, LockQuiet DEF Arrive, db, TypeOK
<1>2. ASSUME NEW r \in Req, Handler(r)
      PROVE  LockInv'
  <2>1. CASE Refuse(r) \/ Answer(r) \/ SelectMaxVersion(r)
    BY <2>1, LockQuiet DEF Refuse, Answer, SelectMaxVersion, Asks, db, TypeOK
  <2>2. CASE Read(r)
    <3>1. PICK i \in Position(rows[key[r]]) : Got(r, i) /\ pc[r] = "open"
      BY <2>2, ReadIsGot
    <3> QED BY <3>1, LockQuiet DEF Got, db, TypeOK
  <2> QED BY <1>2, <2>1, <2>2, LockTaken, LockInserts, LockReleased DEF Handler, Upsert
<1>3. CASE OtherWrite
  <2>1. UNCHANGED <<rows, work, writer, pc, key, maxv>>
    BY <1>3 DEF OtherWrite
  <2> QED BY <2>1 DEF LockInv, Inserted, NewPromptRow, NewAgentRow
<1>4. CASE Crash
  <2>1. \A q \in Req : pc'[q] \notin {"locked", "inserted"}
    BY <1>4 DEF Crash, TypeOK, Open
  <2> QED BY <1>4, <2>1, NoneIsNoRequest DEF Crash, LockInv
<1>5. CASE UNCHANGED vars
  BY <1>5 DEF vars, LockInv, Inserted, NewPromptRow, NewAgentRow
<1> QED BY <1>1, <1>2, <1>3, <1>4, <1>5 DEF Next

(***************************************************************************)
(* What a step does to the requests and to the tables.                     *)
(***************************************************************************)
\* A request keeps what it asks for, and its outcome once it has one.
LEMMA RequestsStay ==
  ASSUME TypeOK, [Next]_vars, NEW q \in Req
  PROVE  /\ pc[q] # "idle" => /\ pc'[q] # "idle" /\ op'[q] = op[q]
                              /\ key'[q] = key[q] /\ floor'[q] = floor[q]
         /\ pc[q] \in Committed => pc'[q] \in Committed /\ told'[q] = told[q]
<1> USE DEF TypeOK, Committed, Open, db
<1>1. ASSUME NEW r \in Req, NEW o \in {"put", "delete", "read"}, NEW k \in Key, Arrive(r, o, k)
      PROVE  /\ pc[q] # "idle" => /\ pc'[q] # "idle" /\ op'[q] = op[q]
                                  /\ key'[q] = key[q] /\ floor'[q] = floor[q]
             /\ pc[q] \in Committed => pc'[q] \in Committed /\ told'[q] = told[q]
  BY <1>1 DEF Arrive
<1>2. ASSUME NEW r \in Req, Handler(r)
      PROVE  /\ pc[q] # "idle" => /\ pc'[q] # "idle" /\ op'[q] = op[q]
                                  /\ key'[q] = key[q] /\ floor'[q] = floor[q]
             /\ pc[q] \in Committed => pc'[q] \in Committed /\ told'[q] = told[q]
  <2>1. CASE Refuse(r) \/ Answer(r) \/ SelectMaxVersion(r)
    BY <2>1 DEF Refuse, Answer, SelectMaxVersion, Asks
  <2>2. CASE DeactivatePrompt(r) \/ DeactivateAgent(r)
    BY <2>2 DEF DeactivatePrompt, DeactivateAgent, GrabLock, Asks
  <2>3. CASE InsertPrompt(r) \/ InsertAgent(r) \/ Commit(r) \/ DeletePrompt(r) \/ Fail(r)
    BY <2>3 DEF InsertPrompt, InsertAgent, Commit, DeletePrompt, Fail, Asks
  <2>4. CASE Read(r)
    <3>1. PICK i \in Position(rows[key[r]]) : Got(r, i) /\ pc[r] = "open"
      BY <2>4, ReadIsGot
    <3> QED BY <3>1 DEF Got
  <2> QED BY <1>2, <2>1, <2>2, <2>3, <2>4 DEF Handler, Upsert
<1>3. CASE OtherWrite
  BY <1>3 DEF OtherWrite
<1>4. CASE Crash
  BY <1>4 DEF Crash
<1>5. CASE UNCHANGED vars
  BY <1>5 DEF vars
<1> QED BY <1>1, <1>2, <1>3, <1>4, <1>5 DEF Next

\* An upsert becomes a committed one by its commit.
LEMMA NewlyCommitted ==
  ASSUME TypeOK, SnapshotInv, [Next]_vars, NEW q \in Req,
         pc[q] \notin Committed, pc'[q] \in Committed, op'[q] = "put"
  PROVE  Commit(q)
<1> USE DEF Committed, Open, TypeOK
<1>1. ASSUME NEW r \in Req, NEW o \in {"put", "delete", "read"}, NEW k \in Key, Arrive(r, o, k)
      PROVE  FALSE
  BY <1>1 DEF Arrive
<1>2. ASSUME NEW r \in Req, Handler(r)
      PROVE  Commit(q)
  <2>1. CASE Refuse(r) \/ Answer(r) \/ SelectMaxVersion(r) \/ Fail(r)
    BY <2>1 DEF Refuse, Answer, SelectMaxVersion, Fail, Asks
  <2>2. CASE DeactivatePrompt(r) \/ DeactivateAgent(r) \/ InsertPrompt(r) \/ InsertAgent(r)
    BY <2>2 DEF DeactivatePrompt, DeactivateAgent, InsertPrompt, InsertAgent, GrabLock, Asks
  <2>3. CASE DeletePrompt(r)
    BY <2>3 DEF DeletePrompt, Asks
  <2>4. CASE Commit(r)
    BY <2>4 DEF Commit
  <2>5. CASE Read(r)
    <3>1. PICK i \in Position(rows[key[r]]) : Got(r, i) /\ pc[r] = "open" /\ op[r] = "read"
      BY <2>5, ReadIsGot
    <3> QED BY <3>1 DEF Got, db
  <2> QED BY <1>2, <2>1, <2>2, <2>3, <2>4, <2>5 DEF Handler, Upsert
<1>3. CASE OtherWrite \/ Crash \/ UNCHANGED vars
  BY <1>3 DEF OtherWrite, Crash, vars
<1> QED BY <1>1, <1>2, <1>3 DEF Next

LEMMA DeletedStays ==
  ASSUME TypeOK, [Next]_vars, NEW k \in Key, Deleted(k)
  PROVE  Deleted(k)'
<1>1. PICK d \in Req : op[d] = "delete" /\ key[d] = k /\ pc[d] \in Committed
  BY DEF Deleted
<1>2. op'[d] = "delete" /\ key'[d] = k /\ pc'[d] \in Committed
  BY <1>1, RequestsStay DEF Committed
<1> QED BY <1>2 DEF Deleted

\* The rows of a slug after an upsert: the old ones, hidden, and a new one.
Grown(k, r) ==
  LET n == Len(rows[k])
  IN  /\ Len(rows'[k]) = n + 1
      /\ rows'[k][n + 1].by = r
      /\ rows'[k][n + 1].active = TRUE
      /\ k \in PromptKey => rows'[k][n + 1].version = n + 1
      /\ \A i \in 1 .. n : /\ rows'[k][i].by = rows[k][i].by
                           /\ rows'[k][i].version = rows[k][i].version
                           /\ rows'[k][i].active = FALSE

Hidden(k) ==
  /\ Len(rows'[k]) = Len(rows[k])
  /\ \A i \in 1 .. Len(rows[k]) : /\ rows'[k][i].by = rows[k][i].by
                                  /\ rows'[k][i].version = rows[k][i].version
                                  /\ rows'[k][i].active = FALSE

LEMMA CommitRows ==
  ASSUME TypeOK, LockInv, SnapshotInv, NEW r \in Req, Commit(r)
  PROVE  /\ key[r] \in Key /\ op[r] = "put"
         /\ Grown(key[r], r)
         /\ told'[r] = Len(rows[key[r]]) + 1
         /\ \A j \in Key : j # key[r] => rows'[j] = rows[j]
<1> DEFINE k == key[r]
           n == Len(rows[k])
           x == IF k \in PromptKey THEN NewPromptRow(r) ELSE NewAgentRow(r)
<1>1. k \in Key /\ rows[k] \in Seq(Row) /\ n \in Nat /\ x \in Row
  BY NewRows, LenProperties DEF TypeOK
<1>2. rows' = [rows EXCEPT ![k] = Append(Deactivated(rows[k]), x)] /\ rows' = work
  BY DEF Commit, LockInv, Inserted
<1>3. rows'[k] = Append(Deactivated(rows[k]), x) /\ \A j \in Key : j # k => rows'[j] = rows[j]
  BY <1>1, <1>2 DEF TypeOK
<1>4. /\ Len(rows'[k]) = n + 1
      /\ rows'[k][n + 1] = x
      /\ \A i \in 1 .. n : /\ rows'[k][i].by = rows[k][i].by
                           /\ rows'[k][i].version = rows[k][i].version
                           /\ rows'[k][i].active = FALSE
  <2> DEFINE t == Append(Deactivated(rows[k]), x)
  <2> HIDE DEF n, x
  <2>1. /\ Len(t) = Len(rows[k]) + 1
        /\ t[Len(rows[k]) + 1] = x
        /\ \A i \in 1 .. Len(rows[k]) : /\ t[i].by = rows[k][i].by
                                        /\ t[i].version = rows[k][i].version
                                        /\ t[i].active = FALSE
    BY <1>1, AppendedRows
  <2>2. rows'[k] = t
    BY <1>3
  <2> HIDE DEF t, k
  <2> QED BY <2>1, <2>2 DEF n
<1>5. op[r] = "put" /\ (k \in PromptKey => maxv[r] = n)
  BY DEF Commit, SnapshotInv
<1>6. x.by = r /\ x.active = TRUE /\ (k \in PromptKey => x.version = n + 1)
  BY <1>5 DEF NewPromptRow, NewAgentRow
<1>7. told'[r] = n + 1
  BY <1>2, <1>4, <1>5 DEF Commit, TypeOK
<1> QED BY <1>1, <1>3, <1>4, <1>5, <1>6, <1>7 DEF Grown

LEMMA DeleteRows ==
  ASSUME TypeOK, NEW r \in Req, DeletePrompt(r)
  PROVE  /\ key[r] \in PromptKey /\ key[r] \in Key /\ op[r] = "delete"
         /\ Hidden(key[r])
         /\ \A j \in Key : j # key[r] => rows'[j] = rows[j]
<1>1. key[r] \in PromptKey /\ key[r] \in Key /\ op[r] = "delete" /\ rows[key[r]] \in Seq(Row)
  BY DEF DeletePrompt, Asks, TypeOK
<1>2. /\ rows'[key[r]] = Deactivated(rows[key[r]])
      /\ \A j \in Key : j # key[r] => rows'[j] = rows[j]
  BY <1>1 DEF DeletePrompt, TypeOK
<1> DEFINE s == rows[key[r]]
           t == Deactivated(s)
<1>3. /\ Len(t) = Len(s)
      /\ \A i \in 1 .. Len(s) : /\ t[i].by = s[i].by
                                /\ t[i].version = s[i].version
                                /\ t[i].active = FALSE
  BY <1>1, DeactivatedRows
<1>4. rows'[key[r]] = t
  BY <1>2
<1>5. Hidden(key[r])
  <2> HIDE DEF t
  <2> QED BY <1>3, <1>4 DEF Hidden
<1> QED BY <1>1, <1>2, <1>5

LEMMA RowsStep ==
  ASSUME [Next]_vars
  PROVE  \/ rows' = rows
         \/ \E r \in Req : Commit(r) \/ DeletePrompt(r)
<1>1. ASSUME NEW r \in Req, Handler(r)
      PROVE  rows' = rows \/ Commit(r) \/ DeletePrompt(r)
  BY <1>1 DEF Handler, Upsert, Read, Refuse, Answer, Fail, SelectMaxVersion, DeactivatePrompt,
              InsertPrompt, DeactivateAgent, InsertAgent, GetPrompt, ListPrompts,
              GetPromptHistory, GetAgent, ListAgents, Got, db
<1> QED BY <1>1 DEF Next, vars, Arrive, OtherWrite, Crash, db

(***************************************************************************)
(* Versions, rows and outcomes.                                            *)
(***************************************************************************)
LEMMA LengthsAreNat ==
  ASSUME TypeOK, NEW k \in Key
  PROVE  Len(rows[k]) \in Nat /\ DOMAIN rows[k] = 1 .. Len(rows[k])
BY LenProperties DEF TypeOK

\* A slug's rows are the old ones, hidden, or grown by one.
LEMMA RowsCases ==
  ASSUME StoreInv, [Next]_vars, NEW k \in Key
  PROVE  \/ rows'[k] = rows[k]
         \/ \E r \in Req : /\ pc[r] = "inserted" /\ op[r] = "put" /\ key[r] = k
                           /\ pc'[r] = "committed" /\ told'[r] = Len(rows[k]) + 1
                           /\ Grown(k, r)
         \/ k \in PromptKey /\ Hidden(k) /\ Deleted(k)'
<1>1. CASE rows' = rows
  BY <1>1
<1>2. ASSUME NEW r \in Req, Commit(r), key[r] = k
      PROVE  /\ pc[r] = "inserted" /\ op[r] = "put"
             /\ pc'[r] = "committed" /\ told'[r] = Len(rows[k]) + 1
             /\ Grown(k, r)
  BY <1>2, CommitRows DEF Commit, StoreInv, TypeOK
<1>3. ASSUME NEW r \in Req, Commit(r), key[r] # k
      PROVE  rows'[k] = rows[k]
  BY <1>3, CommitRows DEF StoreInv
<1>4. ASSUME NEW r \in Req, DeletePrompt(r), key[r] = k
      PROVE  k \in PromptKey /\ Hidden(k) /\ Deleted(k)'
  <2>1. op'[r] = "delete" /\ key'[r] = k /\ pc'[r] \in Committed
    BY <1>4, DeleteRows DEF DeletePrompt, Committed, StoreInv, TypeOK
  <2> QED BY <1>4, <2>1, DeleteRows DEF Deleted, StoreInv
<1>5. ASSUME NEW r \in Req, DeletePrompt(r), key[r] # k
      PROVE  rows'[k] = rows[k]
  BY <1>5, DeleteRows DEF StoreInv
<1> QED BY <1>1, <1>2, <1>3, <1>4, <1>5, RowsStep

LEMMA VersionKeeps ==
  ASSUME StoreInv, [Next]_vars
  PROVE  VersionInv'
<1> SUFFICES ASSUME NEW k \in Key, NEW i \in 1 .. Len(rows'[k])
             PROVE  /\ k \in PromptKey => rows'[k][i].version = i
                    /\ rows'[k][i].active => i = Len(rows'[k])
  BY DEF VersionInv
<1>1. Len(rows[k]) \in Nat
  BY LengthsAreNat DEF StoreInv
<1>2. /\ k \in PromptKey => \A j \in 1 .. Len(rows[k]) : rows[k][j].version = j
      /\ \A j \in 1 .. Len(rows[k]) : rows[k][j].active => j = Len(rows[k])
  BY DEF StoreInv, VersionInv
<1>3. CASE rows'[k] = rows[k]
  <2>1. i \in 1 .. Len(rows[k])
    BY <1>3
  <2>2. /\ k \in PromptKey => rows[k][i].version = i
        /\ rows[k][i].active => i = Len(rows[k])
    BY <1>2, <2>1
  <2> QED BY <1>3, <2>2, Zenon
<1>4. CASE \E r \in Req : Grown(k, r)
  <2>1. PICK r \in Req : Grown(k, r)
    BY <1>4
  <2>2. i \in 1 .. Len(rows[k]) \/ i = Len(rows[k]) + 1
    BY <1>1, <2>1 DEF Grown
  <2>3. CASE i \in 1 .. Len(rows[k])
    <3>1. rows'[k][i].version = rows[k][i].version
      BY <2>1, <2>3 DEF Grown
    <3>2. rows'[k][i].active = FALSE
      BY <2>1, <2>3, Zenon DEF Grown
    <3>3. k \in PromptKey => rows'[k][i].version = i
      BY <1>2, <2>3, <3>1
    <3> QED BY <3>2, <3>3, Zenon
  <2>4. CASE i = Len(rows[k]) + 1
    BY <2>1, <2>4 DEF Grown
  <2> QED BY <2>2, <2>3, <2>4
<1>5. CASE Hidden(k)
  <2>1. i \in 1 .. Len(rows[k])
    BY <1>5 DEF Hidden
  <2>2. rows'[k][i].version = rows[k][i].version
    BY <1>5, <2>1 DEF Hidden
  <2>3. rows'[k][i].active = FALSE
    BY <1>5, <2>1, Zenon DEF Hidden
  <2>4. k \in PromptKey => rows'[k][i].version = i
    BY <1>2, <2>1, <2>2
  <2> QED BY <2>3, <2>4, Zenon
<1> QED BY <1>3, <1>4, <1>5, RowsCases

LEMMA HiddenKeeps ==
  ASSUME StoreInv, [Next]_vars
  PROVE  HiddenInv'
<1> SUFFICES ASSUME NEW k \in Key, rows'[k] # <<>>
             PROVE  rows'[k][Len(rows'[k])].active \/ Deleted(k)'
  BY DEF HiddenInv
<1>1. CASE rows'[k] = rows[k]
  <2>1. rows'[k][Len(rows'[k])].active \/ Deleted(k)
    BY <1>1 DEF StoreInv, HiddenInv
  <2> QED BY <2>1, DeletedStays DEF StoreInv
<1>2. CASE \E r \in Req : Grown(k, r)
  BY <1>2 DEF Grown
<1> QED BY <1>1, <1>2, RowsCases

LEMMA RowKeeps ==
  ASSUME StoreInv, [Next]_vars
  PROVE  RowInv'
<1> USE DEF StoreInv
<1>1. ASSUME NEW k \in Key, NEW i \in 1 .. Len(rows'[k])
      PROVE  LET q == rows'[k][i].by
             IN  op'[q] = "put" /\ key'[q] = k /\ pc'[q] \in Committed /\ told'[q] = i
  <2>1. Len(rows[k]) \in Nat
    BY LengthsAreNat
  <2>2. ASSUME i \in 1 .. Len(rows[k]), rows'[k][i].by = rows[k][i].by
        PROVE  LET q == rows'[k][i].by
               IN  op'[q] = "put" /\ key'[q] = k /\ pc'[q] \in Committed /\ told'[q] = i
    <3> DEFINE q == rows[k][i].by
    <3>1. op[q] = "put" /\ key[q] = k /\ pc[q] \in Committed /\ told[q] = i
      BY <2>2 DEF RowInv
    <3>2. q \in Req
      <4>1. rows[k] \in Seq(Row)
        BY DEF TypeOK
      <4>2. rows[k][i] \in Row
        BY <2>2, <4>1, ElementOfSeq
      <4> QED BY <4>2 DEF Row
    <3> QED BY <2>2, <3>1, <3>2, RequestsStay DEF Committed
  <2>3. CASE rows'[k] = rows[k]
    BY <2>2, <2>3
  <2>4. ASSUME NEW r \in Req, pc[r] = "inserted", op[r] = "put", key[r] = k,
               pc'[r] = "committed", told'[r] = Len(rows[k]) + 1, Grown(k, r)
        PROVE  LET q == rows'[k][i].by
               IN  op'[q] = "put" /\ key'[q] = k /\ pc'[q] \in Committed /\ told'[q] = i
    <3>1. i \in 1 .. Len(rows[k]) \/ i = Len(rows[k]) + 1
      BY <2>1, <2>4 DEF Grown
    <3>2. CASE i \in 1 .. Len(rows[k])
      BY <2>2, <2>4, <3>2 DEF Grown
    <3>3. CASE i = Len(rows[k]) + 1
      <4>1. rows'[k][i].by = r
        BY <2>4, <3>3 DEF Grown
      <4>2. op'[r] = "put" /\ key'[r] = k
        BY <2>4, RequestsStay
      <4> QED BY <2>4, <3>3, <4>1, <4>2 DEF Committed
    <3> QED BY <3>1, <3>2, <3>3
  <2>5. CASE Hidden(k)
    BY <2>2, <2>5 DEF Hidden
  <2> QED BY <2>3, <2>4, <2>5, RowsCases
<1>2. ASSUME NEW r \in Req, op'[r] = "put", pc'[r] \in Committed
      PROVE  told'[r] \in 1 .. Len(rows'[key'[r]]) /\ rows'[key'[r]][told'[r]].by = r
  <2>1. CASE pc[r] \in Committed
    <3> DEFINE k == key[r]
    <3>1. op[r] = "put" /\ key'[r] = k /\ told'[r] = told[r] /\ k \in Key
      BY <1>2, <2>1, RequestsStay DEF Committed, TypeOK
    <3>2. told[r] \in 1 .. Len(rows[k]) /\ rows[k][told[r]].by = r
      BY <2>1, <3>1 DEF RowInv
    <3>3. Len(rows[k]) \in Nat
      BY <3>1, LengthsAreNat
    <3>4. CASE rows'[k] = rows[k]
      BY <3>1, <3>2, <3>4
    <3>5. CASE \E q \in Req : Grown(k, q)
      <4>1. Len(rows'[k]) = Len(rows[k]) + 1 /\ \A i \in 1 .. Len(rows[k]) : rows'[k][i].by = rows[k][i].by
        BY <3>5 DEF Grown
      <4> QED BY <3>1, <3>2, <3>3, <4>1
    <3>6. CASE Hidden(k)
      BY <3>1, <3>2, <3>6 DEF Hidden
    <3> HIDE DEF k
    <3> QED BY <3>1, <3>4, <3>5, <3>6, RowsCases
  <2>2. CASE pc[r] \notin Committed
    <3>1. Commit(r)
      BY <1>2, <2>2, NewlyCommitted
    <3>2. told'[r] = Len(rows[key[r]]) + 1 /\ Grown(key[r], r) /\ key'[r] = key[r] /\ key[r] \in Key
      BY <3>1, CommitRows DEF Commit
    <3>3. Len(rows[key[r]]) \in Nat
      BY <3>2, LengthsAreNat
    <3> QED BY <3>2, <3>3 DEF Grown
  <2> QED BY <2>1, <2>2
<1> QED BY <1>1, <1>2 DEF RowInv

\* A read gets its outcome from the tables.
LEMMA NewlyRead ==
  ASSUME TypeOK, SnapshotInv, [Next]_vars, NEW q \in Req,
         pc[q] \notin Committed, pc'[q] \in Committed, op'[q] = "read"
  PROVE  /\ pc[q] # "idle" /\ key[q] \in Key
         /\ \E i \in Position(rows[key[q]]) :
              /\ told'[q] = i
              /\ \/ ActiveRow(rows[key[q]], i)
                 \/ key[q] \in PromptKey /\ FirstOfHistory(rows[key[q]], i)
<1> USE DEF Committed, Open, TypeOK
<1> DEFINE Goal == \E i \in Position(rows[key[q]]) :
                     /\ told'[q] = i
                     /\ \/ ActiveRow(rows[key[q]], i)
                        \/ key[q] \in PromptKey /\ FirstOfHistory(rows[key[q]], i)
<1>1. ASSUME NEW r \in Req, NEW o \in {"put", "delete", "read"}, NEW k \in Key, Arrive(r, o, k)
      PROVE  FALSE
  BY <1>1 DEF Arrive
<1>2. ASSUME NEW r \in Req, Handler(r)
      PROVE  pc[q] # "idle" /\ Goal
  <2>1. CASE Refuse(r) \/ Answer(r) \/ SelectMaxVersion(r) \/ Fail(r)
    BY <2>1 DEF Refuse, Answer, SelectMaxVersion, Fail, Asks
  <2>2. CASE DeactivatePrompt(r) \/ DeactivateAgent(r) \/ InsertPrompt(r) \/ InsertAgent(r)
    BY <2>2 DEF DeactivatePrompt, DeactivateAgent, InsertPrompt, InsertAgent, GrabLock, Asks
  <2>3. CASE DeletePrompt(r)
    BY <2>3 DEF DeletePrompt, Asks
  <2>4. CASE Commit(r)
    BY <2>4 DEF Commit, SnapshotInv
  <2>5. CASE Read(r)
    <3>1. PICK i \in Position(rows[key[r]]) :
            /\ Got(r, i)
            /\ \/ ActiveRow(rows[key[r]], i)
               \/ key[r] \in PromptKey /\ FirstOfHistory(rows[key[r]], i)
            /\ pc[r] = "open"
      BY <2>5, ReadIsGot
    <3>2. q = r
      BY <3>1 DEF Got
    <3>3. told'[q] = i
      BY <3>1, <3>2 DEF Got
    <3> QED BY <3>1, <3>2, <3>3
  <2> HIDE DEF Goal
  <2> QED BY <1>2, <2>1, <2>2, <2>3, <2>4, <2>5 DEF Handler, Upsert
<1>3. ASSUME OtherWrite \/ Crash \/ UNCHANGED vars
      PROVE  FALSE
  BY <1>3 DEF OtherWrite, Crash, vars
<1> HIDE DEF Goal
<1>4. pc[q] # "idle" /\ Goal
  BY <1>1, <1>2, <1>3 DEF Next
<1> QED BY <1>4 DEF Goal

\* What a read may be given is the newest version or, after a delete, nothing.
LEMMA ReadsAreNewest ==
  ASSUME StoreInv, NEW k \in Key, NEW i \in Position(rows[k]),
         ActiveRow(rows[k], i) \/ (k \in PromptKey /\ FirstOfHistory(rows[k], i))
  PROVE  i = Len(rows[k]) \/ (i = 0 /\ Deleted(k))
<1> DEFINE s == rows[k]
<1>1. s \in Seq(Row) /\ Len(s) \in Nat /\ DOMAIN s = 1 .. Len(s)
  BY LengthsAreNat DEF StoreInv, TypeOK
<1>2. s = <<>> => i = Len(s)
  BY <1>1, EmptySeq DEF Position
<1>3. CASE i \in ActiveIn(s)
  <2>1. i \in 1 .. Len(s) /\ s[i].active
    BY <1>1, <1>3 DEF ActiveIn
  <2> QED BY <2>1 DEF StoreInv, VersionInv
<1>4. CASE ActiveIn(s) = {} /\ i = 0 /\ s # <<>>
  <2>1. Len(s) \in 1 .. Len(s)
    BY <1>1, <1>4, EmptySeq
  <2>2. ~ s[Len(s)].active
    BY <1>1, <1>4, <2>1 DEF ActiveIn
  <2> QED BY <1>4, <2>2 DEF StoreInv, HiddenInv
<1>5. CASE k \in PromptKey /\ i \in DOMAIN s /\ IsNewest(s[i].version, Versions(s))
  <2>1. Len(s) \in DOMAIN s
    BY <1>1, <1>5
  <2>2. s[Len(s)].version \in Versions(s)
    BY <2>1 DEF Versions
  <2>3. s[Len(s)].version = Len(s) /\ s[i].version = i
    BY <1>1, <1>5, <2>1 DEF StoreInv, VersionInv
  <2>4. Len(s) <= i
    BY <1>5, <2>2, <2>3 DEF IsNewest
  <2> QED BY <1>1, <1>5, <2>4
<1>6. ActiveRow(s, i) => i \in ActiveIn(s) \/ (ActiveIn(s) = {} /\ i = 0)
  BY DEF ActiveRow
<1>7. FirstOfHistory(s, i) =>
        (s = <<>> /\ i = 0) \/ (i \in DOMAIN s /\ IsNewest(s[i].version, Versions(s)))
  BY DEF FirstOfHistory
<1> QED BY <1>2, <1>3, <1>4, <1>5, <1>6, <1>7

\* The maximum that UpsertPrompt reads is the newest version.
LEMMA MaximumIsNewest ==
  ASSUME TypeOK, VersionInv, NEW k \in PromptKey,
         NEW v \in Versions(rows[k]), IsNewest(v, Versions(rows[k]))
  PROVE  v = Len(rows[k])
<1> DEFINE s == rows[k]
<1>1. k \in Key /\ Len(s) \in Nat /\ DOMAIN s = 1 .. Len(s)
  BY LengthsAreNat DEF Key
<1>2. \A i \in DOMAIN s : s[i].version = i
  BY <1>1 DEF VersionInv
<1>3. Versions(s) = 0 .. Len(s)
  BY <1>1, <1>2 DEF Versions
<1> HIDE DEF s
<1>4. v \in 0 .. Len(s) /\ Len(s) <= v
  BY <1>1, <1>3 DEF IsNewest, s
<1> QED BY <1>1, <1>4 DEF s

LEMMA LengthGrows ==
  ASSUME StoreInv, [Next]_vars, NEW k \in Key
  PROVE  Len(rows'[k]) \in Nat /\ Len(rows[k]) <= Len(rows'[k])
<1>1. Len(rows[k]) \in Nat
  BY LengthsAreNat DEF StoreInv
<1>2. CASE \E r \in Req : Grown(k, r)
  BY <1>1, <1>2 DEF Grown
<1>3. CASE Hidden(k)
  BY <1>1, <1>3 DEF Hidden
<1> QED BY <1>1, <1>2, <1>3, RowsCases

\* Only arriving changes a floor.
LEMMA NewFloor ==
  ASSUME StoreInv, [Next]_vars, NEW q \in Req, pc[q] = "idle", pc'[q] # "idle"
  PROVE  /\ rows' = rows /\ pc'[q] = "open"
         /\ floor'[q] \in Acknowledged(key'[q]) /\ key'[q] \in Key
<1> USE DEF StoreInv, TypeOK, Open, Committed
<1>1. ASSUME NEW r \in Req, NEW o \in {"put", "delete", "read"}, NEW k \in Key, Arrive(r, o, k)
      PROVE  /\ rows' = rows /\ pc'[q] = "open"
             /\ floor'[q] \in Acknowledged(key'[q]) /\ key'[q] \in Key
  <2>1. q = r
    BY <1>1 DEF Arrive
  <2> QED BY <1>1, <2>1 DEF Arrive, db
<1>2. ASSUME NEW r \in Req, Handler(r)
      PROVE  FALSE
  <2>1. CASE Refuse(r) \/ Answer(r) \/ SelectMaxVersion(r) \/ Fail(r) \/ DeletePrompt(r) \/ Commit(r)
    BY <2>1 DEF Refuse, Answer, SelectMaxVersion, Fail, DeletePrompt, Commit, Asks
  <2>2. CASE DeactivatePrompt(r) \/ DeactivateAgent(r) \/ InsertPrompt(r) \/ InsertAgent(r)
    BY <2>2 DEF DeactivatePrompt, DeactivateAgent, InsertPrompt, InsertAgent, GrabLock, Asks
  <2>3. CASE Read(r)
    <3>1. PICK i \in Position(rows[key[r]]) : Got(r, i) /\ pc[r] = "open"
      BY <2>3, ReadIsGot
    <3> QED BY <3>1 DEF Got
  <2> QED BY <1>2, <2>1, <2>2, <2>3 DEF Handler, Upsert
<1>3. CASE OtherWrite \/ Crash \/ UNCHANGED vars
  BY <1>3 DEF OtherWrite, Crash, vars
<1> QED BY <1>1, <1>2, <1>3 DEF Next

LEMMA FloorKeeps ==
  ASSUME StoreInv, [Next]_vars
  PROVE  FloorInv'
<1> USE DEF StoreInv
<1> SUFFICES ASSUME NEW r \in Req
             PROVE  /\ pc'[r] # "idle" => floor'[r] <= Len(rows'[key'[r]])
                    /\ pc'[r] \in Committed /\ op'[r] = "put" => told'[r] > floor'[r]
                    /\ pc'[r] \in Committed /\ op'[r] = "read" =>
                         told'[r] >= floor'[r] \/ (told'[r] = 0 /\ Deleted(key[r])')
  BY DEF FloorInv
<1>1. CASE pc[r] # "idle"
  <2>0. PICK k \in Key : k = key[r]
    BY DEF TypeOK
  <2>1. /\ pc'[r] # "idle" /\ op'[r] = op[r] /\ key'[r] = k /\ floor'[r] = floor[r]
        /\ pc[r] \in Committed => pc'[r] \in Committed /\ told'[r] = told[r]
        /\ floor[r] \in Nat /\ floor[r] <= Len(rows[k])
    BY <1>1, <2>0, RequestsStay DEF TypeOK, FloorInv
  <2>2. Len(rows[k]) \in Nat /\ Len(rows'[k]) \in Nat /\ Len(rows[k]) <= Len(rows'[k])
    BY <2>1, LengthGrows, LengthsAreNat
  <2>3. floor'[r] <= Len(rows'[k])
    BY <2>1, <2>2
  <2>4. ASSUME pc[r] \in Committed
        PROVE  /\ op'[r] = "put" => told'[r] > floor'[r]
               /\ op'[r] = "read" => told'[r] >= floor'[r] \/ (told'[r] = 0 /\ Deleted(k)')
    BY <2>0, <2>1, <2>4, DeletedStays DEF FloorInv
  <2>5. ASSUME pc[r] \notin Committed, pc'[r] \in Committed, op'[r] = "put"
        PROVE  told'[r] > floor'[r]
    <3>1. Commit(r)
      BY <2>5, NewlyCommitted
    <3>2. told'[r] = Len(rows[k]) + 1
      BY <2>0, <3>1, CommitRows
    <3> QED BY <2>1, <2>2, <3>2
  <2>6. ASSUME pc[r] \notin Committed, pc'[r] \in Committed, op'[r] = "read"
        PROVE  told'[r] >= floor'[r] \/ (told'[r] = 0 /\ Deleted(k)')
    <3>1. PICK i \in Position(rows[k]) :
            /\ told'[r] = i
            /\ \/ ActiveRow(rows[k], i)
               \/ k \in PromptKey /\ FirstOfHistory(rows[k], i)
      BY <2>0, <2>6, NewlyRead
    <3>2. i = Len(rows[k]) \/ (i = 0 /\ Deleted(k))
      BY <2>1, <3>1, ReadsAreNewest
    <3> QED BY <2>1, <2>2, <3>1, <3>2, DeletedStays
  <2>7. Deleted(key[r])' <=> Deleted(k)'
    BY <2>1 DEF Deleted
  <2> QED BY <2>1, <2>3, <2>4, <2>5, <2>6, <2>7
<1>2. CASE pc[r] = "idle" /\ pc'[r] # "idle"
  <2>1. /\ rows' = rows /\ pc'[r] \notin Committed
        /\ floor'[r] \in Acknowledged(key'[r]) /\ key'[r] \in Key
    BY <1>2, NewFloor DEF Committed
  <2>2. Len(rows[key'[r]]) \in Nat
    BY <2>1, LengthsAreNat
  <2>3. \A n \in Acknowledged(key'[r]) : n <= Len(rows[key'[r]])
    BY <2>2 DEF Acknowledged, RowInv, Committed
  <2> QED BY <2>1, <2>3
<1>3. CASE pc'[r] = "idle"
  BY <1>3 DEF Committed
<1> QED BY <1>1, <1>2, <1>3

(***************************************************************************)
(* Snapshots.                                                              *)
(***************************************************************************)
LEMMA SnapshotKeeps ==
  ASSUME StoreInv, [Next]_vars
  PROVE  SnapshotInv'
<1> USE DEF StoreInv, TypeOK
<1> DEFINE Held(q) == /\ pc[q] \in {"read", "locked", "inserted"} => op[q] = "put"
                      /\ pc[q] = "read" => key[q] \in PromptKey
                      /\ pc[q] = "read" /\ q \notin stale => maxv[q] = Len(rows[key[q]])
                      /\ pc[q] \in {"locked", "inserted"} /\ key[q] \in PromptKey =>
                           maxv[q] = Len(rows[key[q]])
<1> SUFFICES ASSUME NEW q \in Req PROVE Held(q)'
  BY DEF SnapshotInv
<1>0. Held(q)
  BY DEF SnapshotInv
\* Nothing about q or the tables changes.
<1>1. ASSUME pc'[q] = pc[q], op'[q] = op[q], key'[q] = key[q], maxv'[q] = maxv[q], rows' = rows,
             pc[q] = "read" /\ q \in stale => q \in stale'
      PROVE  Held(q)'
  BY <1>0, <1>1
<1>2. ASSUME pc'[q] \notin {"read", "locked", "inserted"}
      PROVE  Held(q)'
  BY <1>2
<1>3. ASSUME NEW r \in Req, NEW o \in {"put", "delete", "read"}, NEW k \in Key, Arrive(r, o, k)
      PROVE  Held(q)'
  <2>1. CASE q = r
    BY <1>2, <1>3, <2>1 DEF Arrive
  <2>2. CASE q # r
    BY <1>1, <1>3, <2>2 DEF Arrive, db
  <2> QED BY <2>1, <2>2
<1>4. ASSUME NEW r \in Req, Handler(r)
      PROVE  Held(q)'
  <2>1. CASE Refuse(r) \/ Answer(r) \/ Fail(r)
    <3>1. CASE q = r
      BY <1>2, <2>1, <3>1 DEF Refuse, Answer, Fail
    <3>2. CASE q # r
      BY <1>1, <2>1, <3>2 DEF Refuse, Answer, Fail, db
    <3> QED BY <3>1, <3>2
  <2>2. CASE SelectMaxVersion(r)
    <3>1. CASE q = r
      <4>1. key[q] \in PromptKey /\ op[q] = "put" /\ pc'[q] = "read"
        BY <2>2, <3>1 DEF SelectMaxVersion, Asks
      <4>2. maxv'[q] = Len(rows[key[q]])
        BY <2>2, <3>1, <4>1, MaximumIsNewest DEF SelectMaxVersion
      <4> QED BY <2>2, <3>1, <4>1, <4>2 DEF SelectMaxVersion, db
    <3>2. CASE q # r
      BY <1>1, <2>2, <3>2 DEF SelectMaxVersion, db
    <3> QED BY <3>1, <3>2
  <2>3. CASE DeactivatePrompt(r) \/ DeactivateAgent(r)
    <3>1. CASE q = r
      BY <1>0, <2>3, <3>1, KeysDisjoint DEF DeactivatePrompt, DeactivateAgent, GrabLock, Asks
    <3>2. CASE q # r
      BY <1>1, <2>3, <3>2 DEF DeactivatePrompt, DeactivateAgent, GrabLock
    <3> QED BY <3>1, <3>2
  <2>4. CASE InsertPrompt(r) \/ InsertAgent(r)
    <3>1. CASE q = r
      BY <1>0, <2>4, <3>1 DEF InsertPrompt, InsertAgent
    <3>2. CASE q # r
      BY <1>1, <2>4, <3>2 DEF InsertPrompt, InsertAgent
    <3> QED BY <3>1, <3>2
  <2>5. CASE Commit(r) \/ DeletePrompt(r)
    <3>1. pc'[q] \notin {"locked", "inserted"}
      <4>1. CASE Commit(r)
        BY <4>1 DEF Commit, LockInv
      <4>2. CASE DeletePrompt(r)
        BY <4>2, NobodyLocks DEF DeletePrompt
      <4> QED BY <2>5, <4>1, <4>2
    <3>2. CASE pc'[q] = "read"
      <4>1. pc[q] = "read" /\ q \in stale' /\ op'[q] = op[q] /\ key'[q] = key[q]
        BY <2>5, <3>2 DEF Commit, DeletePrompt, Readers
      <4> QED BY <1>0, <3>2, <4>1
    <3> QED BY <1>2, <3>1, <3>2
  <2>6. CASE Read(r)
    <3>1. PICK i \in Position(rows[key[r]]) : Got(r, i)
      BY <2>6, ReadIsGot
    <3>2. CASE q = r
      BY <1>2, <3>1, <3>2 DEF Got
    <3>3. CASE q # r
      BY <1>1, <3>1, <3>3 DEF Got, db
    <3> QED BY <3>2, <3>3
  <2> QED BY <1>4, <2>1, <2>2, <2>3, <2>4, <2>5, <2>6 DEF Handler, Upsert
<1>5. CASE OtherWrite
  BY <1>1, <1>5 DEF OtherWrite
<1>6. CASE Crash
  <2>1. pc'[q] \notin {"read", "locked", "inserted"}
    BY <1>6 DEF Crash, Open
  <2> QED BY <1>2, <2>1
<1>7. CASE UNCHANGED vars
  BY <1>1, <1>7 DEF vars
<1> HIDE DEF Held
<1> QED BY <1>3, <1>4, <1>5, <1>6, <1>7 DEF Next

LEMMA StoreInvKeeps == StoreInv /\ [Next]_vars => StoreInv'
<1> SUFFICES ASSUME StoreInv, [Next]_vars PROVE StoreInv'
  OBVIOUS
<1>1. TypeOK'
  BY TypeKeeps DEF StoreInv
<1>2. LockInv'
  BY LockKeeps DEF StoreInv
<1> QED BY <1>1, <1>2, SnapshotKeeps, VersionKeeps, HiddenKeeps, RowKeeps, FloorKeeps DEF StoreInv

\* The inductive invariant: what the lock, the snapshots and the rows agree on.
THEOREM StoreInvariant == Spec => []StoreInv
<1>1. Init => StoreInv
  BY InitInv
<1>2. StoreInv /\ [Next]_vars => StoreInv'
  BY StoreInvKeeps
<1> QED BY <1>1, <1>2, PTL DEF Spec

\* Type correctness of the tables, of the open transactions and of every request.
THEOREM PromptTypeCorrect == Spec => []TypeOK
<1>1. StoreInv => TypeOK
  BY DEF StoreInv
<1> QED BY <1>1, StoreInvariant, PTL

\* A committed upsert is one row under the version that was told; any other is none.
THEOREM UpsertsStored == Spec => []AnsweredAsStored
<1>1. StoreInv => AnsweredAsStored
  <2> SUFFICES ASSUME StoreInv, NEW r \in Req, op[r] = "put"
               PROVE  /\ pc[r] \in Committed =>
                           /\ RowsOf(r) = {told[r]}
                           /\ key[r] \in PromptKey => rows[key[r]][told[r]].version = told[r]
                      /\ pc[r] \notin Committed => RowsOf(r) = {}
    BY DEF AnsweredAsStored
  <2>1. PICK k \in Key : k = key[r]
    BY DEF StoreInv, TypeOK
  <2>2. DOMAIN rows[k] = 1 .. Len(rows[k])
    BY LengthsAreNat DEF StoreInv
  <2>3. \A i \in RowsOf(r) : pc[r] \in Committed /\ told[r] = i
    BY <2>1, <2>2 DEF RowsOf, StoreInv, RowInv
  <2>4. ASSUME pc[r] \in Committed
        PROVE  told[r] \in 1 .. Len(rows[k]) /\ rows[k][told[r]].by = r
    BY <2>1, <2>4 DEF StoreInv, RowInv
  <2>5. pc[r] \in Committed => told[r] \in RowsOf(r)
    BY <2>1, <2>2, <2>4 DEF RowsOf
  <2>6. pc[r] \in Committed /\ k \in PromptKey => rows[k][told[r]].version = told[r]
    BY <2>4 DEF StoreInv, VersionInv
  <2> QED BY <2>1, <2>3, <2>5, <2>6
<1> QED BY <1>1, StoreInvariant, PTL

\* Upserts and reads take effect in the order in which clients see them answered.
THEOREM EffectsInRealTime == Spec => []RealTimeOrder
<1>1. StoreInv => RealTimeOrder
  BY DEF StoreInv, FloorInv, RealTimeOrder, Committed
<1> QED BY <1>1, StoreInvariant, PTL

(***************************************************************************)
(* The store implements VersionedStore.                                    *)
(***************************************************************************)
Entry == [by : Req, version : Nat]

LEMMA PublishedSeq ==
  ASSUME NEW k, NEW s \in Seq(Row)
  PROVE  LET t == [i \in DOMAIN s |->
                    [by |-> s[i].by, version |-> IF k \in PromptKey THEN s[i].version ELSE i]]
         IN  t \in Seq(Entry) /\ Len(t) = Len(s)
<1> DEFINE e(i) == [by |-> s[i].by, version |-> IF k \in PromptKey THEN s[i].version ELSE i]
           t == [i \in DOMAIN s |-> e(i)]
<1>1. Len(s) \in Nat /\ DOMAIN s = 1 .. Len(s)
  BY LenProperties
<1>2. ASSUME NEW i \in 1 .. Len(s) PROVE e(i) \in Entry
  <2>1. s[i].by \in Req /\ s[i].version \in Nat
    <3>1. s[i] \in Row
      BY <1>2, ElementOfSeq
    <3> QED BY <3>1 DEF Row
  <2> QED BY <2>1 DEF Entry
<1> HIDE DEF e
<1>3. t \in [1 .. Len(s) -> Entry]
  BY <1>1, <1>2
<1>4. t \in Seq(Entry)
  BY <1>1, <1>3, IsASeq
<1>5. DOMAIN t = 1 .. Len(s)
  BY <1>1
<1>6. Len(t) = Len(s)
  BY <1>1, <1>4, <1>5, LenProperties
<1> QED BY <1>4, <1>6 DEF e

LEMMA PublishedType ==
  ASSUME TypeOK, NEW k \in Key
  PROVE  Published(k) \in Seq(Entry) /\ Len(Published(k)) = Len(rows[k])
<1>1. rows[k] \in Seq(Row)
  BY DEF TypeOK
<1> QED BY <1>1, PublishedSeq DEF Published

\* An upsert appends one entry, and that entry alone is served.
LEMMA GrownIsPublished ==
  ASSUME StoreInv, TypeOK', NEW k \in Key, NEW r \in Req, Grown(k, r)
  PROVE  /\ Published(k)' = Append(Published(k), [by |-> r, version |-> Len(Published(k)) + 1])
         /\ ActiveIn(rows'[k]) = {Len(Published(k)) + 1}
<1> DEFINE n == Len(rows[k])
           e == [by |-> r, version |-> n + 1]
           p == Published(k)
           q == Published(k)'
<1>1. /\ p \in Seq(Entry) /\ Len(p) = n /\ n \in Nat
      /\ DOMAIN rows[k] = 1 .. n
  BY PublishedType, LengthsAreNat DEF StoreInv
<1>2. Len(rows'[k]) = n + 1
  BY DEF Grown
<1>3. rows'[k] \in Seq(Row) /\ DOMAIN rows'[k] = 1 .. n + 1
  BY <1>1, <1>2, LenProperties DEF TypeOK
<1>4. q \in Seq(Entry) /\ Len(q) = n + 1
  BY <1>2, <1>3, PublishedSeq DEF Published
<1>5. e \in Entry
  BY <1>1 DEF Entry
<1>6. /\ Append(p, e) \in Seq(Entry) /\ Len(Append(p, e)) = n + 1
      /\ Append(p, e)[n + 1] = e
      /\ \A i \in 1 .. n : Append(p, e)[i] = p[i]
  BY <1>1, <1>5, AppendProperties
<1>7. ASSUME NEW i \in 1 .. n PROVE q[i] = p[i]
  <2>1. rows'[k][i].by = rows[k][i].by /\ rows'[k][i].version = rows[k][i].version
    BY <1>7 DEF Grown
  <2>2. i \in DOMAIN rows'[k] /\ i \in DOMAIN rows[k]
    BY <1>1, <1>3
  <2> QED BY <2>1, <2>2 DEF Published
<1>8. q[n + 1] = e
  <2>1. n + 1 \in DOMAIN rows'[k]
    BY <1>1, <1>3
  <2>2. rows'[k][n + 1].by = r /\ (k \in PromptKey => rows'[k][n + 1].version = n + 1)
    BY DEF Grown
  <2> QED BY <2>1, <2>2 DEF Published
<1>9. q = Append(p, e)
  <2> HIDE DEF p, q, e, n
  <2>1. \A i \in 1 .. n + 1 : q[i] = Append(p, e)[i]
    BY <1>1, <1>6, <1>7, <1>8
  <2> QED BY <1>4, <1>6, <2>1, SeqEqual
<1>10. ActiveIn(rows'[k]) = {n + 1}
  <2>1. \A i \in 1 .. n : rows'[k][i].active = FALSE
    BY Zenon DEF Grown
  <2>2. rows'[k][n + 1].active = TRUE
    BY Zenon DEF Grown
  <2>3. \A i \in 1 .. n + 1 : i \in 1 .. n \/ i = n + 1
    BY <1>1
  <2>4. n + 1 \in 1 .. n + 1
    BY <1>1
  <2> HIDE DEF n
  <2> QED BY <1>3, <2>1, <2>2, <2>3, <2>4, Zenon DEF ActiveIn
<1> QED BY <1>1, <1>9, <1>10

\* A delete serves nothing and publishes nothing.
LEMMA HiddenIsRetired ==
  ASSUME StoreInv, TypeOK', NEW k \in Key, Hidden(k)
  PROVE  Published(k)' = Published(k) /\ ActiveIn(rows'[k]) = {}
<1>1. DOMAIN rows[k] = 1 .. Len(rows[k]) /\ DOMAIN rows'[k] = 1 .. Len(rows[k])
  BY LengthsAreNat, LenProperties DEF StoreInv, TypeOK, Hidden
<1>2. \A i \in 1 .. Len(rows[k]) : /\ rows'[k][i].by = rows[k][i].by
                                   /\ rows'[k][i].version = rows[k][i].version
  BY DEF Hidden
<1>3. \A i \in 1 .. Len(rows[k]) : rows'[k][i].active = FALSE
  BY Zenon DEF Hidden
<1>4. ActiveIn(rows'[k]) = {}
  BY <1>1, <1>3, Zenon DEF ActiveIn
<1> QED BY <1>1, <1>2, <1>4 DEF Published

\* A request has no row before its commit.
LEMMA NotPublishedBefore ==
  ASSUME StoreInv, NEW r \in Req, pc[r] \notin Committed, NEW k \in Key
  PROVE  ~ Abstract!PublishedBy(k, r)
<1>1. DOMAIN Published(k) = DOMAIN rows[k] /\ DOMAIN rows[k] = 1 .. Len(rows[k])
  BY LengthsAreNat DEF StoreInv, Published
<1>2. \A i \in DOMAIN rows[k] : Published(k)[i].by = rows[k][i].by
  BY DEF Published
<1>3. \A i \in 1 .. Len(rows[k]) : rows[k][i].by # r
  BY DEF StoreInv, RowInv
<1> QED BY <1>1, <1>2, <1>3 DEF Abstract!PublishedBy, PublishedRows

LEMMA AbstractInit == Init => Abstract!VSInit
<1> SUFFICES ASSUME Init PROVE Abstract!VSInit
  OBVIOUS
<1>1. ASSUME NEW k \in Key PROVE Published(k) = <<>> /\ ActiveIn(rows[k]) = {}
  <2>1. rows[k] = <<>> /\ DOMAIN rows[k] = {}
    BY DEF Init
  <2> QED BY <2>1 DEF Published, ActiveIn
<1> QED BY <1>1 DEF Abstract!VSInit, PublishedRows, ServedRows

LEMMA AbstractStep == StoreInv /\ [Next]_vars => [Abstract!VSNext]_(Abstract!vs)
<1> SUFFICES ASSUME StoreInv, [Next]_vars
             PROVE  Abstract!VSNext \/ UNCHANGED Abstract!vs
  OBVIOUS
<1>1. TypeOK'
  BY TypeKeeps DEF StoreInv
<1>2. CASE rows' = rows
  <2>1. PublishedRows' = PublishedRows /\ ServedRows' = ServedRows
    BY <1>2 DEF PublishedRows, ServedRows, Published, ActiveIn
  <2> QED BY <2>1 DEF Abstract!vs
<1>3. ASSUME NEW r \in Req, Commit(r)
      PROVE  Abstract!VSNext
  <2> DEFINE n(k) == Len(PublishedRows[k]) + 1
  <2>1. PICK k \in Key : k = key[r]
    BY DEF StoreInv, TypeOK
  <2>2. Grown(k, r) /\ \A j \in Key : j # k => rows'[j] = rows[j]
    BY <1>3, <2>1, CommitRows DEF StoreInv
  <2>3. /\ Published(k)' = Append(Published(k), [by |-> r, version |-> Len(Published(k)) + 1])
        /\ ActiveIn(rows'[k]) = {Len(Published(k)) + 1}
    BY <1>1, <2>2, GrownIsPublished
  <2>4. \A j \in Key : j # k => Published(j)' = Published(j) /\ ActiveIn(rows'[j]) = ActiveIn(rows[j])
    BY <2>2 DEF Published
  <2>5. PublishedRows' = [PublishedRows EXCEPT ![k] =
                            Append(PublishedRows[k], [by |-> r, version |-> n(k)])]
    BY <2>3, <2>4 DEF PublishedRows
  <2>6. ServedRows' = [ServedRows EXCEPT ![k] = {n(k)}]
    BY <2>3, <2>4 DEF PublishedRows, ServedRows
  <2>7. \A j \in Key : ~ Abstract!PublishedBy(j, r)
    BY <1>3, NotPublishedBefore DEF Commit, Committed
  <2>8. Abstract!Publish(k, r)
    BY <2>5, <2>6, <2>7 DEF Abstract!Publish
  <2> QED BY <2>8 DEF Abstract!VSNext
<1>4. ASSUME NEW r \in Req, DeletePrompt(r)
      PROVE  Abstract!VSNext
  <2>1. PICK k \in PromptKey : k = key[r] /\ k \in Key
    BY <1>4, DeleteRows DEF StoreInv
  <2>2. Hidden(k) /\ \A j \in Key : j # k => rows'[j] = rows[j]
    BY <1>4, <2>1, DeleteRows DEF StoreInv
  <2>3. Published(k)' = Published(k) /\ ActiveIn(rows'[k]) = {}
    BY <1>1, <2>1, <2>2, HiddenIsRetired
  <2>4. \A j \in Key : j # k => Published(j)' = Published(j) /\ ActiveIn(rows'[j]) = ActiveIn(rows[j])
    BY <2>2 DEF Published
  <2>5. PublishedRows' = PublishedRows /\ ServedRows' = [ServedRows EXCEPT ![k] = {}]
    BY <2>3, <2>4 DEF PublishedRows, ServedRows
  <2> QED BY <2>5 DEF Abstract!VSNext, Abstract!Retire
<1> QED BY <1>2, <1>3, <1>4, RowsStep

\* Every step of the store is a step of its contract, or changes nothing in it:
\* an upsert is one atomic publication, versions are numbered without gaps, and
\* a slug serves its newest version or nothing.
THEOREM StoreImplementsVersionedStore == Spec => ImplementsVersionedStore
<1>1. Init => Abstract!VSInit
  BY AbstractInit
<1>2. StoreInv /\ [Next]_vars => [Abstract!VSNext]_(Abstract!vs)
  BY AbstractStep
<1> QED BY <1>1, <1>2, StoreInvariant, PTL DEF Spec, ImplementsVersionedStore, Abstract!VSSpec
==============================================================================
