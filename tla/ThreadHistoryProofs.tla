------------------------- MODULE ThreadHistoryProofs -------------------------
(***************************************************************************)
(* Proofs about ThreadHistory, for any set of requests, any window of rows *)
(* and any number of crashes.                                              *)
(***************************************************************************)
EXTENDS ThreadHistory, FiniteSetTheorems, SequenceTheorems, TLAPS

(* What a row holds, a fact the provers find only one element at a time. *)
LEMMA RowFields ==
  ASSUME TypeOK, NEW i \in DOMAIN table
  PROVE  i \in Nat /\ table[i].req \in Request /\ table[i].at \in Nat
<1>1. table \in Seq(Row)
  BY DEF TypeOK
<1>2. i \in 1 .. Len(table) /\ i \in Nat
  BY <1>1, LenProperties
<1>3. table[i] \in Row
  BY <1>1, <1>2, ElementOfSeq
<1> QED BY <1>2, <1>3 DEF Row

(* With a clock that never goes back, the index orders as insertion does. *)
LEMMA IndexIsInsertion ==
  ASSUME TypeOK, ClockInv, NEW i \in DOMAIN table, NEW j \in DOMAIN table
  PROVE  IndexBefore(i, j) <=> i < j
<1>1. i \in Nat /\ j \in Nat
  BY RowFields
<1>2. table[i].at \in Nat /\ table[j].at \in Nat
  BY RowFields
<1>3. (i <= j => table[i].at <= table[j].at) /\ (j <= i => table[j].at <= table[i].at)
  BY DEF ClockInv
<1> QED BY <1>1, <1>2, <1>3 DEF IndexBefore

(* The size of the positions after i. *)
LEMMA IntervalSize ==
  ASSUME NEW i \in Nat, NEW n \in Nat, i <= n
  PROVE  IsFiniteSet((i + 1) .. n) /\ Cardinality((i + 1) .. n) = n - i
<1>1. i + 1 \in Int /\ n \in Int
  OBVIOUS
<1>2. /\ IsFiniteSet((i + 1) .. n)
      /\ Cardinality((i + 1) .. n) = IF i + 1 > n THEN 0 ELSE n - (i + 1) + 1
  BY <1>1, FS_Interval
<1>3. (IF i + 1 > n THEN 0 ELSE n - (i + 1) + 1) = n - i
  OBVIOUS
<1> QED BY <1>2, <1>3

(* The query therefore selects the rows inserted last. *)
LEMMA LastRowsAreRecent ==
  ASSUME TypeOK, ClockInv
  PROVE  /\ LastRows = {i \in 1 .. Len(table) : Len(table) < i + Limit}
         /\ IsFiniteSet(LastRows) /\ Cardinality(LastRows) <= Limit
<1> DEFINE n == Len(table)
<1>1. n \in Nat /\ DOMAIN table = 1 .. n
  BY LenProperties DEF TypeOK
<1>2. ASSUME NEW i \in 1 .. n
      PROVE  Cardinality({j \in DOMAIN table : IndexBefore(i, j)}) = n - i
  <2>1. {j \in DOMAIN table : IndexBefore(i, j)} = {j \in 1 .. n : i < j}
    BY <1>1, IndexIsInsertion
  <2>2. {j \in 1 .. n : i < j} = (i + 1) .. n
    BY <1>1
  <2>3. Cardinality((i + 1) .. n) = n - i
    BY <1>1, IntervalSize
  <2> QED BY <2>1, <2>2, <2>3
<1>3. LastRows = {i \in 1 .. n : n - i < Limit}
  BY <1>1, <1>2 DEF LastRows
<1>4. LastRows = {i \in 1 .. n : n < i + Limit}
  BY <1>1, <1>3, LimitAssumption
<1>5. CASE n < Limit
  <2>1. LastRows = 1 .. n
    BY <1>1, <1>4, <1>5, LimitAssumption
  <2>2. IsFiniteSet(1 .. n) /\ Cardinality(1 .. n) <= Limit
    <3>1. IsFiniteSet((0 + 1) .. n) /\ Cardinality((0 + 1) .. n) = n - 0
      BY <1>1, IntervalSize
    <3> QED BY <1>1, <1>5, <3>1, LimitAssumption
  <2>3. IsFiniteSet(LastRows) /\ Cardinality(LastRows) <= Limit
    BY <2>1, <2>2
  <2> QED BY <1>4, <2>3
<1>6. CASE ~(n < Limit)
  <2>1. LastRows = ((n - Limit) + 1) .. n
    BY <1>1, <1>4, <1>6, LimitAssumption
  <2>2. n - Limit \in Nat /\ n - Limit <= n /\ n - (n - Limit) = Limit
    BY <1>1, <1>6, LimitAssumption
  <2>3. /\ IsFiniteSet(((n - Limit) + 1) .. n)
        /\ Cardinality(((n - Limit) + 1) .. n) = n - (n - Limit)
    BY <1>1, <2>2, IntervalSize
  <2>4. IsFiniteSet(LastRows) /\ Cardinality(LastRows) <= Limit
    BY <2>1, <2>2, <2>3, LimitAssumption
  <2> QED BY <1>4, <2>4
<1> QED BY <1>5, <1>6

(* The invariant without the facts about the rows a request has read, which *)
(* only Read establishes.                                                   *)
LEMMA InitInv == Init => ThreadInv
<1> SUFFICES ASSUME Init PROVE ThreadInv
  OBVIOUS
<1> USE DEF Init
<1>1. DOMAIN table = {} /\ Len(table) = 0 /\ table \in Seq(Row)
  BY EmptySeq
<1>2. TypeOK
  <2>1. history \in [Request -> Seq(Nat)] /\ \A r \in Request : Len(history[r]) <= Limit
    BY LimitAssumption
  <2> QED BY <1>1, <2>1, MaxTimeAssumption DEF TypeOK, PC
<1>3. ClockInv /\ RowsInv
  BY <1>1 DEF ClockInv, RowsInv
<1>4. PairInv /\ SerialExchangesWhole
  BY <1>1 DEF PairInv, SerialExchangesWhole
<1>5. HistoryIsRecent /\ FollowUpSeesExchange
  BY DEF HistoryIsRecent, FollowUpSeesExchange, HasRead
<1> QED BY <1>2, <1>3, <1>4, <1>5 DEF ThreadInv

(* An insert keeps the invariant, for a worker at one of its two inserts.  *)
(* The role and the position decide what has to be last in a serial thread.*)
LEMMA InsertKeeps ==
  ASSUME ThreadInv, NEW r \in Request, NEW role \in {"user", "assistant"},
         NEW l \in {"saveReply", "announce"},
         \/ pc[r] = "saveUser" /\ role = "user"
         \/ pc[r] = "saveReply" /\ role = "assistant" /\ l = "announce",
         Insert(r, role), Goto(r, l),
         UNCHANGED <<clock, reply, history, readAt, outcome, before>>
  PROVE  ThreadInv'
<1> USE DEF ThreadInv
<1> DEFINE n == Len(table)
           row == [req |-> r, role |-> role, at |-> clock]
<1>1. n \in Nat /\ DOMAIN table = 1 .. n /\ table \in Seq(Row) /\ clock \in Nat
  BY LenProperties, MaxTimeAssumption DEF TypeOK
<1>2. row \in Row
  BY <1>1 DEF Row
<1>3. /\ pc' = [pc EXCEPT ![r] = l]
      /\ pc' \in [Request -> PC]
      /\ pc'[r] = l
      /\ \A s \in Request : s # r => pc'[s] = pc[s]
  BY DEF Goto, TypeOK, PC
<1>4. pc[r] \in {"saveUser", "saveReply"} /\ pc'[r] \in {"saveReply", "announce"}
  BY <1>3
<1>5. CASE table' = Append(table, row) /\ UNCHANGED lost
  <2>1. /\ table' \in Seq(Row) /\ Len(table') = n + 1
        /\ \A i \in 1 .. n : table'[i] = table[i]
        /\ table'[n + 1] = row
    BY <1>1, <1>2, <1>5, AppendProperties
  <2>2. DOMAIN table' = 1 .. (n + 1)
    BY <2>1, LenProperties
  <2>3. \A i \in DOMAIN table' : i \in 1 .. n \/ i = n + 1
    BY <1>1, <2>2
  <2>4. TypeOK'
    BY <1>3, <1>5, <2>1 DEF TypeOK
  <2>5. ClockInv'
    <3>1. \A i \in DOMAIN table : table[i].at <= clock
      BY DEF ClockInv
    <3>2. ASSUME NEW i \in DOMAIN table', NEW j \in DOMAIN table', i <= j
          PROVE  table'[i].at <= table'[j].at
      <4>1. CASE j \in 1 .. n
        <5>1. i \in 1 .. n
          BY <1>1, <2>2, <3>2, <4>1
        <5> QED BY <1>1, <2>1, <3>2, <4>1, <5>1 DEF ClockInv
      <4>2. CASE j = n + 1
        <5>1. table'[j].at = clock
          BY <2>1, <4>2
        <5>2. CASE i \in 1 .. n
          BY <1>1, <2>1, <3>1, <5>1, <5>2
        <5>3. CASE i = n + 1
          BY <1>1, <2>1, <5>1, <5>3
        <5> QED BY <2>3, <5>2, <5>3
      <4> QED BY <2>3, <4>1, <4>2
    <3>3. ASSUME NEW i \in DOMAIN table' PROVE table'[i].at <= clock
      BY <1>1, <2>1, <2>3, <3>1
    <3> QED BY <3>2, <3>3 DEF ClockInv
  <2>6. RowsInv'
    <3>1. ASSUME NEW i \in DOMAIN table'
          PROVE  pc'[table'[i].req] \in {"saveReply", "announce", "ended", "dead"}
      <4>1. CASE i = n + 1
        BY <1>4, <2>1, <4>1
      <4>2. CASE i \in 1 .. n
        <5>1. pc[table[i].req] \in {"saveReply", "announce", "ended", "dead"}
          BY <1>1, <4>2 DEF RowsInv
        <5>2. table[i].req \in Request
          BY <1>1, <4>2, RowFields
        <5> QED BY <1>3, <1>4, <2>1, <4>2, <5>1, <5>2
      <4> QED BY <2>3, <4>1, <4>2
    <3>2. \A s \in Request : outcome[s] # "none" => pc'[s] = "ended"
      BY <1>3, <1>4 DEF RowsInv
    <3>3. \A s \in Request : \A a \in before[s] : pc'[a] \in {"ended", "dead"}
      BY <1>3, <1>4 DEF RowsInv, TypeOK
    <3> QED BY <3>1, <3>2, <3>3 DEF RowsInv
  <2>7. Serial' <=> Serial
    <3>1. Sent' = Sent
      BY <1>3, <1>4 DEF Sent
    <3> QED BY <3>1 DEF Serial
  <2>8. PairInv'
    <3> SUFFICES ASSUME Serial, NEW s \in Request, pc'[s] = "saveReply", s \notin lost
                 PROVE  table'[n + 1].req = s /\ table'[n + 1].role = "user"
      BY <1>1, <1>5, <2>1, <2>7 DEF PairInv
    <3>1. CASE s = r
      BY <1>3, <2>1, <3>1
    <3>2. CASE s # r
      <4>1. pc[s] = "saveReply"
        BY <1>3, <3>2
      <4>2. s \in before[r] \/ r \in before[s]
        BY <1>4, <3>2, <4>1 DEF Serial, Sent
      <4> QED BY <1>4, <4>1, <4>2 DEF RowsInv
    <3> QED BY <3>1, <3>2
  <2>9. SerialExchangesWhole'
    <3> SUFFICES ASSUME Serial, NEW i \in DOMAIN table',
                        table'[i].role = "assistant", table'[i].req \notin lost
                 PROVE  /\ i > 1 /\ table'[i - 1].role = "user"
                        /\ table'[i - 1].req = table'[i].req
      BY <1>5, <2>7 DEF SerialExchangesWhole, OwnQuestionPrecedes
    <3>1. CASE i \in 1 .. n
      <4>1. i > 1 /\ table[i - 1].role = "user" /\ table[i - 1].req = table[i].req
        BY <1>1, <2>1, <3>1 DEF SerialExchangesWhole, OwnQuestionPrecedes
      <4>2. i - 1 \in 1 .. n
        BY <1>1, <3>1, <4>1
      <4> QED BY <2>1, <3>1, <4>1, <4>2
    <3>2. CASE i = n + 1
      <4>1. table'[i].req = r /\ table'[i].role = role
        BY <2>1, <3>2
      <4>2. pc[r] = "saveReply" /\ r \notin lost
        BY <4>1
      <4>3. n > 0 /\ table[n].req = r /\ table[n].role = "user"
        BY <4>2 DEF PairInv
      <4>4. i > 1 /\ i - 1 = n /\ n \in 1 .. n
        BY <1>1, <3>2, <4>3
      <4> QED BY <2>1, <4>1, <4>3, <4>4
    <3> QED BY <2>3, <3>1, <3>2
  <2>10. \A s \in Request : HasRead(s)' => HasRead(s)
    BY <1>3, <1>4 DEF HasRead
  <2>11. HistoryIsRecent'
    BY <2>10 DEF HistoryIsRecent
  <2>12. FollowUpSeesExchange'
    <3> SUFFICES ASSUME NEW s \in Request, HasRead(s)', NEW i \in DOMAIN table',
                        table'[i].req \in before[s]
                 PROVE  i <= readAt[s]
      BY DEF FollowUpSeesExchange
    <3>1. i # n + 1
      BY <1>4, <2>1 DEF RowsInv
    <3>2. i \in DOMAIN table /\ table[i].req \in before[s]
      BY <1>1, <2>1, <2>3, <3>1
    <3> QED BY <2>10, <3>2 DEF FollowUpSeesExchange
  <2> QED BY <2>4, <2>5, <2>6, <2>8, <2>9, <2>11, <2>12
<1>6. CASE lost' = lost \cup {r} /\ UNCHANGED table
  <2>1. TypeOK'
    BY <1>3, <1>6 DEF TypeOK
  <2>2. ClockInv'
    BY <1>6 DEF ClockInv
  <2>3. RowsInv'
    <3>1. \A i \in DOMAIN table : table[i].req \in Request
      BY RowFields
    <3>2. \A i \in DOMAIN table :
            pc'[table[i].req] \in {"saveReply", "announce", "ended", "dead"}
      BY <1>3, <1>4, <3>1 DEF RowsInv
    <3>3. \A s \in Request : outcome[s] # "none" => pc'[s] = "ended"
      BY <1>3, <1>4 DEF RowsInv
    <3>4. \A s \in Request : \A a \in before[s] : pc'[a] \in {"ended", "dead"}
      BY <1>3, <1>4 DEF RowsInv, TypeOK
    <3> QED BY <1>6, <3>2, <3>3, <3>4 DEF RowsInv
  <2>4. Serial' <=> Serial
    <3>1. Sent' = Sent
      BY <1>3, <1>4 DEF Sent
    <3> QED BY <3>1 DEF Serial
  <2>5. PairInv'
    BY <1>3, <1>6, <2>4 DEF PairInv
  <2>6. SerialExchangesWhole'
    BY <1>6, <2>4 DEF SerialExchangesWhole, OwnQuestionPrecedes
  <2>7. \A s \in Request : HasRead(s)' => HasRead(s)
    BY <1>3, <1>4 DEF HasRead
  <2>8. HistoryIsRecent' /\ FollowUpSeesExchange'
    BY <1>6, <2>7 DEF HistoryIsRecent, FollowUpSeesExchange
  <2> QED BY <2>1, <2>2, <2>3, <2>5, <2>6, <2>8
<1> QED BY <1>5, <1>6 DEF Insert

(* A step that leaves the table alone, moves no worker to its second       *)
(* insert or out of an ended state, and makes no thread serial that was    *)
(* not, keeps all but what is said of reading.                             *)
LEMMA MoveKeeps ==
  ASSUME ThreadInv, TypeOK',
         UNCHANGED <<table, clock, lost>>,
         \A r \in Request : pc[r] \in {"saveReply", "announce", "ended", "dead"} =>
                              pc'[r] \in {"saveReply", "announce", "ended", "dead"},
         \A r \in Request : pc[r] \in {"ended", "dead"} => pc'[r] \in {"ended", "dead"},
         \A r \in Request : pc'[r] = "saveReply" => pc[r] = "saveReply",
         \A r \in Request : outcome'[r] # "none" => pc'[r] = "ended",
         \A r \in Request : \A a \in before'[r] : pc'[a] \in {"ended", "dead"},
         Serial' => Serial
  PROVE  ClockInv' /\ RowsInv' /\ PairInv' /\ SerialExchangesWhole'
<1> USE DEF ThreadInv
<1>1. ClockInv'
  BY DEF ClockInv
<1>2. RowsInv'
  <2>1. \A i \in DOMAIN table : table[i].req \in Request
    BY RowFields
  <2> QED BY <2>1 DEF RowsInv
<1>3. PairInv'
  BY DEF PairInv
<1>4. SerialExchangesWhole'
  BY DEF SerialExchangesWhole, OwnQuestionPrecedes
<1> QED BY <1>1, <1>2, <1>3, <1>4

(* Sending another request never makes a thread serial. *)
LEMMA SendKeepsOverlap ==
  ASSUME ThreadInv, NEW r \in Request, Send(r), Serial'
  PROVE  Serial
<1>1. Sent \subseteq Sent'
  BY DEF Send, Goto, Sent, ThreadInv, TypeOK
<1>2. r \notin Sent /\ \A s \in Request : s # r => before'[s] = before[s]
  BY DEF Send, Sent, ThreadInv, TypeOK
<1> SUFFICES ASSUME NEW s \in Sent, NEW t \in Sent
             PROVE  s = t \/ s \in before[t] \/ t \in before[s]
  BY DEF Serial
<1>3. s = t \/ s \in before'[t] \/ t \in before'[s]
  BY <1>1 DEF Serial
<1>4. before'[s] = before[s] /\ before'[t] = before[t]
  BY <1>2 DEF Sent
<1> QED BY <1>3, <1>4

(* The invariant holds in every reachable state. *)
LEMMA ThreadInvariance == Spec => []ThreadInv
<1>1. ThreadInv /\ [Next]_threadVars => ThreadInv'
  <2> SUFFICES ASSUME ThreadInv, [Next]_threadVars PROVE ThreadInv'
    OBVIOUS
  <2>1. ASSUME NEW r \in Request, Send(r) PROVE ThreadInv'
    <3> USE <2>1
    <3>1. /\ pc[r] = "new" /\ pc' = [pc EXCEPT ![r] = "read"]
          /\ before' = [before EXCEPT ![r] = {a \in Request : OverForClient(a)}]
          /\ UNCHANGED <<table, clock, reply, history, readAt, outcome, lost>>
      BY DEF Send, Goto
    <3>2. TypeOK'
      BY <3>1 DEF ThreadInv, TypeOK, PC
    <3>3. pc'[r] = "read" /\ \A s \in Request : s # r => pc'[s] = pc[s] /\ before'[s] = before[s]
      BY <3>1 DEF ThreadInv, TypeOK
    <3>4. \A a \in before'[r] : pc[a] \in {"ended", "dead"}
      BY <3>1 DEF OverForClient, ThreadInv, RowsInv, TypeOK
    <3>5. \A s \in Request : \A a \in before'[s] : pc'[a] \in {"ended", "dead"}
      BY <3>1, <3>2, <3>3, <3>4 DEF ThreadInv, RowsInv, TypeOK
    <3>6. ClockInv' /\ RowsInv' /\ PairInv' /\ SerialExchangesWhole'
      BY <3>1, <3>2, <3>3, <3>5, MoveKeeps, SendKeepsOverlap DEF ThreadInv, RowsInv
    <3>7. \A s \in Request : HasRead(s)' => HasRead(s) /\ s # r
      BY <3>1, <3>3 DEF HasRead, ThreadInv, RowsInv
    <3>8. HistoryIsRecent'
      BY <3>1, <3>7 DEF HistoryIsRecent, ThreadInv
    <3>9. FollowUpSeesExchange'
      BY <3>1, <3>3, <3>7 DEF FollowUpSeesExchange, ThreadInv
    <3> QED BY <3>2, <3>6, <3>8, <3>9 DEF ThreadInv
  <2>2. ASSUME NEW r \in Request, Fail(r) PROVE ThreadInv'
    <3>1. /\ pc[r] \in {"read", "answer"} /\ pc' = [pc EXCEPT ![r] = "ended"]
          /\ outcome' = [outcome EXCEPT ![r] = "error"]
          /\ UNCHANGED <<table, clock, reply, history, readAt, before, lost>>
      BY <2>2 DEF Fail, Goto
    <3>2. TypeOK'
      BY <3>1 DEF ThreadInv, TypeOK, PC
    <3>3. /\ pc'[r] = "ended" /\ outcome'[r] = "error"
          /\ \A s \in Request : s # r => pc'[s] = pc[s] /\ outcome'[s] = outcome[s]
      BY <3>1 DEF ThreadInv, TypeOK
    <3>4. Serial' => Serial
      <4>1. Sent' = Sent
        BY <3>1, <3>3 DEF Sent
      <4> QED BY <3>1, <4>1 DEF Serial
    <3>5. \A s \in Request : \A a \in before'[s] : pc'[a] \in {"ended", "dead"}
      BY <3>1, <3>2, <3>3 DEF ThreadInv, RowsInv, TypeOK
    <3>6. ClockInv' /\ RowsInv' /\ PairInv' /\ SerialExchangesWhole'
      BY <3>1, <3>2, <3>3, <3>4, <3>5, MoveKeeps DEF ThreadInv, RowsInv
    <3>7. \A s \in Request : HasRead(s)' => HasRead(s)
      BY <3>3 DEF HasRead
    <3>8. HistoryIsRecent' /\ FollowUpSeesExchange'
      BY <3>1, <3>7 DEF HistoryIsRecent, FollowUpSeesExchange, ThreadInv
    <3> QED BY <3>2, <3>6, <3>8 DEF ThreadInv
  <2>3. ASSUME NEW r \in Request, Read(r) PROVE ThreadInv'
    <3>1. PICK h \in InOrder(LastRows) : history' = [history EXCEPT ![r] = h]
      BY <2>3 DEF Read
    <3>2. /\ pc[r] = "read" /\ pc' = [pc EXCEPT ![r] = "answer"]
          /\ readAt' = [readAt EXCEPT ![r] = Len(table)]
          /\ UNCHANGED <<table, clock, reply, outcome, before, lost>>
      BY <2>3 DEF Read, Goto
    <3>3. TypeOK /\ ClockInv
      BY DEF ThreadInv
    <3>4. Len(table) \in Nat /\ DOMAIN table = 1 .. Len(table)
      BY <3>3, LenProperties DEF TypeOK
    <3>5. /\ LastRows = {i \in 1 .. Len(table) : Len(table) < i + Limit}
          /\ IsFiniteSet(LastRows) /\ Cardinality(LastRows) <= Limit
      BY <3>3, LastRowsAreRecent
    <3>6. Cardinality(LastRows) \in Nat
      BY <3>5, FS_CardinalityType
    <3>7. /\ h \in [1 .. Cardinality(LastRows) -> LastRows]
          /\ LastRows = {h[k] : k \in DOMAIN h}
          /\ \A k, l \in DOMAIN h : k < l => IndexBefore(h[k], h[l])
      BY DEF InOrder
    <3>8. h \in Seq(Nat) /\ Len(h) <= Limit
      <4>1. LastRows \subseteq Nat
        BY <3>4, <3>5
      <4>2. h \in [1 .. Cardinality(LastRows) -> Nat]
        BY <3>7, <4>1
      <4>3. h \in Seq(Nat)
        BY <3>6, <4>2, IsASeq
      <4>4. Len(h) \in Nat /\ DOMAIN h = 1 .. Len(h)
        BY <4>3, LenProperties
      <4>5. Len(h) = Cardinality(LastRows)
        BY <3>6, <4>2, <4>4
      <4> QED BY <3>5, <4>3, <4>5
    <3>9. TypeOK'
      BY <3>1, <3>2, <3>3, <3>4, <3>8 DEF TypeOK, PC
    <3>10. /\ pc'[r] = "answer" /\ history'[r] = h /\ readAt'[r] = Len(table)
           /\ \A s \in Request : s # r =>
                pc'[s] = pc[s] /\ history'[s] = history[s] /\ readAt'[s] = readAt[s]
      BY <3>1, <3>2, <3>3 DEF TypeOK
    <3>11. Serial' => Serial
      <4>1. Sent' = Sent
        BY <3>2, <3>10 DEF Sent
      <4> QED BY <3>2, <4>1 DEF Serial
    <3>12. \A s \in Request : \A a \in before'[s] : pc'[a] \in {"ended", "dead"}
      BY <3>2, <3>3, <3>10 DEF ThreadInv, RowsInv, TypeOK
    <3>13. ClockInv' /\ RowsInv' /\ PairInv' /\ SerialExchangesWhole'
      BY <3>2, <3>9, <3>10, <3>11, <3>12, MoveKeeps DEF ThreadInv, RowsInv
    <3>14. \A s \in Request : s # r /\ HasRead(s)' => HasRead(s)
      BY <3>2, <3>10 DEF HasRead
    <3>15. HistoryIsRecent'
      <4> SUFFICES ASSUME NEW s \in Request, HasRead(s)'
                   PROVE  /\ {history'[s][k] : k \in DOMAIN history'[s]} =
                               {i \in 1 .. readAt'[s] : readAt'[s] < i + Limit}
                          /\ \A k, l \in DOMAIN history'[s] :
                               k < l => history'[s][k] < history'[s][l]
        BY DEF HistoryIsRecent
      <4>1. CASE s = r
        <5>1. \A k \in DOMAIN h : h[k] \in DOMAIN table
          BY <3>4, <3>5, <3>7
        <5>2. \A k, l \in DOMAIN h : k < l => h[k] < h[l]
          <6> SUFFICES ASSUME NEW k \in DOMAIN h, NEW l \in DOMAIN h, k < l
                       PROVE  h[k] < h[l]
            OBVIOUS
          <6>1. IndexBefore(h[k], h[l])
            BY <3>7
          <6> QED BY <3>3, <5>1, <6>1, IndexIsInsertion
        <5>3. {h[k] : k \in DOMAIN h} = {i \in 1 .. Len(table) : Len(table) < i + Limit}
          BY <3>5, <3>7
        <5>4. history'[s] = h /\ readAt'[s] = Len(table)
          BY <3>10, <4>1
        <5> QED BY <5>2, <5>3, <5>4
      <4>2. CASE s # r
        BY <3>10, <3>14, <4>2 DEF HistoryIsRecent, ThreadInv
      <4> QED BY <4>1, <4>2
    <3>16. FollowUpSeesExchange'
      <4> SUFFICES ASSUME NEW s \in Request, HasRead(s)', NEW i \in DOMAIN table,
                          table[i].req \in before[s]
                   PROVE  i <= readAt'[s]
        BY <3>2 DEF FollowUpSeesExchange
      <4>1. CASE s = r
        BY <3>4, <3>10, <4>1
      <4>2. CASE s # r
        BY <3>10, <3>14, <4>2 DEF FollowUpSeesExchange, ThreadInv
      <4> QED BY <4>1, <4>2
    <3> QED BY <3>9, <3>13, <3>15, <3>16 DEF ThreadInv
  <2>4. ASSUME NEW r \in Request, Answer(r) PROVE ThreadInv'
    <3>1. /\ pc[r] = "answer" /\ pc' = [pc EXCEPT ![r] = "saveUser"]
          /\ reply' \in [Request -> BOOLEAN]
          /\ UNCHANGED <<table, clock, history, readAt, outcome, before, lost>>
      BY <2>4 DEF Answer, Goto, ThreadInv, TypeOK
    <3>2. TypeOK'
      BY <3>1 DEF ThreadInv, TypeOK, PC
    <3>3. pc'[r] = "saveUser" /\ \A s \in Request : s # r => pc'[s] = pc[s]
      BY <3>1 DEF ThreadInv, TypeOK
    <3>4. Serial' => Serial
      <4>1. Sent' = Sent
        BY <3>1, <3>3 DEF Sent
      <4> QED BY <3>1, <4>1 DEF Serial
    <3>5. \A s \in Request : \A a \in before'[s] : pc'[a] \in {"ended", "dead"}
      BY <3>1, <3>2, <3>3 DEF ThreadInv, RowsInv, TypeOK
    <3>6. ClockInv' /\ RowsInv' /\ PairInv' /\ SerialExchangesWhole'
      BY <3>1, <3>2, <3>3, <3>4, <3>5, MoveKeeps DEF ThreadInv, RowsInv
    <3>7. \A s \in Request : HasRead(s)' => HasRead(s)
      BY <3>1, <3>3 DEF HasRead
    <3>8. HistoryIsRecent' /\ FollowUpSeesExchange'
      BY <3>1, <3>7 DEF HistoryIsRecent, FollowUpSeesExchange, ThreadInv
    <3> QED BY <3>2, <3>6, <3>8 DEF ThreadInv
  <2>5. ASSUME NEW r \in Request, SaveUser(r) PROVE ThreadInv'
    <3>1. /\ pc[r] = "saveUser" /\ Insert(r, "user")
          /\ UNCHANGED <<clock, reply, history, readAt, outcome, before>>
      BY <2>5 DEF SaveUser
    <3>2. Goto(r, "saveReply") \/ Goto(r, "announce")
      BY <2>5 DEF SaveUser
    <3> QED BY <3>1, <3>2, InsertKeeps
  <2>6. ASSUME NEW r \in Request, SaveReply(r) PROVE ThreadInv'
    <3>1. /\ pc[r] = "saveReply" /\ Insert(r, "assistant") /\ Goto(r, "announce")
          /\ UNCHANGED <<clock, reply, history, readAt, outcome, before>>
      BY <2>6 DEF SaveReply
    <3> QED BY <3>1, InsertKeeps
  <2>7. ASSUME NEW r \in Request, Announce(r) PROVE ThreadInv'
    <3>1. /\ pc[r] = "announce" /\ pc' = [pc EXCEPT ![r] = "ended"]
          /\ outcome' = [outcome EXCEPT ![r] = "done"]
          /\ UNCHANGED <<table, clock, reply, history, readAt, before, lost>>
      BY <2>7 DEF Announce, Goto
    <3>2. TypeOK'
      BY <3>1 DEF ThreadInv, TypeOK, PC
    <3>3. /\ pc'[r] = "ended" /\ outcome'[r] = "done"
          /\ \A s \in Request : s # r => pc'[s] = pc[s] /\ outcome'[s] = outcome[s]
      BY <3>1 DEF ThreadInv, TypeOK
    <3>4. Serial' => Serial
      <4>1. Sent' = Sent
        BY <3>1, <3>3 DEF Sent
      <4> QED BY <3>1, <4>1 DEF Serial
    <3>5. \A s \in Request : \A a \in before'[s] : pc'[a] \in {"ended", "dead"}
      BY <3>1, <3>2, <3>3 DEF ThreadInv, RowsInv, TypeOK
    <3>6. ClockInv' /\ RowsInv' /\ PairInv' /\ SerialExchangesWhole'
      BY <3>1, <3>2, <3>3, <3>4, <3>5, MoveKeeps DEF ThreadInv, RowsInv
    <3>7. \A s \in Request : HasRead(s)' => HasRead(s)
      BY <3>1, <3>3 DEF HasRead
    <3>8. HistoryIsRecent' /\ FollowUpSeesExchange'
      BY <3>1, <3>7 DEF HistoryIsRecent, FollowUpSeesExchange, ThreadInv
    <3> QED BY <3>2, <3>6, <3>8 DEF ThreadInv
  <2>8. CASE Crash
    <3>1. /\ pc' = [r \in Request |-> IF pc[r] \in {"new", "ended"} THEN pc[r] ELSE "dead"]
          /\ UNCHANGED <<table, clock, reply, history, readAt, outcome, before, lost>>
      BY <2>8 DEF Crash
    <3>2. \A s \in Request :
            pc'[s] = IF pc[s] \in {"new", "ended"} THEN pc[s] ELSE "dead"
      BY <3>1
    <3>3. TypeOK'
      <4>1. pc' \in [Request -> PC]
        BY <3>1 DEF ThreadInv, TypeOK, PC
      <4> QED BY <3>1, <4>1 DEF ThreadInv, TypeOK
    <3>4. Serial' => Serial
      <4>1. Sent' = Sent
        BY <3>2 DEF Sent
      <4> QED BY <3>1, <4>1 DEF Serial
    <3>5. \A s \in Request : \A a \in before'[s] : pc'[a] \in {"ended", "dead"}
      BY <3>1, <3>2 DEF ThreadInv, RowsInv, TypeOK
    <3>6. ClockInv' /\ RowsInv' /\ PairInv' /\ SerialExchangesWhole'
      BY <3>1, <3>2, <3>3, <3>4, <3>5, MoveKeeps DEF ThreadInv, RowsInv
    <3>7. \A s \in Request : HasRead(s)' => HasRead(s)
      BY <3>1, <3>2 DEF HasRead
    <3>8. HistoryIsRecent' /\ FollowUpSeesExchange'
      BY <3>1, <3>7 DEF HistoryIsRecent, FollowUpSeesExchange, ThreadInv
    <3> QED BY <3>3, <3>6, <3>8 DEF ThreadInv
  <2>9. CASE Tick
    <3>1. /\ clock < MaxTime /\ clock' = clock + 1
          /\ UNCHANGED <<table, pc, reply, history, readAt, outcome, before, lost>>
      BY <2>9 DEF Tick
    <3>2. TypeOK'
      <4>1. clock' \in 0 .. MaxTime
        BY <3>1, MaxTimeAssumption DEF ThreadInv, TypeOK
      <4> QED BY <3>1, <4>1 DEF ThreadInv, TypeOK
    <3>3. ClockInv'
      <4>1. \A i \in DOMAIN table : table[i].at \in Nat
        BY RowFields DEF ThreadInv
      <4>2. clock \in Nat
        BY MaxTimeAssumption DEF ThreadInv, TypeOK
      <4>3. \A i \in DOMAIN table : table[i].at <= clock'
        BY <3>1, <4>1, <4>2 DEF ThreadInv, ClockInv
      <4> QED BY <3>1, <4>3 DEF ThreadInv, ClockInv
    <3>4. RowsInv' /\ PairInv' /\ SerialExchangesWhole' /\ HistoryIsRecent' /\ FollowUpSeesExchange'
      BY <3>1 DEF ThreadInv, RowsInv, PairInv, Serial, Sent, SerialExchangesWhole,
                  OwnQuestionPrecedes, HistoryIsRecent, FollowUpSeesExchange, HasRead
    <3> QED BY <3>2, <3>3, <3>4 DEF ThreadInv
  <2>10. CASE UNCHANGED threadVars
    BY <2>10 DEF threadVars, ThreadInv, TypeOK, ClockInv, RowsInv, PairInv, Serial, Sent,
                 SerialExchangesWhole, OwnQuestionPrecedes, HistoryIsRecent,
                 FollowUpSeesExchange, HasRead
  <2> QED BY <2>1, <2>2, <2>3, <2>4, <2>5, <2>6, <2>7, <2>8, <2>9, <2>10
          DEF Next, RequestStep
<1> QED BY <1>1, InitInv, PTL DEF Spec

(* Type correctness; in particular no request ever reads more rows than it *)
(* asked for.                                                              *)
THEOREM ThreadTypeCorrect == Spec => []TypeOK
<1>1. ThreadInv => TypeOK
  BY DEF ThreadInv
<1> QED BY <1>1, ThreadInvariance, PTL

(* Every request reads the rows inserted last, in insertion order. *)
THEOREM HistoryRecent == Spec => []HistoryIsRecent
<1>1. ThreadInv => HistoryIsRecent
  BY DEF ThreadInv
<1> QED BY <1>1, ThreadInvariance, PTL

(* A follow-up request misses nothing its predecessors ever store. *)
THEOREM FollowUpsSeeExchanges == Spec => []FollowUpSeesExchange
<1>1. ThreadInv => FollowUpSeesExchange
  BY DEF ThreadInv
<1> QED BY <1>1, ThreadInvariance, PTL

(* One request at a time, each stored answer follows its own question. *)
THEOREM SerialThreadsWhole == Spec => []SerialExchangesWhole
<1>1. ThreadInv => SerialExchangesWhole
  BY DEF ThreadInv
<1> QED BY <1>1, ThreadInvariance, PTL
=============================================================================
