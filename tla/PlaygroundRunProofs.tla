------------------------- MODULE PlaygroundRunProofs -------------------------
(***************************************************************************)
(* Proofs about PlaygroundRun, for channels of any capacity, any bound on  *)
(* the iterations, and chains of delegation of any length.                 *)
(***************************************************************************)
EXTENDS PlaygroundRun, SequenceTheorems, WellFoundedInduction, TLAPS

(***************************************************************************)
(* What a send and a receive do to the channels, and to what is told.      *)
(***************************************************************************)
LEMMA EmitFacts ==
  ASSUME TypeOK, NEW i \in Level, NEW e \in SSEvent, Emit(i, e)
  PROVE  /\ ch' \in [Level -> Seq(SSEvent)]
         /\ \A j \in Level : Len(ch'[j]) <= EventCap
         /\ \A j \in Level : j # i => ch'[j] = ch[j]
         /\ Len(ch[i]) \in Nat /\ Len(ch'[i]) = Len(ch[i]) + 1
         /\ \A k \in 1 .. Len(ch[i]) : ch'[i][k] = ch[i][k]
         /\ ch'[i][Len(ch[i]) + 1] = e
         /\ ch'[i] # << >>
<1>1. /\ ch[i] \in Seq(SSEvent) /\ ch' = [ch EXCEPT ![i] = Append(ch[i], e)]
      /\ Len(ch[i]) < EventCap /\ Len(ch[i]) \in Nat /\ EventCap \in Nat
  BY LenProperties, RunAssumption DEF TypeOK, Emit
<1>2. /\ Append(ch[i], e) \in Seq(SSEvent)
      /\ Len(Append(ch[i], e)) = Len(ch[i]) + 1
      /\ \A k \in 1 .. Len(ch[i]) : Append(ch[i], e)[k] = ch[i][k]
      /\ Append(ch[i], e)[Len(ch[i]) + 1] = e
  BY <1>1, AppendProperties
<1>3. /\ ch'[i] = Append(ch[i], e)
      /\ \A j \in Level : j # i => ch'[j] = ch[j]
      /\ ch' \in [Level -> Seq(SSEvent)]
  BY <1>1, <1>2 DEF TypeOK
<1>4. \A j \in Level : Len(ch'[j]) <= EventCap
  BY <1>1, <1>2, <1>3 DEF TypeOK
<1>5. ch'[i] # << >>
  BY <1>1, <1>2, <1>3, EmptySeq
<1> QED BY <1>1, <1>2, <1>3, <1>4, <1>5

LEMMA EmitTells ==
  ASSUME TypeOK, NEW i \in Level, NEW e \in SSEvent, Emit(i, e), UNCHANGED heard
  PROVE  /\ \A j \in Level, f \in SSEvent : j # i => (Told(j, f)' <=> Told(j, f))
         /\ \A f \in SSEvent : Told(i, f)' <=> Told(i, f) \/ f = e
<1>1. \A j \in Level, f \in SSEvent : j # i => (Told(j, f)' <=> Told(j, f))
  BY EmitFacts DEF Told
<1>2. ASSUME NEW f \in SSEvent PROVE Told(i, f)' <=> Told(i, f) \/ f = e
  <2> DEFINE n == Len(ch[i])
  <2>1. /\ n \in Nat /\ Len(ch'[i]) = n + 1 /\ ch'[i][n + 1] = e
        /\ \A k \in 1 .. n : ch'[i][k] = ch[i][k]
    BY EmitFacts
  <2>2. \A k \in 1 .. (n + 1) : k \in 1 .. n \/ k = n + 1
    BY <2>1
  <2>3. 1 .. n \subseteq 1 .. (n + 1) /\ n + 1 \in 1 .. (n + 1)
    BY <2>1
  <2> QED BY <2>1, <2>2, <2>3 DEF Told
<1> QED BY <1>1, <1>2

LEMMA TakeFacts ==
  ASSUME TypeOK, NEW j \in Level, Take(j)
  PROVE  /\ ch' \in [Level -> Seq(SSEvent)]
         /\ \A i \in Level : Len(ch'[i]) <= EventCap
         /\ \A i \in Level : i # j => ch'[i] = ch[i] /\ heard'[i] = heard[i]
         /\ heard' \in [Level -> SSEvent \cup {"none"}]
         /\ Len(ch[j]) \in Nat \ {0} /\ Len(ch'[j]) = Len(ch[j]) - 1
         /\ \A k \in 1 .. Len(ch'[j]) : ch'[j][k] = ch[j][k + 1]
         /\ heard'[j] = ch[j][1] /\ ch[j][1] \in SSEvent
<1>1. /\ ch[j] \in Seq(SSEvent) /\ ch[j] # << >>
      /\ ch' = [ch EXCEPT ![j] = Tail(ch[j])]
      /\ heard' = [heard EXCEPT ![j] = Head(ch[j])]
  BY DEF TypeOK, Take
<1>2. /\ Head(ch[j]) \in SSEvent /\ Head(ch[j]) = ch[j][1]
      /\ Tail(ch[j]) \in Seq(SSEvent) /\ Len(Tail(ch[j])) = Len(ch[j]) - 1
      /\ \A k \in 1 .. Len(Tail(ch[j])) : Tail(ch[j])[k] = ch[j][k + 1]
  BY <1>1, HeadTailProperties
<1>3. Len(ch[j]) \in Nat \ {0}
  BY <1>1, EmptySeq, LenProperties
<1>4. /\ ch'[j] = Tail(ch[j]) /\ heard'[j] = Head(ch[j])
      /\ \A i \in Level : i # j => ch'[i] = ch[i] /\ heard'[i] = heard[i]
      /\ ch' \in [Level -> Seq(SSEvent)]
      /\ heard' \in [Level -> SSEvent \cup {"none"}]
  BY <1>1, <1>2 DEF TypeOK
<1>5. EventCap \in Nat /\ \A i \in Level : Len(ch[i]) <= EventCap
  BY RunAssumption DEF TypeOK
<1>6. ASSUME NEW i \in Level PROVE Len(ch'[i]) <= EventCap
  <2>1. CASE i = j
    <3>1. Len(ch'[i]) = Len(ch[j]) - 1 /\ Len(ch[j]) <= EventCap
      BY <1>2, <1>4, <1>5, <2>1
    <3> QED BY <1>3, <1>5, <3>1
  <2>2. CASE i # j
    BY <1>4, <1>5, <2>2
  <2> QED BY <2>1, <2>2
<1> QED BY <1>2, <1>3, <1>4, <1>6

(* A receive changes nothing of which outcomes were told. *)
LEMMA TakeTells ==
  ASSUME TypeOK, OneOutcomeLast, NEW j \in Level, Take(j)
  PROVE  \A i \in Level, e \in Outcome : Told(i, e)' <=> Told(i, e)
<1>1. \A i \in Level, e \in Outcome : i # j => (Told(i, e)' <=> Told(i, e))
  BY TakeFacts DEF Told
<1>2. ASSUME NEW e \in Outcome PROVE Told(j, e)' <=> Told(j, e)
  <2> DEFINE n == Len(ch[j])
  <2>1. /\ n \in Nat \ {0} /\ Len(ch'[j]) = n - 1 /\ heard'[j] = ch[j][1]
        /\ \A k \in 1 .. (n - 1) : ch'[j][k] = ch[j][k + 1]
    BY TakeFacts
  <2>2. heard[j] # e
    BY DEF OneOutcomeLast, Take
  <2>3. Told(j, e) <=> \E k \in 1 .. n : ch[j][k] = e
    BY <2>2 DEF Told
  <2>4. Told(j, e)' <=> ch[j][1] = e \/ \E k \in 1 .. (n - 1) : ch[j][k + 1] = e
    BY <2>1 DEF Told
  <2>5. \A k \in 1 .. n : k = 1 \/ (k - 1 \in 1 .. (n - 1) /\ (k - 1) + 1 = k)
    BY <2>1
  <2>6. 1 \in 1 .. n /\ \A k \in 1 .. (n - 1) : k + 1 \in 1 .. n
    BY <2>1
  <2>7. (\E k \in 1 .. n : ch[j][k] = e) =>
          ch[j][1] = e \/ \E k \in 1 .. (n - 1) : ch[j][k + 1] = e
    BY <2>5
  <2>8. (ch[j][1] = e \/ \E k \in 1 .. (n - 1) : ch[j][k + 1] = e) =>
          \E k \in 1 .. n : ch[j][k] = e
    BY <2>6
  <2> QED BY <2>3, <2>4, <2>7, <2>8
<1> QED BY <1>1, <1>2

LEMMA LevelFacts ==
  /\ 1 \in Level /\ Level \subseteq Nat
  /\ \A i \in Level : \A j \in 1 .. (i - 1) : j \in Level /\ j < i
BY RunAssumption DEF Level

LEMMA InitInv == Init => RunInv
<1> SUFFICES ASSUME Init PROVE RunInv
  OBVIOUS
<1> USE DEF Init
<1>1. << >> \in Seq(SSEvent) /\ << >> \in Seq({"user", "assistant"}) /\ Len(<< >>) = 0
  BY EmptySeq
<1>2. TypeOK
  <2>1. /\ rows \in Seq({"user", "assistant"})
        /\ ch \in [Level -> Seq(SSEvent)] /\ \A i \in Level : ch[i] = << >>
    BY <1>1
  <2>2. \A i \in Level : Len(ch[i]) <= EventCap
    BY <1>1, <2>1, RunAssumption
  <2>3. /\ iter \in [Level -> 0 .. MaxIter]
        /\ parts \in [Level -> 0 .. MaxParts] /\ calls \in [Level -> 0 .. MaxParts]
    BY RunAssumption
  <2>4. /\ pc \in [Level -> PC] /\ heard \in [Level -> SSEvent \cup {"none"}]
        /\ route \in {"chat", "delegate"} /\ hpc \in HPC
        /\ answer \in {"none", "ok", "failed"}
    BY DEF PC, HPC
  <2>5. ctxDone \in BOOLEAN /\ convLive \in BOOLEAN
    OBVIOUS
  <2> QED BY <2>1, <2>2, <2>3, <2>4, <2>5 DEF TypeOK
<1>3. \A i \in Level, e \in SSEvent : ~Told(i, e)
  BY DEF Told, SSEvent, Progress, Outcome
<1>4. OneOutcomeLast
  BY DEF OneOutcomeLast, Running, Closed, Outcome
<1>5. DelegationNests /\ DelegateAnswersOnlyDone
  BY LevelFacts DEF DelegationNests, DelegateAnswersOnlyDone
<1>6. TellInv /\ CountInv
  BY RunAssumption DEF TellInv, CountInv, Running
<1>7. HandlerInv
  BY DEF HandlerInv
<1>8. RowsInv
  BY <1>3, LevelFacts DEF RowsInv, SSEvent, Outcome
<1> QED BY <1>2, <1>4, <1>5, <1>6, <1>7, <1>8 DEF RunInv

(***************************************************************************)
(* Steps of a level that runs and does not wait for the next one.          *)
(***************************************************************************)
\* Nothing below such a level is active, so a move of it disturbs no other.
LEMMA NestsKeeps ==
  ASSUME RunInv, NEW i \in Level, pc[i] \notin {"idle", "drain", "exited"},
         NEW l \in PC, Goto(i, l)
  PROVE  DelegationNests' /\ \A k \in Level : k > i => pc[k] \in {"idle", "exited"}
<1>1. pc'[i] = l /\ \A j \in Level : j # i => pc'[j] = pc[j]
  BY DEF Goto, RunInv, TypeOK
<1>2. ASSUME NEW k \in Level, k > i PROVE pc[k] \in {"idle", "exited"}
  <2>1. i \in 1 .. (k - 1)
    BY <1>2, LevelFacts DEF Level
  <2> QED BY <2>1 DEF RunInv, DelegationNests
<1>3. ASSUME NEW k \in Level, pc'[k] \notin {"idle", "exited"}, NEW j \in 1 .. (k - 1)
      PROVE  pc'[j] = "drain"
  <2>1. k \in Nat /\ i \in Nat /\ j \in Nat /\ j \in Level /\ j < k
    BY LevelFacts
  <2>2. CASE k > i
    BY <1>1, <1>2, <1>3, <2>1, <2>2
  <2>3. CASE k = i
    BY <1>1, <2>1, <2>3 DEF RunInv, DelegationNests
  <2>4. CASE k < i
    BY <1>1, <1>3, <2>1, <2>4 DEF RunInv, DelegationNests
  <2> QED BY <2>1, <2>2, <2>3, <2>4
<1> QED BY <1>2, <1>3 DEF DelegationNests

\* The last event of a run, and the end of it.
LEMMA FinishKeeps ==
  ASSUME RunInv, NEW i \in Level, NEW e \in Outcome, Finish(i, e),
         Running(i), pc[i] # "drain",
         i = 1 /\ e = "error" => rows = << >>,
         i = 1 /\ e = "done" /\ convLive => rows = <<"user", "assistant">>
  PROVE  RunInv'
<1> USE DEF RunInv
<1>1. /\ Emit(i, e) /\ Goto(i, "return") /\ e \in SSEvent
      /\ UNCHANGED <<requestVars, heard, iter>>
  BY DEF Finish, SSEvent
<1>c. /\ parts' \in [Level -> 0 .. MaxParts] /\ calls' \in [Level -> 0 .. MaxParts]
      /\ parts'[i] = 0 /\ calls'[i] = 0
      /\ \A j \in Level : j # i => parts'[j] = parts[j] /\ calls'[j] = calls[j]
  BY RunAssumption DEF Finish, TypeOK
<1>2. /\ pc' \in [Level -> PC] /\ pc'[i] = "return"
      /\ \A j \in Level : j # i => pc'[j] = pc[j]
  BY <1>1 DEF Goto, TypeOK, PC
<1>3. pc[i] \notin {"idle", "return", "exited", "drain"}
  BY DEF Running
<1>4. TypeOK'
  BY <1>1, <1>2, <1>c, EmitFacts DEF TypeOK, requestVars
<1>5. /\ \A j \in Level, f \in SSEvent : j # i => (Told(j, f)' <=> Told(j, f))
      /\ \A f \in SSEvent : Told(i, f)' <=> Told(i, f) \/ f = e
  BY <1>1, EmitTells
<1>6. \A f \in Outcome : ~Told(i, f)
  BY DEF TellInv
<1>7. OneOutcomeLast'
  <2>1. \A j \in Level : j # i => ch'[j] = ch[j] /\ pc'[j] = pc[j] /\ heard'[j] = heard[j]
    BY <1>1, <1>2, EmitFacts
  <2>2. heard'[i] \notin Outcome
    BY <1>1, <1>6 DEF Told
  <2>3. ASSUME NEW k \in 1 .. Len(ch'[i]), ch'[i][k] \in Outcome PROVE k = Len(ch'[i])
    <3>1. /\ Len(ch[i]) \in Nat /\ Len(ch'[i]) = Len(ch[i]) + 1
          /\ \A m \in 1 .. Len(ch[i]) : ch'[i][m] = ch[i][m]
      BY <1>1, EmitFacts
    <3>2. k \notin 1 .. Len(ch[i])
      BY <1>6, <2>3, <3>1 DEF Told
    <3> QED BY <3>1, <3>2
  <2>4. ~Closed(i)'
    BY <1>2 DEF Closed
  <2>5. ASSUME NEW j \in Level, j # i
        PROVE  /\ \A k \in 1 .. Len(ch'[j]) : ch'[j][k] \in Outcome => k = Len(ch'[j])
               /\ heard'[j] \in Outcome => ch'[j] = << >> /\ ~Running(j)'
               /\ Closed(j)' => heard'[j] \in Outcome
    <3>1. /\ \A k \in 1 .. Len(ch[j]) : ch[j][k] \in Outcome => k = Len(ch[j])
          /\ heard[j] \in Outcome => ch[j] = << >> /\ ~Running(j)
          /\ Closed(j) => heard[j] \in Outcome
      BY DEF OneOutcomeLast
    <3>2. ch'[j] = ch[j] /\ heard'[j] = heard[j] /\ pc'[j] = pc[j]
      BY <2>1, <2>5
    <3> QED BY <3>1, <3>2 DEF Running, Closed
  <2> QED BY <2>2, <2>3, <2>4, <2>5 DEF OneOutcomeLast
<1>8. DelegationNests'
  BY <1>1, <1>3, NestsKeeps DEF PC
<1>9. DelegateAnswersOnlyDone'
  BY <1>1 DEF DelegateAnswersOnlyDone, requestVars
<1>10. TellInv'
  <2>1. ASSUME NEW j \in Level, j # i
        PROVE  /\ Running(j)' => \A f \in Outcome : ~Told(j, f)'
               /\ pc'[j] \in {"return", "exited"} => \E f \in Outcome : Told(j, f)'
               /\ pc'[j] = "idle" => ch'[j] = << >> /\ heard'[j] = "none"
    <3>1. ch'[j] = ch[j] /\ pc'[j] = pc[j] /\ heard'[j] = heard[j] /\ Outcome \subseteq SSEvent
      BY <1>1, <1>2, <2>1, EmitFacts DEF SSEvent
    <3>2. \A f \in Outcome : Told(j, f)' <=> Told(j, f)
      BY <1>5, <2>1, <3>1
    <3> QED BY <3>1, <3>2 DEF TellInv, Running
  <2>2. Told(i, e)' /\ ~Running(i)' /\ pc'[i] = "return"
    BY <1>1, <1>2, <1>5 DEF Running
  <2> QED BY <2>1, <2>2 DEF TellInv
<1>11. CountInv'
  <2>1. \A j \in Level : j # i => /\ pc'[j] = pc[j] /\ iter'[j] = iter[j]
                                  /\ parts'[j] = parts[j] /\ calls'[j] = calls[j]
    BY <1>1, <1>2, <1>c
  <2>2. pc'[i] = "return" /\ calls'[i] <= parts'[i]
    BY <1>2, <1>c
  <2> QED BY <2>1, <2>2 DEF CountInv, Running
<1>12. HandlerInv'
  BY <1>1, <1>2, <1>3, LevelFacts DEF HandlerInv, Running, requestVars
<1>13. RowsInv'
  <2>1. CASE i = 1
    <3>1. Told(1, "error")' => e = "error"
      BY <1>5, <1>6, <2>1 DEF SSEvent, Outcome
    <3>2. Told(1, "done")' => e = "done"
      BY <1>5, <1>6, <2>1 DEF SSEvent, Outcome
    <3> QED BY <1>1, <1>2, <2>1, <3>1, <3>2 DEF RowsInv, HasConversation, requestVars
  <2>2. CASE i # 1
    <3>1. /\ Told(1, "error")' <=> Told(1, "error")
          /\ Told(1, "done")' <=> Told(1, "done")
      BY <1>5, <2>2, LevelFacts DEF SSEvent, Outcome
    <3> QED BY <1>1, <1>2, <2>2, <3>1, LevelFacts DEF RowsInv, HasConversation, requestVars
  <2> QED BY <2>1, <2>2
<1> QED BY <1>4, <1>7, <1>8, <1>9, <1>10, <1>11, <1>12, <1>13

\* A step within a run that sends no outcome: it may send progress, store a
\* message, and change its counters.
LEMMA MoveKeeps ==
  ASSUME RunInv, NEW i \in Level, Running(i), pc[i] # "drain",
         NEW l \in PC \ {"idle", "drain", "return", "exited"}, Goto(i, l),
         \/ UNCHANGED ch
         \/ \E e \in Progress : Emit(i, e),
         UNCHANGED <<route, hpc, answer, ctxDone, convLive, heard>>,
         rows' \in Seq({"user", "assistant"}),
         iter' \in [Level -> 0 .. MaxIter], parts' \in [Level -> 0 .. MaxParts],
         calls' \in [Level -> 0 .. MaxParts],
         \A j \in Level : j # i => /\ iter'[j] = iter[j] /\ parts'[j] = parts[j]
                                   /\ calls'[j] = calls[j],
         l \notin {"lookup", "loop"} => iter'[i] < MaxIter,
         calls'[i] <= parts'[i],
         l \in {"saveUser", "saveReply"} => HasConversation(i),
         i # 1 => rows' = rows,
         i = 1 /\ l \notin {"saveReply", "done"} => rows' = << >>,
         i = 1 /\ l = "saveReply" /\ convLive => rows' = <<"user">>,
         i = 1 /\ l = "done" /\ convLive => rows' = <<"user", "assistant">>
  PROVE  RunInv'
<1> USE DEF RunInv
<1>1. /\ pc' \in [Level -> PC] /\ pc'[i] = l /\ Running(i)'
      /\ \A j \in Level : j # i => pc'[j] = pc[j]
  BY DEF Goto, TypeOK, Running
<1>2. pc[i] \notin {"idle", "return", "exited", "drain"}
  BY DEF Running
<1>3. /\ ch' \in [Level -> Seq(SSEvent)] /\ \A j \in Level : Len(ch'[j]) <= EventCap
      /\ \A j \in Level : j # i => ch'[j] = ch[j]
  <2>1. CASE UNCHANGED ch
    BY <2>1 DEF TypeOK
  <2>2. CASE \E e \in Progress : Emit(i, e)
    BY <2>2, EmitFacts DEF SSEvent
  <2> QED BY <2>1, <2>2
<1>4. \A j \in Level, f \in Outcome : Told(j, f)' <=> Told(j, f)
  <2>1. CASE UNCHANGED ch
    BY <2>1 DEF Told
  <2>2. CASE \E e \in Progress : Emit(i, e)
    <3>1. PICK e \in Progress : Emit(i, e)
      BY <2>2
    <3>2. e \in SSEvent /\ e \notin Outcome /\ Outcome \subseteq SSEvent
      BY DEF SSEvent, Outcome, Progress
    <3> QED BY <3>1, <3>2, EmitTells
  <2> QED BY <2>1, <2>2
<1>5. \A f \in Outcome : ~Told(i, f)
  BY DEF TellInv
<1>6. TypeOK'
  BY <1>1, <1>3 DEF TypeOK
<1>7. OneOutcomeLast'
  <2>1. heard'[i] \notin Outcome /\ \A k \in 1 .. Len(ch'[i]) : ch'[i][k] \notin Outcome
    BY <1>4, <1>5 DEF Told
  <2>2. ~Closed(i)'
    BY <1>1 DEF Closed
  <2>3. \A j \in Level : j # i => ch'[j] = ch[j] /\ pc'[j] = pc[j] /\ heard'[j] = heard[j]
    BY <1>1, <1>3
  <2>4. ASSUME NEW j \in Level, j # i
        PROVE  /\ \A k \in 1 .. Len(ch'[j]) : ch'[j][k] \in Outcome => k = Len(ch'[j])
               /\ heard'[j] \in Outcome => ch'[j] = << >> /\ ~Running(j)'
               /\ Closed(j)' => heard'[j] \in Outcome
    <3>1. /\ \A k \in 1 .. Len(ch[j]) : ch[j][k] \in Outcome => k = Len(ch[j])
          /\ heard[j] \in Outcome => ch[j] = << >> /\ ~Running(j)
          /\ Closed(j) => heard[j] \in Outcome
      BY DEF OneOutcomeLast
    <3>2. ch'[j] = ch[j] /\ heard'[j] = heard[j] /\ pc'[j] = pc[j]
      BY <2>3, <2>4
    <3> QED BY <3>1, <3>2 DEF Running, Closed
  <2>5. /\ \A k \in 1 .. Len(ch'[i]) : ch'[i][k] \in Outcome => k = Len(ch'[i])
        /\ heard'[i] \in Outcome => ch'[i] = << >> /\ ~Running(i)'
        /\ Closed(i)' => heard'[i] \in Outcome
    BY <2>1, <2>2
  <2> QED BY <2>4, <2>5 DEF OneOutcomeLast
<1>8. DelegationNests'
  BY <1>2, NestsKeeps
<1>9. DelegateAnswersOnlyDone'
  BY DEF DelegateAnswersOnlyDone
<1>10. TellInv'
  BY <1>1, <1>3, <1>4, <1>5 DEF TellInv, Running
<1>11. CountInv'
  BY <1>1 DEF CountInv, Running
<1>12. HandlerInv'
  BY <1>1, <1>2, LevelFacts DEF HandlerInv, Running
<1>13. RowsInv'
  <2>1. /\ Told(1, "error")' <=> Told(1, "error")
        /\ Told(1, "done")' <=> Told(1, "done")
    BY <1>4, LevelFacts DEF Outcome
  <2>2. CASE i = 1
    <3>1. ~Told(1, "error") /\ ~Told(1, "done")
      BY <1>5, <2>2 DEF Outcome
    <3> QED BY <1>1, <2>1, <2>2, <3>1 DEF RowsInv, HasConversation
  <2>3. CASE i # 1
    BY <1>1, <2>1, <2>3, LevelFacts DEF RowsInv, HasConversation
  <2> QED BY <2>2, <2>3
<1> QED BY <1>6, <1>7, <1>8, <1>9, <1>10, <1>11, <1>12, <1>13

\* A receive.  What the reader does on it is its own business.
LEMMA TakeKeeps ==
  ASSUME RunInv, NEW j \in Level, Take(j),
         UNCHANGED <<route, convLive, rows, pc, iter, parts, calls>>,
         hpc' \in HPC, answer' \in {"none", "ok", "failed"}, ctxDone' \in BOOLEAN,
         DelegateAnswersOnlyDone', HandlerInv'
  PROVE  RunInv'
<1> USE DEF RunInv
<1>1. \A i \in Level, e \in Outcome : Told(i, e)' <=> Told(i, e)
  BY TakeTells
<1>2. TypeOK'
  BY TakeFacts DEF TypeOK
<1>3. OneOutcomeLast'
  <2> DEFINE n == Len(ch[j])
  <2>1. /\ n \in Nat \ {0} /\ Len(ch'[j]) = n - 1 /\ heard'[j] = ch[j][1]
        /\ \A k \in 1 .. (n - 1) : ch'[j][k] = ch[j][k + 1]
        /\ ch' \in [Level -> Seq(SSEvent)]
    BY TakeFacts
  <2>2. \A k \in 1 .. n : ch[j][k] \in Outcome => k = n
    BY DEF OneOutcomeLast
  <2>3. ASSUME NEW k \in 1 .. Len(ch'[j]), ch'[j][k] \in Outcome PROVE k = Len(ch'[j])
    <3>1. k \in 1 .. (n - 1) /\ k + 1 \in 1 .. n
      BY <2>1
    <3> QED BY <2>1, <2>2, <2>3, <3>1
  <2>4. ASSUME heard'[j] \in Outcome PROVE ch'[j] = << >> /\ ~Running(j)'
    <3>1. 1 \in 1 .. n /\ ch[j][1] \in Outcome
      BY <2>1, <2>4
    <3>2. 1 = n
      BY <2>2, <3>1
    <3>3. ch'[j] = << >>
      <4>1. Len(ch'[j]) = 0
        BY <2>1, <3>2
      <4>2. ch'[j] \in Seq(SSEvent)
        BY <2>1
      <4> QED BY <4>1, <4>2, EmptySeq
    <3>4. ~Running(j)
      BY <3>1 DEF TellInv, Told
    <3> QED BY <3>3, <3>4 DEF Running
  <2>5. Closed(j)' => heard'[j] \in Outcome
    <3> SUFFICES ASSUME Closed(j)' PROVE heard'[j] \in Outcome
      OBVIOUS
    <3>1. pc[j] = "exited" /\ ch'[j] = << >>
      BY DEF Closed
    <3>2. \E e \in Outcome : Told(j, e)'
      BY <1>1, <3>1 DEF TellInv
    <3>3. Len(ch'[j]) = 0
      BY <3>1, EmptySeq
    <3> QED BY <3>2, <3>3 DEF Told
  <2>6. \A i \in Level : i # j => ch'[i] = ch[i] /\ heard'[i] = heard[i]
    BY TakeFacts
  <2> QED BY <2>3, <2>4, <2>5, <2>6 DEF OneOutcomeLast, Running, Closed
<1>4. DelegationNests'
  BY DEF DelegationNests
<1>5. TellInv'
  <2>1. pc[j] # "idle"
    BY DEF Take, TellInv
  <2> QED BY <1>1, <2>1, TakeFacts DEF TellInv, Running
<1>6. CountInv'
  BY DEF CountInv, Running
<1>7. RowsInv'
  BY <1>1, LevelFacts DEF RowsInv, Outcome, HasConversation
<1> QED BY <1>2, <1>3, <1>4, <1>5, <1>6, <1>7

\* The deferred close.
LEMMA ReturnKeeps ==
  ASSUME RunInv, NEW i \in Level, Return(i)
  PROVE  RunInv'
<1> USE DEF RunInv
<1>1. /\ pc[i] = "return" /\ pc' \in [Level -> PC] /\ pc'[i] = "exited"
      /\ \A j \in Level : j # i => pc'[j] = pc[j]
      /\ Goto(i, "exited") /\ UNCHANGED <<requestVars, ch, heard, iter, parts, calls>>
  BY DEF Return, Goto, TypeOK, PC
<1>2. TypeOK'
  BY <1>1 DEF TypeOK, requestVars
<1>3. \A j \in Level, e \in SSEvent : Told(j, e)' <=> Told(j, e)
  BY <1>1 DEF Told
<1>4. \E e \in Outcome : Told(i, e)
  BY <1>1 DEF TellInv
<1>5. OneOutcomeLast'
  <2>1. Closed(i)' => heard'[i] \in Outcome
    <3> SUFFICES ASSUME ch[i] = << >> PROVE heard[i] \in Outcome
      BY <1>1 DEF Closed
    <3>1. Len(ch[i]) = 0
      BY EmptySeq
    <3> QED BY <1>4, <3>1 DEF Told
  <2> QED BY <1>1, <2>1 DEF OneOutcomeLast, Running, Closed
<1>6. DelegationNests'
  BY <1>1, NestsKeeps DEF PC
<1>7. DelegateAnswersOnlyDone' /\ CountInv'
  BY <1>1 DEF DelegateAnswersOnlyDone, CountInv, Running, requestVars
<1>8. TellInv'
  BY <1>1, <1>3, <1>4 DEF TellInv, Running, SSEvent
<1>9. HandlerInv'
  BY <1>1, LevelFacts DEF HandlerInv, Running, requestVars
<1>10. RowsInv'
  <2>1. /\ Told(1, "error")' <=> Told(1, "error")
        /\ Told(1, "done")' <=> Told(1, "done")
    BY <1>3, LevelFacts DEF SSEvent, Outcome
  <2> QED BY <1>1, <2>1, LevelFacts DEF RowsInv, HasConversation, requestVars
<1> QED BY <1>2, <1>5, <1>6, <1>7, <1>8, <1>9, <1>10

\* The sub-run's channel is closed and empty: its parent goes on.
LEMMA DrainEndsKeeps ==
  ASSUME RunInv, NEW i \in Level, DrainEnds(i)
  PROVE  RunInv'
<1> USE DEF RunInv
<1>1. /\ pc[i] = "drain" /\ pc[i + 1] = "exited"
      /\ pc' \in [Level -> PC] /\ pc'[i] = "dispatch"
      /\ \A j \in Level : j # i => pc'[j] = pc[j]
      /\ UNCHANGED <<requestVars, ch, heard, iter, parts>>
  BY DEF DrainEnds, Goto, TypeOK, PC, Closed
<1>2. /\ i \in Nat /\ i + 1 \in Level /\ MaxParts \in Nat
      /\ calls[i] \in 0 .. MaxParts /\ calls[i] > 0
  BY <1>1, LevelFacts, RunAssumption DEF CountInv, Level, TypeOK
<1>3. /\ calls' \in [Level -> 0 .. MaxParts] /\ calls'[i] = calls[i] - 1
      /\ \A j \in Level : j # i => calls'[j] = calls[j]
  <2>1. calls' = [calls EXCEPT ![i] = calls[i] - 1] /\ calls \in [Level -> 0 .. MaxParts]
    BY DEF DrainEnds, TypeOK
  <2>2. calls[i] - 1 \in 0 .. MaxParts
    BY <1>2
  <2> QED BY <2>1, <2>2
<1>4. TypeOK'
  BY <1>1, <1>3 DEF TypeOK, requestVars
<1>5. \A j \in Level, e \in SSEvent : Told(j, e)' <=> Told(j, e)
  BY <1>1 DEF Told
<1>6. OneOutcomeLast'
  BY <1>1 DEF OneOutcomeLast, Running, Closed
<1>7. DelegationNests'
  <2>1. \A k \in Level : k > i => pc[k] \in {"idle", "exited"}
    <3> SUFFICES ASSUME NEW k \in Level, k > i PROVE pc[k] \in {"idle", "exited"}
      OBVIOUS
    <3>1. CASE k = i + 1
      BY <1>1, <3>1
    <3>2. CASE k # i + 1
      <4>1. i + 1 \in 1 .. (k - 1)
        BY <1>2, <3>2, LevelFacts
      <4> QED BY <1>1, <4>1 DEF DelegationNests
    <3> QED BY <3>1, <3>2
  <2> SUFFICES ASSUME NEW k \in Level, pc'[k] \notin {"idle", "exited"}, NEW j \in 1 .. (k - 1)
               PROVE  pc'[j] = "drain"
    BY DEF DelegationNests
  <2>2. k \in Nat /\ j \in Nat /\ j \in Level /\ j < k
    BY LevelFacts
  <2>3. k <= i
    BY <1>1, <1>2, <2>1, <2>2
  <2>4. pc[k] \notin {"idle", "exited"}
    BY <1>1
  <2>5. j # i
    BY <1>2, <2>2, <2>3
  <2> QED BY <1>1, <2>2, <2>4, <2>5 DEF DelegationNests
<1>8. DelegateAnswersOnlyDone'
  BY <1>1 DEF DelegateAnswersOnlyDone, requestVars
<1>9. CountInv'
  <2>1. iter[i] < MaxIter /\ calls[i] <= parts[i]
    BY <1>1 DEF CountInv, Running
  <2>2. calls'[i] <= parts[i]
    <3>1. parts[i] \in 0 .. MaxParts
      BY DEF TypeOK
    <3> QED BY <1>2, <1>3, <2>1, <3>1
  <2> QED BY <1>1, <1>3, <2>1, <2>2 DEF CountInv, Running
<1>10. TellInv' /\ HandlerInv'
  BY <1>1, <1>5, LevelFacts DEF TellInv, HandlerInv, Running, SSEvent, requestVars
<1>11. RowsInv'
  <2>1. /\ Told(1, "error")' <=> Told(1, "error")
        /\ Told(1, "done")' <=> Told(1, "done")
    BY <1>5, LevelFacts DEF SSEvent, Outcome
  <2> QED BY <1>1, <2>1, LevelFacts DEF RowsInv, HasConversation, requestVars
<1> QED BY <1>4, <1>6, <1>7, <1>8, <1>9, <1>10, <1>11

\* A level is started: by its parent, or level 1 by the handler.
LEMMA StartFacts ==
  ASSUME TypeOK, NEW j \in Level, NEW pcs \in [Level -> PC],
         NEW chs \in [Level -> Seq(SSEvent)], \A k \in Level : Len(chs[k]) <= EventCap,
         StartLevel(j, pcs, chs)
  PROVE  /\ pc' \in [Level -> PC] /\ pc'[j] = "lookup"
         /\ ch' \in [Level -> Seq(SSEvent)] /\ ch'[j] = << >>
         /\ heard' \in [Level -> SSEvent \cup {"none"}] /\ heard'[j] = "none"
         /\ iter' \in [Level -> 0 .. MaxIter]
         /\ \A k \in Level : Len(ch'[k]) <= EventCap
         /\ \A k \in Level : k # j => /\ pc'[k] = pcs[k] /\ ch'[k] = chs[k]
                                      /\ heard'[k] = heard[k] /\ iter'[k] = iter[k]
         /\ \A e \in SSEvent : ~Told(j, e)'
<1>1. << >> \in Seq(SSEvent) /\ Len(<< >>) = 0 /\ EventCap \in Nat /\ 0 \in 0 .. MaxIter
  BY EmptySeq, RunAssumption
<1>2. /\ pc' \in [Level -> PC] /\ pc'[j] = "lookup"
      /\ \A k \in Level : k # j => pc'[k] = pcs[k]
  BY DEF StartLevel, PC
<1>3. /\ ch' \in [Level -> Seq(SSEvent)] /\ ch'[j] = << >>
      /\ \A k \in Level : k # j => ch'[k] = chs[k]
  BY <1>1 DEF StartLevel
<1>4. ASSUME NEW k \in Level PROVE Len(ch'[k]) <= EventCap
  <2>1. CASE k = j
    <3>1. Len(ch'[k]) = 0
      BY <1>1, <1>3, <2>1
    <3> QED BY <1>1, <3>1
  <2>2. CASE k # j
    BY <1>3, <2>2
  <2> QED BY <2>1, <2>2
<1>5. /\ heard' \in [Level -> SSEvent \cup {"none"}] /\ heard'[j] = "none"
      /\ \A k \in Level : k # j => heard'[k] = heard[k]
  BY DEF StartLevel, TypeOK
<1>6. /\ iter' \in [Level -> 0 .. MaxIter]
      /\ \A k \in Level : k # j => iter'[k] = iter[k]
  BY <1>1 DEF StartLevel, TypeOK
<1>7. \A e \in SSEvent : ~Told(j, e)'
  BY <1>1, <1>3, <1>5 DEF Told, SSEvent, Progress, Outcome
<1> QED BY <1>2, <1>3, <1>4, <1>5, <1>6, <1>7

\* A sub-run is started: everything above waits, everything below has ended.
LEMMA DelegateKeeps ==
  ASSUME RunInv, NEW i \in Level, DispatchDelegate(i)
  PROVE  RunInv'
<1> USE DEF RunInv
<1> DEFINE pcs == [pc EXCEPT ![i] = "drain"]
           chs == [ch EXCEPT ![i] = Append(@, "status")]
<1>1. /\ pc[i] = "dispatch" /\ calls[i] > 0 /\ i \in Nat /\ i < MaxDepth
      /\ i + 1 \in Level /\ i + 1 # 1 /\ i + 1 # i
      /\ UNCHANGED <<requestVars, parts, calls>>
  BY LevelFacts, RunAssumption DEF DispatchDelegate, Level
<1>2. StartLevel(i + 1, pcs, chs)
  BY DEF DispatchDelegate
<1>3. /\ pcs \in [Level -> PC] /\ pcs[i] = "drain"
      /\ \A k \in Level : k # i => pcs[k] = pc[k]
  BY DEF TypeOK, PC
<1>4. /\ ch[i] \in Seq(SSEvent) /\ "status" \in SSEvent /\ Len(ch[i]) < EventCap
      /\ Len(ch[i]) \in Nat /\ EventCap \in Nat
  BY LenProperties, RunAssumption DEF TypeOK, SSEvent, Progress, DispatchDelegate
<1>5. /\ Append(ch[i], "status") \in Seq(SSEvent)
      /\ Len(Append(ch[i], "status")) = Len(ch[i]) + 1
      /\ \A k \in 1 .. Len(ch[i]) : Append(ch[i], "status")[k] = ch[i][k]
      /\ Append(ch[i], "status")[Len(ch[i]) + 1] = "status"
  BY <1>4, AppendProperties
<1>6. /\ chs \in [Level -> Seq(SSEvent)] /\ chs[i] = Append(ch[i], "status")
      /\ \A k \in Level : k # i => chs[k] = ch[k]
  BY <1>5 DEF TypeOK
<1>7. \A k \in Level : Len(chs[k]) <= EventCap
  BY <1>4, <1>5, <1>6 DEF TypeOK
<1> HIDE DEF pcs, chs
<1>80. /\ pc' \in [Level -> PC] /\ pc'[i + 1] = "lookup"
       /\ ch' \in [Level -> Seq(SSEvent)] /\ ch'[i + 1] = << >>
       /\ heard' \in [Level -> SSEvent \cup {"none"}] /\ heard'[i + 1] = "none"
       /\ iter' \in [Level -> 0 .. MaxIter]
       /\ \A k \in Level : Len(ch'[k]) <= EventCap
       /\ \A k \in Level : k # i + 1 => /\ pc'[k] = pcs[k] /\ ch'[k] = chs[k]
                                       /\ heard'[k] = heard[k] /\ iter'[k] = iter[k]
       /\ \A e \in SSEvent : ~Told(i + 1, e)'
  <2>1. PICK j \in Level : j = i + 1
    BY <1>1
  <2>2. TypeOK /\ StartLevel(j, pcs, chs)
    BY <1>2, <2>1
  <2>3. /\ pc' \in [Level -> PC] /\ pc'[j] = "lookup"
        /\ ch' \in [Level -> Seq(SSEvent)] /\ ch'[j] = << >>
        /\ heard' \in [Level -> SSEvent \cup {"none"}] /\ heard'[j] = "none"
        /\ iter' \in [Level -> 0 .. MaxIter]
        /\ \A k \in Level : Len(ch'[k]) <= EventCap
        /\ \A k \in Level : k # j => /\ pc'[k] = pcs[k] /\ ch'[k] = chs[k]
                                     /\ heard'[k] = heard[k] /\ iter'[k] = iter[k]
        /\ \A e \in SSEvent : ~Told(j, e)'
    BY <1>3, <1>6, <1>7, <2>2, StartFacts
  <2> QED BY <2>1, <2>3
<1>8. /\ pc' \in [Level -> PC] /\ pc'[i + 1] = "lookup" /\ pc'[i] = "drain"
      /\ \A k \in Level : k # i /\ k # i + 1 => pc'[k] = pc[k]
      /\ ch' \in [Level -> Seq(SSEvent)] /\ ch'[i + 1] = << >>
      /\ ch'[i] = Append(ch[i], "status")
      /\ \A k \in Level : k # i /\ k # i + 1 => ch'[k] = ch[k]
      /\ heard' \in [Level -> SSEvent \cup {"none"}] /\ heard'[i + 1] = "none"
      /\ iter' \in [Level -> 0 .. MaxIter]
      /\ \A k \in Level : Len(ch'[k]) <= EventCap
      /\ \A k \in Level : k # i + 1 => heard'[k] = heard[k] /\ iter'[k] = iter[k]
      /\ \A e \in SSEvent : ~Told(i + 1, e)'
  BY <1>1, <1>3, <1>6, <1>80
<1>9. TypeOK'
  BY <1>1, <1>8 DEF TypeOK, requestVars
<1>10. \A e \in Outcome : ~Told(i, e)
  BY <1>1 DEF TellInv, Running
<1>11. \A k \in 1 .. Len(ch'[i]) : ch'[i][k] \notin Outcome
  <2>1. \A k \in 1 .. Len(ch'[i]) : k \in 1 .. Len(ch[i]) \/ k = Len(ch[i]) + 1
    BY <1>4, <1>5, <1>8
  <2>2. \A k \in 1 .. Len(ch[i]) : ch[i][k] \notin Outcome
    BY <1>10 DEF Told
  <2> QED BY <1>5, <1>8, <2>1, <2>2 DEF Outcome
<1>12. heard'[i] \notin Outcome
  BY <1>1, <1>8, <1>10 DEF Told
<1>13. \A e \in Outcome : ~Told(i, e)'
  BY <1>11, <1>12 DEF Told
<1>14. \A k \in Level, e \in SSEvent :
         k # i /\ k # i + 1 => (Told(k, e)' <=> Told(k, e))
  BY <1>8 DEF Told
<1>15. OneOutcomeLast'
  <2>1. Len(ch'[i + 1]) = 0 /\ heard'[i + 1] \notin Outcome /\ ~Closed(i + 1)' /\ ~Closed(i)'
    BY <1>8, EmptySeq DEF Outcome, Closed
  <2>2. \A k \in 1 .. Len(ch'[i + 1]) : FALSE
    BY <2>1
  <2>3. ASSUME NEW k \in Level, k # i, k # i + 1
        PROVE  /\ \A m \in 1 .. Len(ch'[k]) : ch'[k][m] \in Outcome => m = Len(ch'[k])
               /\ heard'[k] \in Outcome => ch'[k] = << >> /\ ~Running(k)'
               /\ Closed(k)' => heard'[k] \in Outcome
    <3>1. pc'[k] = pc[k] /\ ch'[k] = ch[k] /\ heard'[k] = heard[k]
      BY <1>8, <2>3
    <3> QED BY <3>1 DEF OneOutcomeLast, Running, Closed
  <2> QED BY <1>11, <1>12, <2>1, <2>2, <2>3 DEF OneOutcomeLast
<1>16. DelegationNests'
  <2>1. \A k \in Level : k > i => pc[k] \in {"idle", "exited"}
    <3> SUFFICES ASSUME NEW k \in Level, k > i PROVE pc[k] \in {"idle", "exited"}
      OBVIOUS
    <3>1. i \in 1 .. (k - 1)
      BY <1>1, LevelFacts DEF Level
    <3> QED BY <1>1, <3>1 DEF DelegationNests
  <2> SUFFICES ASSUME NEW k \in Level, pc'[k] \notin {"idle", "exited"}, NEW j \in 1 .. (k - 1)
               PROVE  pc'[j] = "drain"
    BY DEF DelegationNests
  <2>2. k \in Nat /\ j \in Nat /\ j \in Level /\ j < k
    BY LevelFacts
  <2>3. k <= i + 1
    <3>1. ASSUME k > i + 1 PROVE FALSE
      <4>1. k # i /\ k # i + 1 /\ k > i
        BY <1>1, <2>2, <3>1
      <4> QED BY <1>8, <2>1, <4>1
    <3> QED BY <1>1, <2>2, <3>1
  <2>4. CASE j = i
    BY <1>8, <2>4
  <2>5. CASE j < i
    <3>1. j \in 1 .. (i - 1) /\ j # i + 1 /\ j # i
      BY <1>1, <2>2, <2>5
    <3>2. pc'[j] = pc[j]
      BY <1>8, <2>2, <3>1
    <3>3. pc[i] \notin {"idle", "exited"}
      BY <1>1
    <3>4. pc[j] = "drain"
      BY <3>1, <3>3 DEF DelegationNests
    <3> QED BY <3>2, <3>4
  <2>6. j \in Nat /\ i \in Nat /\ (j = i \/ j < i)
    BY <1>1, <2>2, <2>3
  <2> QED BY <2>4, <2>5, <2>6
<1>17. TellInv'
  <2>1. ASSUME NEW k \in Level, k # i, k # i + 1
        PROVE  /\ Running(k)' => \A e \in Outcome : ~Told(k, e)'
               /\ pc'[k] \in {"return", "exited"} => \E e \in Outcome : Told(k, e)'
               /\ pc'[k] = "idle" => ch'[k] = << >> /\ heard'[k] = "none"
    BY <1>8, <1>14, <2>1 DEF TellInv, Running, SSEvent
  <2> QED BY <1>8, <1>13, <2>1 DEF TellInv, SSEvent
<1>18. CountInv'
  BY <1>1, <1>8 DEF CountInv, Running
<1>19. 1 \in Level /\ (1 = i \/ (1 # i /\ 1 # i + 1))
  BY <1>1, LevelFacts
<1>20. DelegateAnswersOnlyDone' /\ HandlerInv'
  BY <1>1, <1>8, <1>19 DEF DelegateAnswersOnlyDone, HandlerInv, Running, requestVars
<1>21. RowsInv'
  <2>1. \A e \in Outcome : Told(1, e)' <=> Told(1, e)
    BY <1>10, <1>13, <1>14, <1>19 DEF SSEvent
  <2>2. pc'[1] \notin {"saveReply", "done", "return", "exited"} => rows = << >>
    BY <1>1, <1>8, <1>19 DEF RowsInv
  <2>3. \A k \in Level : pc'[k] \in {"saveUser", "saveReply"} => HasConversation(k)
    BY <1>8 DEF RowsInv
  <2> QED BY <1>1, <1>8, <1>19, <2>1, <2>2, <2>3
          DEF RowsInv, HasConversation, requestVars, Outcome
<1> QED BY <1>9, <1>15, <1>16, <1>17, <1>18, <1>20, <1>21

\* The messages a request adds.
LEMMA AddFacts ==
  ASSUME TypeOK, NEW role \in {"user", "assistant"}, AddMessage(role)
  PROVE  rows' \in Seq({"user", "assistant"})
<1>1. rows \in Seq({"user", "assistant"})
  BY DEF TypeOK
<1>2. Append(rows, role) \in Seq({"user", "assistant"})
  BY <1>1, AppendProperties
<1> QED BY <1>1, <1>2 DEF AddMessage

LEMMA PairIsAppend ==
  ASSUME NEW S, NEW x \in S, NEW y \in S
  PROVE  Append(<<x>>, y) = <<x, y>>
<1>1. /\ <<x>> \in Seq(S) /\ Len(<<x>>) = 1 /\ <<x>>[1] = x
      /\ <<x, y>> \in Seq(S) /\ Len(<<x, y>>) = 2
      /\ <<x, y>>[1] = x /\ <<x, y>>[2] = y
  OBVIOUS
<1>2. PICK a \in Seq(S), b \in Seq(S) :
        /\ a = <<x>> /\ Len(a) = 1 /\ a[1] = x
        /\ b = <<x, y>> /\ Len(b) = 2 /\ b[1] = x /\ b[2] = y
  BY <1>1
<1>3. PICK c \in Seq(S) : c = Append(a, y) /\ Len(c) = 2 /\ c[1] = x /\ c[2] = y
  <2>1. /\ Append(a, y) \in Seq(S) /\ Len(Append(a, y)) = 2
        /\ Append(a, y)[1] = a[1] /\ Append(a, y)[2] = y
    BY <1>2, AppendProperties
  <2> QED BY <1>2, <2>1
<1>4. \A k \in 1 .. Len(c) : c[k] = b[k]
  BY <1>2, <1>3
<1>5. c = b
  BY <1>2, <1>3, <1>4, SeqEqual
<1> QED BY <1>2, <1>3, <1>5

(***************************************************************************)
(* The steps of a level.                                                   *)
(***************************************************************************)
LEMMA LevelStepKeeps ==
  ASSUME RunInv, NEW i \in Level, LevelStep(i)
  PROVE  RunInv'
<1> USE DEF RunInv
<1>0. /\ iter[i] \in 0 .. MaxIter /\ parts[i] \in 0 .. MaxParts /\ calls[i] \in 0 .. MaxParts
      /\ MaxIter \in Nat /\ MaxParts \in Nat /\ calls[i] <= parts[i] /\ i \in Nat
  BY RunAssumption, LevelFacts DEF TypeOK, CountInv
<1>1. CASE Lookup(i)
  <2>1. Running(i) /\ pc[i] # "drain" /\ (i = 1 => rows = << >>)
    BY <1>1 DEF Lookup, Running, RowsInv
  <2>2. CASE Finish(i, "error")
    BY <2>1, <2>2, FinishKeeps DEF Outcome
  <2>3. CASE Goto(i, "loop") /\ UNCHANGED <<requestVars, ch, heard, iter, parts, calls>>
    BY <1>0, <2>1, <2>3, MoveKeeps DEF PC, requestVars, TypeOK
  <2> QED BY <1>1, <2>2, <2>3 DEF Lookup
<1>2. CASE LoopHead(i)
  <2>1. Running(i) /\ pc[i] # "drain" /\ (i = 1 => rows = << >>)
    BY <1>2 DEF LoopHead, Running, RowsInv
  <2>2. CASE Finish(i, "error")
    BY <2>1, <2>2, FinishKeeps DEF Outcome
  <2>3. CASE /\ iter[i] # MaxIter /\ Goto(i, "call")
             /\ UNCHANGED <<requestVars, ch, heard, iter, parts, calls>>
    <3>1. iter[i] < MaxIter
      BY <1>0, <2>3
    <3> QED BY <1>0, <2>1, <2>3, <3>1, MoveKeeps DEF PC, requestVars, TypeOK
  <2> QED BY <1>2, <2>2, <2>3 DEF LoopHead
<1>3. CASE CallModel(i)
  <2>1. Running(i) /\ pc[i] # "drain" /\ (i = 1 => rows = << >>) /\ iter[i] < MaxIter
    BY <1>3 DEF CallModel, Running, RowsInv, CountInv
  <2>2. CASE Finish(i, "error")
    BY <2>1, <2>2, FinishKeeps DEF Outcome
  <2>3. CASE /\ Goto(i, "range")
             /\ parts' = [parts EXCEPT ![i] = 0] /\ calls' = [calls EXCEPT ![i] = 0]
             /\ UNCHANGED <<requestVars, ch, heard, iter>>
    <3>1. /\ parts' \in [Level -> 0 .. MaxParts] /\ calls' \in [Level -> 0 .. MaxParts]
          /\ parts'[i] = 0 /\ calls'[i] = 0
          /\ \A j \in Level : j # i => parts'[j] = parts[j] /\ calls'[j] = calls[j]
      BY <1>0, <2>3 DEF TypeOK
    <3>2. calls'[i] <= parts'[i]
      BY <3>1
    <3>3. /\ UNCHANGED <<route, hpc, answer, ctxDone, convLive, heard, ch, rows, iter>>
          /\ iter \in [Level -> 0 .. MaxIter] /\ rows \in Seq({"user", "assistant"})
      BY <2>3 DEF requestVars, TypeOK
    <3> QED BY <2>1, <2>3, <3>1, <3>2, <3>3, MoveKeeps DEF PC
  <2> QED BY <1>3, <2>2, <2>3 DEF CallModel
<1>4. CASE RangePart(i)
  <2>1. /\ Running(i) /\ pc[i] = "range" /\ (i = 1 => rows = << >>) /\ iter[i] < MaxIter
        /\ parts[i] < MaxParts /\ UNCHANGED <<requestVars, pc, heard, iter>>
    BY <1>4 DEF RangePart, Running, RowsInv, CountInv
  <2>2. Goto(i, "range")
    BY <2>1 DEF Goto, TypeOK
  <2>3. \E e \in Progress : Emit(i, e)
    BY <1>4 DEF RangePart, Progress
  <2>4. /\ parts' \in [Level -> 0 .. MaxParts] /\ parts'[i] = parts[i] + 1
        /\ \A j \in Level : j # i => parts'[j] = parts[j]
    BY <1>0, <1>4, <2>1 DEF RangePart, TypeOK
  <2>5. \/ calls' = calls
        \/ calls' = [calls EXCEPT ![i] = calls[i] + 1]
    BY <1>4 DEF RangePart
  <2>6. /\ calls' \in [Level -> 0 .. MaxParts] /\ calls'[i] <= calls[i] + 1
        /\ \A j \in Level : j # i => calls'[j] = calls[j]
    <3>1. calls[i] + 1 \in 0 .. MaxParts
      BY <1>0, <2>1
    <3>2. calls \in [Level -> 0 .. MaxParts] /\ calls[i] \in Nat
      BY <1>0 DEF TypeOK
    <3>3. CASE calls' = calls
      BY <3>2, <3>3
    <3>4. CASE calls' = [calls EXCEPT ![i] = calls[i] + 1]
      BY <3>1, <3>2, <3>4
    <3> QED BY <2>5, <3>3, <3>4
  <2>7. calls'[i] \in Nat /\ calls'[i] <= parts'[i]
    BY <1>0, <2>4, <2>6
  <2>8. /\ UNCHANGED <<route, hpc, answer, ctxDone, convLive, rows, heard, iter>>
        /\ iter \in [Level -> 0 .. MaxIter] /\ rows \in Seq({"user", "assistant"})
    BY <2>1 DEF requestVars, TypeOK
  <2>9. pc[i] # "drain" /\ "range" \in PC \ {"idle", "drain", "return", "exited"}
    BY <2>1 DEF PC
  <2> QED BY <2>1, <2>2, <2>3, <2>4, <2>6, <2>7, <2>8, <2>9, MoveKeeps
<1>5. CASE RangeError(i)
  <2>1. Running(i) /\ pc[i] # "drain" /\ (i = 1 => rows = << >>)
    BY <1>5 DEF RangeError, Running, RowsInv
  <2> QED BY <1>5, <2>1, FinishKeeps DEF RangeError, Outcome
<1>6. CASE RangeEnd(i)
  <2>1. Running(i) /\ pc[i] # "drain" /\ (i = 1 => rows = << >>) /\ iter[i] < MaxIter
    BY <1>6 DEF RangeEnd, Running, RowsInv, CountInv
  <2>2. UNCHANGED <<requestVars, ch, heard, iter, parts, calls>>
    BY <1>6 DEF RangeEnd
  <2>3. CASE calls[i] > 0
    <3>1. Goto(i, "dispatch")
      BY <1>6, <2>3 DEF RangeEnd
    <3> QED BY <1>0, <2>1, <2>2, <3>1, MoveKeeps DEF PC, requestVars, TypeOK
  <2>4. CASE ~(calls[i] > 0) /\ HasConversation(i)
    <3>1. Goto(i, "saveUser")
      BY <1>6, <2>4 DEF RangeEnd
    <3> QED BY <1>0, <2>1, <2>2, <2>4, <3>1, MoveKeeps DEF PC, requestVars, TypeOK
  <2>5. CASE ~(calls[i] > 0) /\ ~HasConversation(i)
    <3>1. Goto(i, "done")
      BY <1>6, <2>5 DEF RangeEnd
    <3>2. i = 1 => ~convLive
      BY <2>5 DEF HasConversation, HandlerInv, TypeOK
    <3> QED BY <1>0, <2>1, <2>2, <3>1, <3>2, MoveKeeps DEF PC, requestVars, TypeOK
  <2> QED BY <2>3, <2>4, <2>5
<1>7. CASE DispatchTool(i)
  <2>1. /\ Running(i) /\ pc[i] = "dispatch" /\ (i = 1 => rows = << >>) /\ iter[i] < MaxIter
        /\ calls[i] > 0 /\ UNCHANGED <<requestVars, pc, ch, heard, iter, parts>>
    BY <1>7 DEF DispatchTool, Running, RowsInv, CountInv
  <2>2. Goto(i, "dispatch")
    BY <2>1 DEF Goto, TypeOK
  <2>3. /\ calls' \in [Level -> 0 .. MaxParts] /\ calls'[i] = calls[i] - 1
        /\ \A j \in Level : j # i => calls'[j] = calls[j]
    BY <1>0, <1>7, <2>1 DEF DispatchTool, TypeOK
  <2>4. calls'[i] <= parts[i]
    BY <1>0, <2>3
  <2> QED BY <2>1, <2>2, <2>3, <2>4, MoveKeeps DEF PC, requestVars, TypeOK
<1>8. CASE DispatchDelegate(i)
  PROOF BY <1>8, DelegateKeeps
<1>9. CASE DispatchEnd(i)
  <2>1. /\ Running(i) /\ pc[i] # "drain" /\ (i = 1 => rows = << >>) /\ iter[i] < MaxIter
        /\ Goto(i, "loop") /\ UNCHANGED <<requestVars, ch, heard, calls>> /\ calls[i] = 0
    BY <1>9 DEF DispatchEnd, Running, RowsInv, CountInv
  <2>2. /\ iter' \in [Level -> 0 .. MaxIter]
        /\ \A j \in Level : j # i => iter'[j] = iter[j]
    BY <1>0, <1>9, <2>1 DEF DispatchEnd, TypeOK
  <2>3. /\ parts' \in [Level -> 0 .. MaxParts] /\ parts'[i] = 0
        /\ \A j \in Level : j # i => parts'[j] = parts[j]
    BY <1>0, <1>9 DEF DispatchEnd, TypeOK
  <2>4. calls'[i] <= parts'[i]
    BY <2>1, <2>3
  <2> QED BY <2>1, <2>2, <2>3, <2>4, MoveKeeps DEF PC, requestVars, TypeOK
<1>10. CASE DrainTakes(i)
  <2>1. pc[i] = "drain" /\ i + 1 \in Level /\ i + 1 # 1 /\ Take(i + 1)
    BY <1>0, <1>10, RunAssumption DEF DrainTakes, CountInv, Level
  <2>2. UNCHANGED <<requestVars, pc, iter, parts, calls>>
    BY <1>10 DEF DrainTakes
  <2>3. heard'[1] = heard[1]
    BY <2>1, TakeFacts, LevelFacts
  <2>4. DelegateAnswersOnlyDone' /\ HandlerInv'
    BY <2>2, <2>3 DEF requestVars, DelegateAnswersOnlyDone, HandlerInv, Running
  <2>5. hpc' \in HPC /\ answer' \in {"none", "ok", "failed"} /\ ctxDone' \in BOOLEAN
    BY <2>2 DEF requestVars, TypeOK
  <2> QED BY <2>1, <2>2, <2>4, <2>5, TakeKeeps DEF requestVars
<1>11. CASE DrainEnds(i)
  PROOF BY <1>11, DrainEndsKeeps
<1>12. CASE SaveUser(i)
  <2>1. /\ pc[i] = "saveUser" /\ Running(i) /\ HasConversation(i) /\ i = 1 /\ rows = << >>
        /\ iter[i] < MaxIter
        /\ Goto(i, "saveReply") /\ AddMessage("user")
        /\ UNCHANGED <<route, hpc, answer, ctxDone, convLive, ch, heard, iter, parts, calls>>
    BY <1>12 DEF SaveUser, Running, RowsInv, HasConversation, CountInv
  <2>2. convLive => rows' = <<"user">>
    BY <2>1 DEF AddMessage
  <2>3. rows' \in Seq({"user", "assistant"})
    BY <2>1, AddFacts
  <2> QED BY <1>0, <2>1, <2>2, <2>3, MoveKeeps DEF PC, TypeOK
<1>13. CASE SaveReply(i)
  <2>1. /\ pc[i] = "saveReply" /\ Running(i) /\ HasConversation(i) /\ i = 1
        /\ (convLive => rows = <<"user">>)
        /\ iter[i] < MaxIter
        /\ Goto(i, "done") /\ AddMessage("assistant")
        /\ UNCHANGED <<route, hpc, answer, ctxDone, convLive, ch, heard, iter, parts, calls>>
    BY <1>13 DEF SaveReply, Running, RowsInv, HasConversation, CountInv
  <2>2. convLive => rows' = <<"user", "assistant">>
    <3>1. convLive => rows' = Append(<<"user">>, "assistant")
      BY <2>1 DEF AddMessage
    <3> QED BY <3>1, PairIsAppend
  <2>3. rows' \in Seq({"user", "assistant"})
    BY <2>1, AddFacts
  <2> QED BY <1>0, <2>1, <2>2, <2>3, MoveKeeps DEF PC, TypeOK
<1>14. CASE Done(i)
  <2>1. /\ Running(i) /\ pc[i] # "drain"
        /\ (i = 1 /\ convLive => rows = <<"user", "assistant">>)
    BY <1>14 DEF Done, Running, RowsInv
  <2> QED BY <1>14, <2>1, FinishKeeps DEF Done, Outcome
<1>15. CASE Return(i)
  PROOF BY <1>15, ReturnKeeps
<1> QED BY <1>1, <1>2, <1>3, <1>4, <1>5, <1>6, <1>7, <1>8, <1>9, <1>10,
           <1>11, <1>12, <1>13, <1>14, <1>15 DEF LevelStep

(***************************************************************************)
(* The steps of the handler and of the environment.                        *)
(***************************************************************************)
\* Before the run every level is idle, so starting level 1 disturbs nothing.
LEMMA StartRunKeeps ==
  ASSUME RunInv, hpc \in {"check", "select"}, StartRun, UNCHANGED convLive
  PROVE  RunInv'
<1> USE DEF RunInv
<1>1. /\ 1 \in Level /\ hpc' = "read"
      /\ UNCHANGED <<route, answer, ctxDone, convLive, rows, parts, calls>>
  BY LevelFacts DEF StartRun
<1>2. StartLevel(1, pc, ch) /\ TypeOK
  BY DEF StartRun
<1>3. /\ pc \in [Level -> PC] /\ ch \in [Level -> Seq(SSEvent)]
      /\ \A k \in Level : Len(ch[k]) <= EventCap
  BY DEF TypeOK
<1>4. /\ pc' \in [Level -> PC] /\ pc'[1] = "lookup"
      /\ ch' \in [Level -> Seq(SSEvent)] /\ ch'[1] = << >>
      /\ heard' \in [Level -> SSEvent \cup {"none"}] /\ heard'[1] = "none"
      /\ iter' \in [Level -> 0 .. MaxIter]
      /\ \A k \in Level : Len(ch'[k]) <= EventCap
      /\ \A k \in Level : k # 1 => /\ pc'[k] = pc[k] /\ ch'[k] = ch[k]
                                   /\ heard'[k] = heard[k] /\ iter'[k] = iter[k]
      /\ \A e \in SSEvent : ~Told(1, e)'
  BY <1>1, <1>2, <1>3, StartFacts
<1>5. \A k \in Level : pc[k] = "idle" /\ ch[k] = << >> /\ heard[k] = "none"
  BY DEF HandlerInv, TellInv
<1>6. \A k \in Level : /\ k # 1 => pc'[k] = "idle"
                       /\ ch'[k] = << >> /\ heard'[k] = "none"
  BY <1>4, <1>5
<1>7. TypeOK'
  BY <1>1, <1>4 DEF TypeOK, HPC
<1>8. OneOutcomeLast'
  <2>1. \A k \in Level : Len(ch'[k]) = 0 /\ heard'[k] \notin Outcome /\ ~Closed(k)'
    BY <1>4, <1>6, EmptySeq DEF Outcome, Closed
  <2>2. \A k \in Level : \A m \in 1 .. Len(ch'[k]) : FALSE
    BY <2>1
  <2> QED BY <2>1, <2>2 DEF OneOutcomeLast
<1>9. DelegationNests'
  <2> SUFFICES ASSUME NEW i \in Level, pc'[i] \notin {"idle", "exited"}, NEW j \in 1 .. (i - 1)
               PROVE  FALSE
    BY DEF DelegationNests
  <2>1. i = 1
    BY <1>6
  <2> QED BY <2>1
<1>10. TellInv'
  BY <1>4, <1>6 DEF TellInv, SSEvent, Running
<1>11. CountInv'
  BY <1>1, <1>4, <1>6 DEF CountInv, Running
<1>12. HandlerInv' /\ DelegateAnswersOnlyDone'
  BY <1>1, <1>4 DEF HandlerInv, DelegateAnswersOnlyDone
<1>13. RowsInv'
  BY <1>1, <1>4, <1>5, <1>6 DEF RowsInv, SSEvent, Outcome
<1> QED BY <1>7, <1>8, <1>9, <1>10, <1>11, <1>12, <1>13

\* A step of the handler or its environment that leaves the levels alone.
LEMMA RequestKeeps ==
  ASSUME RunInv, UNCHANGED <<route, rows, levelVars>>,
         hpc' \in HPC, answer' \in {"none", "ok", "failed"},
         ctxDone' \in BOOLEAN, convLive' \in BOOLEAN,
         convLive' => convLive \/ (rows = << >> /\ pc[1] = "idle"),
         DelegateAnswersOnlyDone', HandlerInv'
  PROVE  RunInv'
<1> USE DEF RunInv
<1>1. UNCHANGED <<pc, ch, heard, iter, parts, calls>>
  BY DEF levelVars
<1>2. TypeOK'
  BY <1>1 DEF TypeOK
<1>3. OneOutcomeLast' /\ DelegationNests' /\ CountInv'
  BY <1>1 DEF OneOutcomeLast, DelegationNests, CountInv, Running, Closed
<1>4. \A i \in Level, e \in SSEvent : Told(i, e)' <=> Told(i, e)
  BY <1>1 DEF Told
<1>5. TellInv'
  BY <1>1, <1>4 DEF TellInv, Running, SSEvent
<1>6. /\ Told(1, "error")' <=> Told(1, "error")
      /\ Told(1, "done")' <=> Told(1, "done")
  BY <1>4, LevelFacts DEF SSEvent, Outcome
<1>7. pc[1] = "idle" => ~Told(1, "done")
  <2> SUFFICES ASSUME pc[1] = "idle" PROVE ~Told(1, "done")
    OBVIOUS
  <2>1. ch[1] = << >> /\ heard[1] = "none"
    BY LevelFacts DEF TellInv
  <2>2. Len(ch[1]) = 0
    BY <2>1, EmptySeq
  <2> QED BY <2>1, <2>2 DEF Told
<1>8. RowsInv'
  BY <1>1, <1>6, <1>7 DEF RowsInv, HasConversation
<1> QED BY <1>2, <1>3, <1>5, <1>8

LEMMA HandlerStepKeeps ==
  ASSUME RunInv, HandlerStep
  PROVE  RunInv'
<1> USE DEF RunInv
<1>0. 1 \in Level
  BY LevelFacts
<1>1. CASE Refuse
  <2>1. heard[1] = "none" /\ ~Running(1)
    BY <1>0, <1>1 DEF Refuse, HandlerInv, TellInv, Running
  <2>2. /\ hpc' = "returned" /\ answer' = "failed" /\ ctxDone' = TRUE
        /\ UNCHANGED <<route, convLive, rows, levelVars>>
    BY <1>1 DEF Refuse, HandlerReturns
  <2>3. DelegateAnswersOnlyDone' /\ HandlerInv'
    BY <2>1, <2>2 DEF DelegateAnswersOnlyDone, HandlerInv, Running, levelVars
  <2>9. convLive' = convLive /\ convLive' \in BOOLEAN /\ hpc' \in HPC
    BY <2>2 DEF HPC, TypeOK
  <2> QED BY <2>2, <2>3, <2>9, RequestKeeps
<1>2. CASE AcceptChat
  <2>1. /\ hpc = "check" /\ route = "chat" /\ hpc' = "select" /\ convLive' = TRUE
        /\ UNCHANGED <<route, answer, ctxDone, rows, levelVars>>
    BY <1>2 DEF AcceptChat
  <2>2. pc[1] = "idle" /\ rows = << >>
    BY <1>0, <2>1 DEF HandlerInv, RowsInv
  <2>3. DelegateAnswersOnlyDone' /\ HandlerInv'
    BY <2>1 DEF DelegateAnswersOnlyDone, HandlerInv, levelVars
  <2> QED BY <2>1, <2>2, <2>3, RequestKeeps DEF HPC, TypeOK
<1>3. CASE AcceptDelegate
  PROOF BY <1>3, StartRunKeeps DEF AcceptDelegate
<1>4. CASE SelectGone
  <2>1. ~Running(1) /\ (route = "delegate" => heard[1] # "done")
    BY <1>0, <1>4 DEF SelectGone, HandlerInv, TellInv, Running
  <2>2. /\ hpc' = "returned" /\ answer' = "none" /\ ctxDone' = TRUE
        /\ UNCHANGED <<route, convLive, rows, levelVars>>
    BY <1>4 DEF SelectGone, HandlerReturns
  <2>3. DelegateAnswersOnlyDone' /\ HandlerInv'
    BY <2>1, <2>2 DEF DelegateAnswersOnlyDone, HandlerInv, Running, levelVars
  <2>9. convLive' = convLive /\ convLive' \in BOOLEAN /\ hpc' \in HPC
    BY <2>2 DEF HPC, TypeOK
  <2> QED BY <2>2, <2>3, <2>9, RequestKeeps
<1>5. CASE SelectRun
  PROOF BY <1>5, StartRunKeeps DEF SelectRun
<1>6. CASE ReadEvent
  <2>1. /\ hpc = "read" /\ Take(1) /\ UNCHANGED <<route, convLive, rows, pc, iter, parts, calls>>
        /\ heard'[1] = Head(ch[1])
    BY <1>0, <1>6 DEF ReadEvent, Take, TypeOK
  <2>2. CASE route = "delegate" /\ Head(ch[1]) = "error"
    <3>1. hpc' = "returned" /\ answer' = "failed" /\ ctxDone' = TRUE
      BY <1>6, <2>2 DEF ReadEvent, HandlerReturns
    <3>2. ~Running(1)
      <4>1. Told(1, "error")'
        BY <2>1, <2>2 DEF Told
      <4>2. Told(1, "error")
        BY <1>0, <2>1, <4>1, TakeTells DEF Outcome
      <4> QED BY <1>0, <4>2 DEF TellInv, Outcome
    <3>3. DelegateAnswersOnlyDone' /\ HandlerInv'
      BY <2>1, <2>2, <3>1, <3>2 DEF DelegateAnswersOnlyDone, HandlerInv, Running
    <3> QED BY <1>0, <2>1, <3>1, <3>3, TakeKeeps DEF HPC
  <2>3. CASE ~(route = "delegate" /\ Head(ch[1]) = "error")
    <3>1. /\ hpc' = (IF route = "chat" THEN "write" ELSE "read")
          /\ UNCHANGED <<answer, ctxDone>>
      BY <1>6, <2>3 DEF ReadEvent
    <3>2. DelegateAnswersOnlyDone' /\ HandlerInv'
      BY <2>1, <2>3, <3>1 DEF DelegateAnswersOnlyDone, HandlerInv, Running
    <3>3. hpc' \in HPC
      BY <3>1 DEF HPC
    <3> QED BY <1>0, <2>1, <3>1, <3>2, <3>3, TakeKeeps DEF TypeOK
  <2> QED BY <2>2, <2>3
<1>8. CASE WriteReturns
  <2>1. /\ hpc = "write" /\ hpc' = "read"
        /\ UNCHANGED <<route, answer, ctxDone, convLive, rows, levelVars>>
    BY <1>8 DEF WriteReturns
  <2>2. DelegateAnswersOnlyDone' /\ HandlerInv'
    BY <2>1 DEF DelegateAnswersOnlyDone, HandlerInv, Running, levelVars
  <2>3. convLive' \in BOOLEAN /\ hpc' \in HPC
    BY <2>1 DEF HPC, TypeOK
  <2> QED BY <2>1, <2>2, <2>3, RequestKeeps DEF TypeOK
<1>7. CASE ReadEnd
  <2>1. /\ hpc = "read" /\ pc[1] = "exited" /\ ch[1] = << >>
        /\ hpc' = "returned" /\ answer' = "ok" /\ ctxDone' = TRUE
        /\ UNCHANGED <<route, convLive, rows, levelVars>>
    BY <1>7 DEF ReadEnd, Closed, HandlerReturns
  <2>2. heard[1] \in Outcome /\ ~Running(1)
    BY <1>0, <2>1 DEF OneOutcomeLast, Closed, Running
  <2>3. DelegateAnswersOnlyDone' /\ HandlerInv'
    BY <2>1, <2>2 DEF DelegateAnswersOnlyDone, HandlerInv, Running, levelVars, Outcome
  <2>9. convLive' = convLive /\ convLive' \in BOOLEAN /\ hpc' \in HPC
    BY <2>1 DEF HPC, TypeOK
  <2> QED BY <2>1, <2>3, <2>9, RequestKeeps
<1> QED BY <1>1, <1>2, <1>3, <1>4, <1>5, <1>6, <1>7, <1>8 DEF HandlerStep

LEMMA StepKeeps == RunInv /\ [Next]_runVars => RunInv'
<1> SUFFICES ASSUME RunInv, [Next]_runVars PROVE RunInv'
  OBVIOUS
<1>1. CASE \E i \in Level : LevelStep(i)
  BY <1>1, LevelStepKeeps
<1>2. CASE HandlerStep
  BY <1>2, HandlerStepKeeps
<1>3. CASE ClientLeaves
  <2>1. ctxDone' = TRUE /\ UNCHANGED <<route, hpc, answer, convLive, rows, levelVars>>
    BY <1>3 DEF ClientLeaves
  <2>2. DelegateAnswersOnlyDone' /\ HandlerInv'
    BY <2>1 DEF RunInv, DelegateAnswersOnlyDone, HandlerInv, Running, levelVars
  <2>3. /\ convLive' \in BOOLEAN /\ (convLive' => convLive) /\ ctxDone' \in BOOLEAN
        /\ hpc' \in HPC /\ answer' \in {"none", "ok", "failed"}
    BY <2>1 DEF RunInv, TypeOK
  <2> QED BY <2>1, <2>2, <2>3, RequestKeeps
<1>4. CASE ConversationExpires
  <2>1. convLive /\ convLive' = FALSE /\ UNCHANGED <<route, hpc, answer, ctxDone, rows, levelVars>>
    BY <1>4 DEF ConversationExpires
  <2>2. DelegateAnswersOnlyDone' /\ HandlerInv'
    BY <2>1 DEF RunInv, DelegateAnswersOnlyDone, HandlerInv, Running, levelVars
  <2>3. /\ convLive' \in BOOLEAN /\ (convLive' => convLive) /\ ctxDone' \in BOOLEAN
        /\ hpc' \in HPC /\ answer' \in {"none", "ok", "failed"}
    BY <2>1 DEF RunInv, TypeOK
  <2> QED BY <2>1, <2>2, <2>3, RequestKeeps
<1>5. CASE UNCHANGED runVars
  <2>1. UNCHANGED <<route, hpc, answer, ctxDone, convLive, rows, levelVars>>
    BY <1>5 DEF runVars, requestVars
  <2>2. DelegateAnswersOnlyDone' /\ HandlerInv'
    BY <2>1 DEF RunInv, DelegateAnswersOnlyDone, HandlerInv, Running, levelVars
  <2>3. /\ convLive' \in BOOLEAN /\ (convLive' => convLive) /\ ctxDone' \in BOOLEAN
        /\ hpc' \in HPC /\ answer' \in {"none", "ok", "failed"}
    BY <2>1 DEF RunInv, TypeOK
  <2> QED BY <2>1, <2>2, <2>3, RequestKeeps
<1> QED BY <1>1, <1>2, <1>3, <1>4, <1>5 DEF Next

LEMMA RunInvariance == Spec => []RunInv
<1> QED BY InitInv, StepKeeps, PTL DEF Spec

(***************************************************************************)
(* No deadlock.                                                            *)
(***************************************************************************)
\* An active level that does not wait for the next one is the deepest.
LEMMA DeepestActive ==
  ASSUME RunInv, NEW d \in 0 .. MaxDepth, ActiveTo(d), NEW i \in Level,
         ~ Inactive(i), pc[i] # "drain"
  PROVE  i = d
<1>1. d \in Nat /\ i \in Nat /\ i <= d
  BY LevelFacts, RunAssumption DEF ActiveTo
<1>2. CASE i < d
  <2>1. d \in Level /\ i \in 1 .. (d - 1)
    BY <1>1, <1>2, RunAssumption DEF Level
  <2>2. ~ Inactive(d)
    BY <1>1, <2>1 DEF ActiveTo
  <2> QED BY <2>1, <2>2 DEF RunInv, DelegationNests, Inactive
<1> QED BY <1>1, <1>2

\* Of all steps of a level only the start of a sub-run and the return of a run
\* change who is active.
LEMMA LevelActivity ==
  ASSUME TypeOK, NEW i \in Level, LevelStep(i), ~ DispatchDelegate(i), ~ Return(i)
  PROVE  /\ UNCHANGED hpc
         /\ \A j \in Level : Inactive(j)' <=> Inactive(j)
         /\ \A j \in Level : /\ pc'[j] = "idle" => pc[j] = "idle"
                             /\ pc'[j] = "drain" => pc[j] = "drain"
<1> USE DEF TypeOK, Goto, Finish, Inactive, requestVars
<1>1. CASE Lookup(i) \/ LoopHead(i) \/ CallModel(i)
  BY <1>1 DEF Lookup, LoopHead, CallModel
<1>2. CASE RangePart(i) \/ RangeError(i) \/ RangeEnd(i)
  BY <1>2 DEF RangePart, RangeError, RangeEnd
<1>3. CASE DispatchTool(i) \/ DispatchEnd(i) \/ DrainTakes(i) \/ DrainEnds(i)
  BY <1>3 DEF DispatchTool, DispatchEnd, DrainTakes, DrainEnds
<1>4. CASE SaveUser(i) \/ SaveReply(i) \/ Done(i)
  BY <1>4 DEF SaveUser, SaveReply, Done
<1> QED BY <1>1, <1>2, <1>3, <1>4 DEF LevelStep

LEMMA ChainKept ==
  ASSUME TypeOK, ChainInv, hpc' \in {"read", "write"} => hpc \in {"read", "write"},
         \A j \in Level : Inactive(j)' <=> Inactive(j),
         \A j \in Level : /\ pc'[j] = "idle" => pc[j] = "idle"
                          /\ pc'[j] = "drain" => pc[j] = "drain",
         \A j \in Level : pc[j] = "drain" => j < MaxDepth
  PROVE  ChainInv'
<1>1. PICK d \in 0 .. MaxDepth : ActiveTo(d)
  BY DEF ChainInv
<1>2. ActiveTo(d)'
  BY <1>1 DEF ActiveTo
<1>3. \A j \in Level : j < MaxDepth => j + 1 \in Level
  BY RunAssumption DEF Level
<1>4. hpc' \in {"read", "write"} => pc'[1] # "idle"
  BY LevelFacts DEF ChainInv
<1>5. \A j \in Level : pc'[j] = "drain" => pc'[j + 1] # "idle"
  BY <1>3 DEF ChainInv
<1> QED BY <1>1, <1>2, <1>4, <1>5 DEF ChainInv

LEMMA ChainLevelKeeps ==
  ASSUME RunInv, ChainInv, NEW i \in Level, LevelStep(i)
  PROVE  ChainInv'
<1>1. PICK d \in 0 .. MaxDepth : ActiveTo(d)
  BY DEF ChainInv
<1>2. TypeOK /\ i \in Nat /\ MaxDepth \in Nat \ {0} /\ d \in Nat
  BY LevelFacts, RunAssumption DEF RunInv
<1>3. \A j \in Level : pc[j] = "drain" => j < MaxDepth
  BY DEF RunInv, CountInv
<1>4. CASE DispatchDelegate(i)
  <2>1. /\ pc[i] = "dispatch" /\ i < MaxDepth /\ hpc' = hpc
        /\ pc' = [[pc EXCEPT ![i] = "drain"] EXCEPT ![i + 1] = "lookup"]
    BY <1>4 DEF DispatchDelegate, StartLevel, requestVars
  <2>2. i + 1 \in Level /\ i + 1 # i
    BY <1>2, <2>1 DEF Level
  <2>3. /\ pc'[i] = "drain" /\ pc'[i + 1] = "lookup"
        /\ \A j \in Level \ {i, i + 1} : pc'[j] = pc[j]
    BY <1>2, <2>1, <2>2 DEF TypeOK
  <2>4. d = i
    BY <1>1, <2>1, DeepestActive DEF Inactive
  <2>5. ActiveTo(i + 1)'
    <3> SUFFICES ASSUME NEW j \in Level PROVE Inactive(j)' <=> j > i + 1
      BY DEF ActiveTo
    <3>1. j \in Nat /\ (Inactive(j) <=> j > i)
      BY <1>1, <2>4, LevelFacts DEF ActiveTo
    <3>2. CASE j \in {i, i + 1}
      BY <1>2, <2>3, <3>2 DEF Inactive
    <3>3. CASE j \notin {i, i + 1}
      BY <1>2, <2>3, <3>1, <3>3 DEF Inactive
    <3> QED BY <3>2, <3>3
  <2>6. i + 1 \in 0 .. MaxDepth
    BY <1>2, <2>1
  <2>7. pc'[1] # "idle" \/ hpc' \notin {"read", "write"}
    BY <2>1, <2>3, LevelFacts DEF ChainInv
  <2>8. ASSUME NEW j \in Level, pc'[j] = "drain" PROVE pc'[j + 1] # "idle"
    <3>1. CASE j = i
      BY <2>3, <3>1
    <3>2. CASE j # i
      <4>1. pc[j] = "drain"
        BY <2>3, <2>8, <3>2
      <4>2. pc[j + 1] # "idle" /\ j + 1 \in Level
        BY <1>2, <1>3, <4>1 DEF ChainInv, Level
      <4> QED BY <2>3, <4>2
    <3> QED BY <3>1, <3>2
  <2> QED BY <2>5, <2>6, <2>7, <2>8 DEF ChainInv
<1>5. CASE Return(i)
  <2>1. pc[i] = "return" /\ pc'[i] = "exited" /\ hpc' = hpc /\ \A j \in Level \ {i} : pc'[j] = pc[j]
    BY <1>2, <1>5 DEF Return, Goto, requestVars, TypeOK
  <2>2. d = i
    BY <1>1, <2>1, DeepestActive DEF Inactive
  <2>3. ActiveTo(i - 1)' /\ i - 1 \in 0 .. MaxDepth
    <3>1. i - 1 \in 0 .. MaxDepth
      BY <1>2 DEF Level
    <3>2. ASSUME NEW j \in Level PROVE Inactive(j)' <=> j > i - 1
      <4>1. j \in Nat /\ (Inactive(j) <=> j > i)
        BY <1>1, <2>2, LevelFacts DEF ActiveTo
      <4>2. CASE j = i
        BY <1>2, <2>1, <4>2 DEF Inactive
      <4>3. CASE j # i
        BY <1>2, <2>1, <4>1, <4>3 DEF Inactive
      <4> QED BY <4>2, <4>3
    <3> QED BY <3>1, <3>2 DEF ActiveTo
  <2>4. hpc' \in {"read", "write"} => pc'[1] # "idle"
    BY <2>1, LevelFacts DEF ChainInv
  <2>5. ASSUME NEW j \in Level, pc'[j] = "drain" PROVE pc'[j + 1] # "idle"
    <3>1. pc[j] = "drain"
      BY <2>1, <2>5
    <3>2. pc[j + 1] # "idle" /\ j + 1 \in Level
      BY <1>2, <1>3, <3>1 DEF ChainInv, Level
    <3> QED BY <2>1, <3>2
  <2> QED BY <2>3, <2>4, <2>5 DEF ChainInv
<1>6. CASE ~ DispatchDelegate(i) /\ ~ Return(i)
  BY <1>2, <1>3, <1>6, LevelActivity, ChainKept
<1> QED BY <1>4, <1>5, <1>6

LEMMA ChainStepKeeps == RunInv /\ ChainInv /\ [Next]_runVars => ChainInv'
<1> SUFFICES ASSUME RunInv, ChainInv, [Next]_runVars PROVE ChainInv'
  OBVIOUS
<1>1. CASE \E i \in Level : LevelStep(i)
  BY <1>1, ChainLevelKeeps
<1>2. CASE hpc \in {"check", "select"} /\ StartRun
  <2>1. hpc' = "read" /\ pc' = [pc EXCEPT ![1] = "lookup"] /\ \A j \in Level : pc[j] = "idle"
    BY <1>2 DEF StartRun, StartLevel, RunInv, HandlerInv
  <2>2. pc'[1] = "lookup" /\ \A j \in Level \ {1} : pc'[j] = "idle"
    BY <2>1, LevelFacts DEF RunInv, TypeOK
  <2>3. ActiveTo(1)' /\ 1 \in 0 .. MaxDepth
    BY <2>2, RunAssumption DEF ActiveTo, Inactive, Level
  <2> QED BY <2>1, <2>2, <2>3 DEF ChainInv
<1>3. CASE ~ (\E i \in Level : LevelStep(i)) /\ ~ (hpc \in {"check", "select"} /\ StartRun)
  <2>1. pc' = pc /\ (hpc' \in {"read", "write"} => hpc \in {"read", "write"})
    BY <1>3 DEF Next, HandlerStep, Refuse, AcceptChat, AcceptDelegate, SelectGone, SelectRun, ReadEvent, ReadEnd,
                WriteReturns, ClientLeaves, ConversationExpires, HandlerReturns, levelVars, runVars, requestVars
  <2>2. \A j \in Level : Inactive(j)' <=> Inactive(j)
    BY <2>1 DEF Inactive
  <2>3. \A j \in Level : pc[j] = "drain" => j < MaxDepth
    BY DEF RunInv, CountInv
  <2> QED BY <2>1, <2>2, <2>3, ChainKept DEF RunInv
<1> QED BY <1>1, <1>2, <1>3

(***************************************************************************)
(* The results.                                                            *)
(***************************************************************************)
\* Every variable stays in its type; a channel never exceeds its capacity.
THEOREM RunTypeCorrect == Spec => []TypeOK
<1>1. RunInv => TypeOK
  BY DEF RunInv
<1> QED BY <1>1, RunInvariance, PTL

\* executeAgent tells whoever reads its channel exactly one outcome, last,
\* and tells it before the channel is closed.
THEOREM OutcomeOnceAndLast == Spec => []OneOutcomeLast
<1>1. RunInv => OneOutcomeLast
  BY DEF RunInv
<1> QED BY <1>1, RunInvariance, PTL

\* A level is started by the level that then waits for it, and only there.
THEOREM RunsNest == Spec => []DelegationNests
<1>1. RunInv => DelegationNests
  BY DEF RunInv
<1> QED BY <1>1, RunInvariance, PTL

\* When StreamChat or Delegate returns, no run of the request is under way.
THEOREM NoGoroutineLeft == Spec => []NothingLeftRunning
<1>1. RunInv => NothingLeftRunning
  <2> SUFFICES ASSUME RunInv, hpc = "returned", NEW i \in Level
               PROVE  ~Running(i)
    BY DEF NothingLeftRunning
  <2>1. ~Running(1)
    BY DEF RunInv, HandlerInv
  <2>2. pc[1] # "drain"
    BY <2>1 DEF Running
  <2>3. CASE i = 1
    BY <2>1, <2>3
  <2>4. CASE i # 1
    <3>1. 1 \in 1 .. (i - 1)
      BY <2>4, LevelFacts DEF Level
    <3>2. pc[i] \in {"idle", "exited"}
      BY <2>2, <3>1 DEF RunInv, DelegationNests
    <3> QED BY <3>2 DEF Running
  <2> QED BY <2>3, <2>4
<1> QED BY <1>1, RunInvariance, PTL

\* A failed request adds nothing to its conversation; a request that is done
\* added the question and the answer, in this order, if it still exists.
THEOREM ExchangesWholeOrAbsent == Spec => []ExchangeWholeOrAbsent
<1>1. RunInv => ExchangeWholeOrAbsent
  BY DEF RunInv, RowsInv, ExchangeWholeOrAbsent, Told
<1> QED BY <1>1, RunInvariance, PTL

\* Delegate answers 200 exactly for the runs that reached their answer.
THEOREM DelegateAnswers == Spec => []DelegateAnswersOnlyDone
<1>1. RunInv => DelegateAnswersOnlyDone
  BY DEF RunInv
<1> QED BY <1>1, RunInvariance, PTL

\* The request and the chain of runs under it never wait for each other: of
\* the goroutines that have not ended, at least one can go on, however deep
\* the delegation and however full the channels.
THEOREM RunsNeverStuck == Spec => []NeverStuck
<1>1. RunInv /\ ChainInv => NeverStuck
  <2> SUFFICES ASSUME RunInv, ChainInv, hpc = "returned" \/ HandlerWaits,
                      \A i \in Level : Inactive(i) \/ WaitsForRoom(i) \/ WaitsForEvent(i)
               PROVE  AllEnded
    BY DEF NeverStuck
  <2>1. PICK d \in 0 .. MaxDepth : ActiveTo(d)
    BY DEF ChainInv
  <2>2. d \in Nat /\ 1 \in Level
    BY LevelFacts, RunAssumption
  <2>3. CASE d = 0
    <3>1. \A i \in Level : Inactive(i)
      BY <2>1, <2>3 DEF ActiveTo, Level
    <3>2. ~ HandlerWaits
      BY <2>2, <3>1 DEF HandlerWaits, Inactive, ChainInv
    <3> QED BY <3>1, <3>2 DEF AllEnded
  <2>4. CASE d > 0
    <3>1. d \in Level /\ ~ Inactive(d)
      BY <2>1, <2>2, <2>4, RunAssumption DEF ActiveTo, Level
    <3>2. pc[d] # "drain"
      <4> SUFFICES ASSUME pc[d] = "drain" PROVE FALSE
        OBVIOUS
      <4>1. d + 1 \in Level
        BY <2>2, <3>1, RunAssumption DEF RunInv, CountInv, Level
      <4>2. Inactive(d + 1)
        BY <2>1, <2>2, <4>1 DEF ActiveTo
      <4>3. pc[d + 1] = "exited"
        BY <3>1, <4>2 DEF ChainInv, Inactive
      <4> QED BY <3>1, <4>3 DEF WaitsForRoom, WaitsForEvent, Inactive
    <3>3. Len(ch[d]) = EventCap /\ pc[d] \notin {"return", "exited", "idle"}
      BY <3>1, <3>2 DEF WaitsForRoom, WaitsForEvent
    <3>4. ch[d] # << >>
      BY <3>3, EmptySeq, RunAssumption
    <3>5. CASE d = 1
      <4>1. HandlerWaits
        BY <2>2, <3>3, <3>5 DEF RunInv, HandlerInv, Running
      <4> QED BY <3>4, <3>5, <4>1 DEF HandlerWaits
    <3>6. CASE d > 1
      <4>1. d - 1 \in Level /\ d - 1 \in 1 .. (d - 1) /\ (d - 1) + 1 = d
        BY <2>2, <3>1, <3>6, RunAssumption DEF Level
      <4>2. pc[d - 1] = "drain"
        BY <3>1, <4>1 DEF RunInv, DelegationNests, Inactive
      <4> QED BY <3>4, <4>1, <4>2 DEF WaitsForRoom, WaitsForEvent, Inactive
    <3> QED BY <2>2, <2>4, <3>5, <3>6
  <2> QED BY <2>2, <2>3, <2>4
<1>2. Init => ChainInv
  <2> SUFFICES ASSUME Init PROVE ChainInv
    OBVIOUS
  <2>1. \A i \in Level : pc[i] = "idle" /\ i > 0
    BY DEF Init, Level
  <2>2. ActiveTo(0) /\ 0 \in 0 .. MaxDepth
    BY <2>1, RunAssumption DEF ActiveTo, Inactive
  <2> QED BY <2>1, <2>2 DEF ChainInv, Init
<1>3. Spec => []ChainInv
  <2>1. RunInv /\ ChainInv /\ [Next]_runVars => ChainInv'
    BY ChainStepKeeps
  <2> QED BY <1>2, <2>1, RunInvariance, PTL DEF Spec
<1> QED BY <1>1, <1>3, RunInvariance, PTL

(***************************************************************************)
(* Termination: every step lowers the rank of what is left, and no rank    *)
(* can be lowered for ever.                                                *)
(***************************************************************************)
LEMMA StageType == \A p \in PC : Stage[p] \in Nat
  BY DEF PC, Stage

LEMMA HandlerStageType == \A p \in HPC : HandlerStage[p] \in Nat
  BY DEF HPC, HandlerStage

LEMMA RankComponents ==
  ASSUME TypeOK, CountInv, NEW i \in Level
  PROVE  /\ MaxIter - iter[i] \in Nat /\ Stage[pc[i]] \in Nat /\ MaxParts - parts[i] \in Nat
         /\ CallsLeft(i) \in Nat /\ EventsLeft(i) \in Nat
<1>1. /\ iter[i] \in 0 .. MaxIter /\ parts[i] \in 0 .. MaxParts /\ calls[i] \in Nat
      /\ pc[i] \in PC /\ ch[i] \in Seq(SSEvent)
  BY DEF TypeOK
<1>2. CallsLeft(i) \in Nat
  BY <1>1 DEF CallsLeft, CountInv
<1>3. EventsLeft(i) \in Nat
  BY <1>1, LenProperties DEF EventsLeft
<1> QED BY <1>1, <1>2, <1>3, StageType, RunAssumption

\* Level j is as it was.
LevelSame(j) ==
  /\ pc'[j] = pc[j] /\ iter'[j] = iter[j] /\ parts'[j] = parts[j]
  /\ calls'[j] = calls[j] /\ ch'[j] = ch[j] /\ hpc' = hpc

(* The first level that changes has something less left.                   *)
LEMMA LevelDescends ==
  ASSUME TypeOK, TypeOK', NEW i \in Level, \A j \in Level : j < i => LevelSame(j),
         \/ iter'[i] > iter[i]
         \/ iter'[i] = iter[i] /\ Stage[pc'[i]] < Stage[pc[i]]
         \/ iter'[i] = iter[i] /\ pc'[i] = pc[i] /\ parts'[i] > parts[i]
         \/ /\ iter'[i] = iter[i] /\ Stage[pc'[i]] = Stage[pc[i]] /\ parts'[i] = parts[i]
            /\ CallsLeft(i)' < CallsLeft(i)
         \/ /\ iter'[i] = iter[i] /\ pc'[i] = pc[i] /\ parts'[i] = parts[i]
            /\ calls'[i] = calls[i] /\ EventsLeft(i)' < EventsLeft(i)
  PROVE  LevelsDescend
<1>1. /\ iter[i] \in Nat /\ iter'[i] \in Nat /\ parts[i] \in Nat /\ parts'[i] \in Nat
      /\ MaxIter \in Nat /\ MaxParts \in Nat
  BY RunAssumption DEF TypeOK
<1>2. ASSUME NEW j \in 1 .. (i - 1) PROVE LevelRank(j)' = LevelRank(j)
  <2>1. j \in Level /\ j < i
    BY RunAssumption DEF Level
  <2>2. LevelSame(j)
    BY <2>1
  <2> QED BY <2>2 DEF LevelSame, LevelRank, CallsLeft, EventsLeft
<1> DEFINE s == LevelRank(i)'
           t == LevelRank(i)
<1>3. /\ s[1] = MaxIter - iter'[i] /\ t[1] = MaxIter - iter[i]
      /\ s[2] = Stage[pc'[i]] /\ t[2] = Stage[pc[i]]
      /\ s[3] = MaxParts - parts'[i] /\ t[3] = MaxParts - parts[i]
      /\ s[4] = CallsLeft(i)' /\ t[4] = CallsLeft(i)
      /\ s[5] = EventsLeft(i)' /\ t[5] = EventsLeft(i)
      /\ Len(t) = 5
  BY DEF LevelRank
<1> HIDE DEF s, t
<1>4. \E k \in 1 .. 5 : s[k] < t[k] /\ \A m \in 1 .. (k - 1) : s[m] = t[m]
  <2>1. CASE iter'[i] > iter[i]
    <3>1. s[1] < t[1] /\ \A m \in 1 .. (1 - 1) : s[m] = t[m]
      BY <2>1, <1>1, <1>3
    <3> QED BY <3>1
  <2>2. CASE iter'[i] = iter[i] /\ Stage[pc'[i]] < Stage[pc[i]]
    <3>1. s[2] < t[2] /\ \A m \in 1 .. (2 - 1) : s[m] = t[m]
      BY <2>2, <1>3
    <3> QED BY <3>1
  <2>3. CASE iter'[i] = iter[i] /\ pc'[i] = pc[i] /\ parts'[i] > parts[i]
    <3>1. s[3] < t[3]
      BY <2>3, <1>1, <1>3
    <3>2. s[1] = t[1] /\ s[2] = t[2]
      BY <2>3, <1>3
    <3>3. \A m \in 1 .. (3 - 1) : s[m] = t[m]
      BY <3>2
    <3> QED BY <3>1, <3>3
  <2>4. CASE /\ iter'[i] = iter[i] /\ Stage[pc'[i]] = Stage[pc[i]] /\ parts'[i] = parts[i]
             /\ CallsLeft(i)' < CallsLeft(i)
    <3>1. s[4] < t[4] /\ \A m \in 1 .. (4 - 1) : s[m] = t[m]
      BY <2>4, <1>3
    <3> QED BY <3>1
  <2>5. CASE /\ iter'[i] = iter[i] /\ pc'[i] = pc[i] /\ parts'[i] = parts[i]
             /\ calls'[i] = calls[i] /\ EventsLeft(i)' < EventsLeft(i)
    <3>1. CallsLeft(i)' = CallsLeft(i)
      BY <2>5 DEF CallsLeft
    <3>2. s[5] < t[5] /\ \A m \in 1 .. (5 - 1) : s[m] = t[m]
      BY <2>5, <3>1, <1>3
    <3> QED BY <3>2
  <2> QED BY <2>1, <2>2, <2>3, <2>4, <2>5
<1>5. LexLess(LevelRank(i)', LevelRank(i))
  BY <1>3, <1>4 DEF LexLess, s, t
<1> QED BY <1>2, <1>5 DEF LevelsDescend

(* A step of level i has less left at level i, or, when it takes an event  *)
(* of the run it waits for, at level i + 1.                                *)
LEMMA LevelStepDescends ==
  ASSUME RunInv, TypeOK', NEW i \in Level, LevelStep(i)
  PROVE  LevelsDescend /\ RequestRank' = RequestRank
<1>n. i > 0 /\ \A j \in Level : j \in Nat
  BY DEF Level
<1>t. /\ TypeOK /\ CountInv
      /\ pc \in [Level -> PC] /\ iter \in [Level -> 0 .. MaxIter]
      /\ parts \in [Level -> 0 .. MaxParts] /\ calls \in [Level -> 0 .. MaxParts]
      /\ DOMAIN ch = Level
      /\ \A j \in Level : iter[j] \in Nat /\ parts[j] \in Nat /\ calls[j] \in Nat
  BY DEF RunInv, TypeOK
<1> DEFINE Above == \A j \in Level : j < i => LevelSame(j)
           Request == UNCHANGED <<hpc, ctxDone, convLive>>
<1>r. ASSUME Request PROVE RequestRank' = RequestRank
  BY <1>r DEF RequestRank
<1>s. ASSUME NEW p \in PC, Stage[p] < Stage[pc[i]], pc' = [pc EXCEPT ![i] = p],
             \A j \in Level : j # i => ch'[j] = ch[j],
             UNCHANGED <<hpc, ctxDone, convLive, iter>>,
             \A j \in Level : j # i => parts'[j] = parts[j] /\ calls'[j] = calls[j]
      PROVE  LevelsDescend /\ RequestRank' = RequestRank
  <2>1. Above
    BY <1>s, <1>n, <1>t DEF LevelSame
  <2>2. iter'[i] = iter[i] /\ Stage[pc'[i]] < Stage[pc[i]]
    BY <1>s, <1>t
  <2> QED BY <1>s, <1>r, <1>t, <2>1, <2>2, LevelDescends
<1>e. ASSUME NEW e \in SSEvent, Emit(i, e) PROVE \A j \in Level : j # i => ch'[j] = ch[j]
  BY <1>e, <1>t, EmitFacts
<1>p. {"return", "loop", "call", "range", "dispatch", "drain", "saveUser", "saveReply",
       "done", "exited"} \subseteq PC
  BY DEF PC
<1>f. ASSUME NEW e \in SSEvent, Finish(i, e), Stage[pc[i]] > 1
      PROVE  LevelsDescend /\ RequestRank' = RequestRank
  <2>1. Stage["return"] = 1
    BY DEF Stage
  <2>2. \A j \in Level : j # i => parts'[j] = parts[j] /\ calls'[j] = calls[j]
    BY <1>f, <1>t DEF Finish
  <2> QED BY <1>f, <1>s, <1>e, <1>p, <2>1, <2>2 DEF Finish, Goto, requestVars
<1>g. ASSUME NEW p \in PC, Stage[p] < Stage[pc[i]], Goto(i, p),
             UNCHANGED <<hpc, ctxDone, convLive, ch, iter, parts, calls>>
      PROVE  LevelsDescend /\ RequestRank' = RequestRank
  BY <1>g, <1>s DEF Goto
<1>1. CASE Lookup(i)
  BY <1>1, <1>f, <1>g, <1>p DEF Lookup, Stage, SSEvent, Outcome, requestVars
<1>2. CASE LoopHead(i)
  BY <1>2, <1>f, <1>g, <1>p DEF LoopHead, Stage, SSEvent, Outcome, requestVars
<1>3. CASE CallModel(i)
  <2>1. CASE Finish(i, "error")
    BY <1>3, <2>1, <1>f DEF CallModel, Stage, SSEvent, Outcome
  <2>2. CASE /\ Goto(i, "range")
             /\ parts' = [parts EXCEPT ![i] = 0] /\ calls' = [calls EXCEPT ![i] = 0]
             /\ UNCHANGED <<requestVars, ch, heard, iter>>
    <3>1. Stage["range"] < Stage[pc[i]]
      BY <1>3 DEF CallModel, Stage
    <3>2. \A j \in Level : j # i => parts'[j] = parts[j] /\ calls'[j] = calls[j]
      BY <2>2, <1>t
    <3> QED BY <2>2, <3>1, <3>2, <1>s, <1>p DEF Goto, requestVars
  <2> QED BY <1>3, <2>1, <2>2 DEF CallModel
<1>4. CASE RangePart(i)
  <2>1. /\ parts' = [parts EXCEPT ![i] = @ + 1]
        /\ UNCHANGED <<pc, iter, hpc, ctxDone, convLive>>
        /\ \A j \in Level : j # i => ch'[j] = ch[j] /\ calls'[j] = calls[j]
    BY <1>4, <1>e, <1>t DEF RangePart, requestVars, SSEvent, Progress
  <2>2. Above /\ iter'[i] = iter[i] /\ pc'[i] = pc[i] /\ parts'[i] > parts[i]
    BY <2>1, <1>n, <1>t DEF LevelSame
  <2> QED BY <2>1, <2>2, <1>r, <1>t, LevelDescends
<1>5. CASE RangeError(i)
  BY <1>5, <1>f DEF RangeError, Stage, SSEvent, Outcome
<1>6. CASE RangeEnd(i)
  BY <1>6, <1>g, <1>p DEF RangeEnd, Stage, requestVars
<1>7. CASE DispatchTool(i)
  <2>1. /\ calls' = [calls EXCEPT ![i] = @ - 1] /\ calls[i] > 0 /\ pc[i] # "drain"
        /\ UNCHANGED <<pc, ch, iter, parts, hpc, ctxDone, convLive>>
    BY <1>7 DEF DispatchTool, requestVars
  <2>2. Above /\ CallsLeft(i)' < CallsLeft(i)
    BY <2>1, <1>n, <1>t DEF LevelSame, CallsLeft
  <2> QED BY <2>1, <2>2, <1>r, <1>t, LevelDescends
<1>8. CASE DispatchDelegate(i)
  <2>1. /\ pc[i] = "dispatch" /\ calls[i] > 0 /\ i + 1 \in Level
        /\ pc' = [[pc EXCEPT ![i] = "drain"] EXCEPT ![i + 1] = "lookup"]
        /\ ch' = [[ch EXCEPT ![i] = Append(@, "status")] EXCEPT ![i + 1] = << >>]
        /\ iter' = [iter EXCEPT ![i + 1] = 0]
        /\ UNCHANGED <<parts, calls, hpc, ctxDone, convLive>>
    BY <1>8, <1>n, RunAssumption DEF DispatchDelegate, StartLevel, requestVars, Level
  <2>2. Above
    BY <2>1, <1>n, <1>t DEF LevelSame
  <2>3. pc'[i] = "drain" /\ iter'[i] = iter[i] /\ parts'[i] = parts[i] /\ calls'[i] = calls[i]
    BY <2>1, <1>t
  <2>4. Stage[pc'[i]] = Stage[pc[i]] /\ CallsLeft(i)' < CallsLeft(i)
    BY <2>1, <2>3, <1>t DEF Stage, CallsLeft
  <2> QED BY <2>1, <2>2, <2>3, <2>4, <1>r, <1>t, LevelDescends
<1>9. CASE DispatchEnd(i)
  <2>1. /\ iter' = [iter EXCEPT ![i] = @ + 1] /\ pc' = [pc EXCEPT ![i] = "loop"]
        /\ parts' = [parts EXCEPT ![i] = 0]
        /\ UNCHANGED <<ch, calls, hpc, ctxDone, convLive>>
    BY <1>9 DEF DispatchEnd, Goto, requestVars
  <2>2. Above /\ iter'[i] > iter[i]
    BY <2>1, <1>n, <1>t DEF LevelSame
  <2> QED BY <2>1, <2>2, <1>r, <1>t, LevelDescends
<1>10. CASE DrainTakes(i)
  <2>1. /\ i + 1 \in Level /\ Take(i + 1)
        /\ UNCHANGED <<pc, iter, parts, calls, hpc, ctxDone, convLive>>
    BY <1>10, <1>n, <1>t, RunAssumption DEF DrainTakes, requestVars, CountInv, Level
  <2>2. /\ Len(ch'[i + 1]) < Len(ch[i + 1])
        /\ \A j \in Level : j < i + 1 => ch'[j] = ch[j]
    BY <2>1, <1>n, <1>t, TakeFacts
  <2>3. \A j \in Level : j < i + 1 => LevelSame(j)
    BY <2>1, <2>2 DEF LevelSame
  <2>5. EventsLeft(i + 1)' < EventsLeft(i + 1)
    <3>1. Len(ch'[i + 1]) \in Nat /\ Len(ch[i + 1]) \in Nat /\ hpc' = hpc
      BY <2>1, LenProperties DEF TypeOK
    <3> QED BY <2>2, <3>1 DEF EventsLeft
  <2>4. LevelsDescend
    BY <2>1, <2>3, <2>5, <1>t, LevelDescends
  <2> QED BY <2>1, <2>4, <1>r
<1>11. CASE DrainEnds(i)
  <2>1. /\ pc[i] = "drain" /\ calls[i] > 0
        /\ calls' = [calls EXCEPT ![i] = @ - 1] /\ pc' = [pc EXCEPT ![i] = "dispatch"]
        /\ UNCHANGED <<ch, iter, parts, hpc, ctxDone, convLive>>
    BY <1>11, <1>t DEF DrainEnds, Goto, requestVars, CountInv
  <2>2. Above /\ pc'[i] = "dispatch" /\ calls'[i] = calls[i] - 1
    BY <2>1, <1>n, <1>t DEF LevelSame
  <2>3. Stage[pc'[i]] = Stage[pc[i]] /\ CallsLeft(i)' < CallsLeft(i)
    BY <2>1, <2>2, <1>t DEF Stage, CallsLeft
  <2> QED BY <2>1, <2>2, <2>3, <1>r, <1>t, LevelDescends
<1>12. CASE SaveUser(i) \/ SaveReply(i) \/ Return(i)
  BY <1>12, <1>g, <1>p DEF SaveUser, SaveReply, Return, Stage, requestVars
<1>13. CASE Done(i)
  BY <1>13, <1>f DEF Done, Stage, SSEvent, Outcome
<1> QED BY <1>1, <1>2, <1>3, <1>4, <1>5, <1>6, <1>7, <1>8, <1>9, <1>10, <1>11, <1>12, <1>13
        DEF LevelStep

(* A step of the handler or of the environment has less left of the        *)
(* request, or takes an event of the handler's run.                        *)
LEMMA RequestDescends ==
  ASSUME RunInv, TypeOK', HandlerStep \/ ClientLeaves \/ ConversationExpires
  PROVE  \/ LexLess(RequestRank', RequestRank)
         \/ RequestRank' = RequestRank /\ LevelsDescend
<1>t. TypeOK /\ hpc \in HPC /\ ctxDone \in BOOLEAN /\ convLive \in BOOLEAN /\ hpc' \in HPC
  BY DEF RunInv, TypeOK
<1> DEFINE s == RequestRank'
           t == RequestRank
<1>1. /\ s[1] = HandlerStage[hpc'] /\ t[1] = HandlerStage[hpc]
      /\ s[2] = (IF ctxDone' THEN 0 ELSE 1) /\ t[2] = (IF ctxDone THEN 0 ELSE 1)
      /\ s[3] = (IF convLive' THEN 1 ELSE 0) /\ t[3] = (IF convLive THEN 1 ELSE 0)
      /\ Len(t) = 3
  BY DEF RequestRank
<1> HIDE DEF s, t
<1>l. ASSUME \E k \in 1 .. 3 : s[k] < t[k] /\ \A m \in 1 .. (k - 1) : s[m] = t[m]
      PROVE  LexLess(RequestRank', RequestRank)
  BY <1>l, <1>1 DEF LexLess, s, t
<1>h. ASSUME HandlerStage[hpc'] < HandlerStage[hpc] PROVE LexLess(RequestRank', RequestRank)
  <2>1. s[1] < t[1] /\ \A m \in 1 .. (1 - 1) : s[m] = t[m]
    BY <1>h, <1>1
  <2> QED BY <2>1, <1>l
<1>2. CASE Refuse \/ AcceptChat \/ AcceptDelegate \/ SelectGone \/ SelectRun \/ ReadEnd
  <2>1. HandlerStage[hpc'] < HandlerStage[hpc]
    BY <1>2 DEF Refuse, AcceptChat, AcceptDelegate, SelectGone, SelectRun, ReadEnd, StartRun,
                HandlerReturns, HandlerStage
  <2> QED BY <2>1, <1>h
<1>3. CASE ReadEvent
  <2>1. hpc = "read" /\ UNCHANGED <<pc, iter, parts, calls, convLive>> /\ Take(1)
    BY <1>3 DEF ReadEvent
  <2>2. CASE hpc' = "returned"
    BY <2>1, <2>2, <1>h DEF HandlerStage
  <2>3. CASE hpc' \in {"read", "write"} /\ UNCHANGED ctxDone
    <3>1. RequestRank' = RequestRank
      BY <2>1, <2>3 DEF RequestRank, HandlerStage
    <3>2. 1 \in Level /\ \A j \in Level : ~(j < 1)
      BY LevelFacts DEF Level
    <3>3. /\ Len(ch'[1]) < Len(ch[1])
          /\ Len(ch'[1]) \in Nat /\ Len(ch[1]) \in Nat
      BY <2>1, <3>2, <1>t, TakeFacts, LenProperties DEF TypeOK
    <3>4. EventsLeft(1)' < EventsLeft(1)
      BY <2>1, <3>3 DEF EventsLeft
    <3>5. LevelsDescend
      BY <2>1, <3>2, <3>4, <1>t, LevelDescends
    <3> QED BY <3>1, <3>5
  <2> QED BY <1>3, <2>2, <2>3 DEF ReadEvent, HandlerReturns
<1>6. CASE WriteReturns
  <2>1. hpc = "write" /\ hpc' = "read" /\ UNCHANGED <<pc, ch, iter, parts, calls, ctxDone, convLive>>
    BY <1>6 DEF WriteReturns, levelVars
  <2>2. RequestRank' = RequestRank
    BY <2>1 DEF RequestRank, HandlerStage
  <2>3. 1 \in Level /\ \A j \in Level : ~(j < 1)
    BY LevelFacts DEF Level
  <2>4. Len(ch[1]) \in Nat
    BY <2>3, <1>t, LenProperties DEF TypeOK
  <2>5. EventsLeft(1)' < EventsLeft(1)
    BY <2>1, <2>4 DEF EventsLeft
  <2>6. LevelsDescend
    BY <2>1, <2>3, <2>5, <1>t, LevelDescends
  <2> QED BY <2>2, <2>6
<1>4. CASE ClientLeaves
  <2>1. s[2] < t[2] /\ \A m \in 1 .. (2 - 1) : s[m] = t[m]
    BY <1>4, <1>1 DEF ClientLeaves
  <2> QED BY <2>1, <1>l
<1>5. CASE ConversationExpires
  <2>1. s[3] < t[3] /\ \A m \in 1 .. (3 - 1) : s[m] = t[m]
    BY <1>5, <1>1 DEF ConversationExpires
  <2> QED BY <2>1, <1>l
<1> QED BY <1>2, <1>3, <1>4, <1>5, <1>6 DEF HandlerStep

(* Every step of a request brings it nearer its end, whoever takes it and  *)
(* however deep the chain of delegations is.                               *)
THEOREM EveryStepCounts == Spec => StepsRunOut
<1>1. RunInv /\ RunInv' /\ [Next]_runVars =>
        [\/ LexLess(RequestRank', RequestRank)
         \/ RequestRank' = RequestRank /\ LevelsDescend]_runVars
  <2>1. RunInv' => TypeOK'
    BY DEF RunInv
  <2> QED BY <2>1, RequestDescends, LevelStepDescends DEF Next
<1> QED BY <1>1, RunInvariance, PTL DEF Spec, StepsRunOut

\* The order of StepsRunOut as a relation on the ranks a request can have.
NatLess == OpToRel(<, Nat)
RequestRanks == [1 .. 3 -> Nat]
LevelRanks == [1 .. 5 -> Nat]
RequestOrder == LexProductOrdering(NatLess, Nat, 3)
LevelOrder == LexProductOrdering(NatLess, Nat, 5)
ChainRanks == [1 .. MaxDepth -> LevelRanks]
ChainOrder == LexProductOrdering(LevelOrder, LevelRanks, MaxDepth)

RunRank == <<RequestRank, [i \in 1 .. MaxDepth |-> LevelRank(i)]>>
RunRanks == RequestRanks \X ChainRanks
RunOrder == LexPairOrdering(RequestOrder, ChainOrder, RequestRanks, ChainRanks)
GoesDown == RunRank \in RunRanks /\ RunRank' \in RunRanks /\ <<RunRank', RunRank>> \in RunOrder

LEMMA RunOrderWellFounded == IsWellFoundedOn(RunOrder, RunRanks)
<1>1. IsWellFoundedOn(NatLess, Nat)
  BY NatLessThanWellFounded DEF NatLess
<1>2. IsWellFoundedOn(RequestOrder, RequestRanks)
  BY <1>1, WFLexProductOrdering DEF RequestOrder, RequestRanks
<1>3. IsWellFoundedOn(LevelOrder, LevelRanks)
  BY <1>1, WFLexProductOrdering DEF LevelOrder, LevelRanks
<1>4. IsWellFoundedOn(ChainOrder, ChainRanks)
  <2>1. MaxDepth \in Nat
    BY RunAssumption
  <2> QED BY <1>3, <2>1, WFLexProductOrdering DEF ChainOrder, ChainRanks
<1> QED BY <1>2, <1>4, WFLexPairOrdering DEF RunOrder, RunRanks

LEMMA RunRankType == RunInv => RunRank \in RunRanks
<1> SUFFICES ASSUME RunInv PROVE RunRank \in RunRanks
  OBVIOUS
<1>1. RequestRank \in RequestRanks
  <2>1. HandlerStage[hpc] \in Nat
    BY HandlerStageType DEF RunInv, TypeOK
  <2> QED BY <2>1 DEF RequestRank, RequestRanks
<1>2. ASSUME NEW i \in 1 .. MaxDepth PROVE LevelRank(i) \in LevelRanks
  <2>1. /\ MaxIter - iter[i] \in Nat /\ Stage[pc[i]] \in Nat /\ MaxParts - parts[i] \in Nat
        /\ CallsLeft(i) \in Nat /\ EventsLeft(i) \in Nat
    BY RankComponents DEF RunInv, Level
  <2> QED BY <2>1 DEF LevelRank, LevelRanks
<1> QED BY <1>1, <1>2 DEF RunRank, RunRanks, ChainRanks

LEMMA LessIsLex ==
  ASSUME NEW n \in Nat, NEW s \in [1 .. n -> Nat], NEW t \in [1 .. n -> Nat], Len(t) = n,
         LexLess(s, t)
  PROVE  <<s, t>> \in LexProductOrdering(NatLess, Nat, n)
<1>1. PICK k \in 1 .. n : s[k] < t[k] /\ \A m \in 1 .. (k - 1) : s[m] = t[m]
  BY DEF LexLess
<1>2. <<s[k], t[k]>> \in NatLess
  BY <1>1 DEF NatLess, OpToRel
<1> QED BY <1>1, <1>2 DEF LexProductOrdering

LEMMA StepsInOrder ==
  ASSUME RunRank \in RunRanks, RunRank' \in RunRanks,
         \/ LexLess(RequestRank', RequestRank)
         \/ RequestRank' = RequestRank /\ LevelsDescend
  PROVE  <<RunRank', RunRank>> \in RunOrder
<1> DEFINE c == [i \in 1 .. MaxDepth |-> LevelRank(i)]
           d == [i \in 1 .. MaxDepth |-> LevelRank(i)']
<1>1. /\ RequestRank \in RequestRanks /\ RequestRank' \in RequestRanks
      /\ c \in ChainRanks /\ d \in ChainRanks
      /\ RunRank = <<RequestRank, c>> /\ RunRank' = <<RequestRank', d>>
  BY DEF RunRank, RunRanks
<1>2. CASE LexLess(RequestRank', RequestRank)
  <2>1. Len(RequestRank) = 3
    BY DEF RequestRank
  <2>2. <<RequestRank', RequestRank>> \in RequestOrder
    BY <1>1, <1>2, <2>1, LessIsLex DEF RequestOrder, RequestRanks
  <2> QED BY <1>1, <2>2 DEF RunOrder, LexPairOrdering
<1>3. CASE RequestRank' = RequestRank /\ LevelsDescend
  <2>1. PICK i \in 1 .. MaxDepth :
               /\ LexLess(LevelRank(i)', LevelRank(i))
               /\ \A j \in 1 .. (i - 1) : LevelRank(j)' = LevelRank(j)
    BY <1>3 DEF LevelsDescend, Level
  <2>2. /\ c[i] \in LevelRanks /\ d[i] \in LevelRanks
        /\ c[i] = LevelRank(i) /\ d[i] = LevelRank(i)'
        /\ \A j \in 1 .. (i - 1) : d[j] = c[j]
    BY <1>1, <2>1, RunAssumption DEF ChainRanks
  <2>3. Len(LevelRank(i)) = 5
    BY DEF LevelRank
  <2>4. <<d[i], c[i]>> \in LevelOrder
    BY <2>1, <2>2, <2>3, LessIsLex DEF LevelOrder, LevelRanks
  <2>5. <<d, c>> \in ChainOrder
    BY <1>1, <2>2, <2>4 DEF ChainOrder, ChainRanks, LexProductOrdering
  <2> QED BY <1>1, <1>3, <2>5 DEF RunOrder, LexPairOrdering
<1> QED BY <1>2, <1>3

(* The steps of a request run out: each of them goes down in an order in   *)
(* which nothing goes down for ever.  No fairness is assumed, and none of  *)
(* the bounds is fixed.                                                    *)
THEOREM RequestsAreFinite ==
  /\ IsWellFoundedOn(RunOrder, RunRanks)
  /\ Spec => [][GoesDown]_runVars
<1> DEFINE Ranked == RunRank \in RunRanks
           Descends == \/ LexLess(RequestRank', RequestRank)
                       \/ RequestRank' = RequestRank /\ LevelsDescend
<1>1. Spec => []Ranked
  BY RunRankType, RunInvariance, PTL
<1>2. Spec => [][Descends]_runVars
  BY EveryStepCounts DEF StepsRunOut
<1>3. Ranked /\ Ranked' /\ [Descends]_runVars
        => [GoesDown]_runVars
  BY StepsInOrder DEF GoesDown
<1>4. Spec => [][GoesDown]_runVars
  BY <1>1, <1>2, <1>3, PTL
<1> QED BY <1>4, RunOrderWellFounded
=============================================================================
