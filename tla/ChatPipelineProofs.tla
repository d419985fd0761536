------------------------- MODULE ChatPipelineProofs -------------------------
(***************************************************************************)
(* Proofs about ChatPipeline, for every capacity of the two channels,      *)
(* every bound on the reasoning loop, every length of the model's answers  *)
(* and both providers.                                                     *)
(***************************************************************************)
EXTENDS ChatPipeline, SequenceTheorems, FiniteSetTheorems, WellFoundedInduction, TLAPS

(***************************************************************************)
(* Facts about a FIFO channel seen together with what was already taken    *)
(* from it, or with what is still to be put on it: the concatenation of    *)
(* the two sequences.                                                      *)
(***************************************************************************)
(* Moving the head of a channel to the end of what was taken from it keeps *)
(* their concatenation: a receive loses and reorders nothing.              *)
LEMMA TakeKeepsConcat ==
  ASSUME NEW S, NEW s \in Seq(S), NEW t \in Seq(S), t # << >>
  PROVE  Append(s, Head(t)) \o Tail(t) = s \o t
<1>1. Head(t) = t[1] /\ t[1] \in S /\ Tail(t) \in Seq(S) /\ Len(Tail(t)) = Len(t) - 1
  BY HeadTailProperties, SMT
<1>2. \A i \in 1 .. Len(t) - 1 : Tail(t)[i] = t[i+1]
  BY <1>1, HeadTailProperties
<1>3. Append(s, Head(t)) \in Seq(S) /\ Len(Append(s, Head(t))) = Len(s) + 1
      /\ (\A i \in 1 .. Len(s) : Append(s, Head(t))[i] = s[i])
      /\ Append(s, Head(t))[Len(s) + 1] = t[1]
  BY <1>1, AppendProperties
<1> DEFINE u == Append(s, Head(t)) \o Tail(t)
<1> DEFINE a == Append(s, Head(t))
<1>4. /\ u \in Seq(S) /\ Len(u) = Len(a) + Len(Tail(t))
      /\ \A i \in 1 .. Len(a) + Len(Tail(t)) :
           u[i] = IF i <= Len(a) THEN a[i] ELSE Tail(t)[i - Len(a)]
  BY <1>1, <1>3, ConcatProperties
<1>5. /\ s \o t \in Seq(S) /\ Len(s \o t) = Len(s) + Len(t)
      /\ \A i \in 1 .. Len(s) + Len(t) :
           (s \o t)[i] = IF i <= Len(s) THEN s[i] ELSE t[i - Len(s)]
  BY ConcatProperties
<1>6. Len(s) \in Nat /\ Len(t) \in Nat \ {0}
  BY EmptySeq, LenProperties
<1> HIDE DEF u, a
<1>7. Len(u) = Len(s \o t)
  BY <1>1, <1>3, <1>4, <1>5, <1>6 DEF a
<1>8. \A i \in 1 .. Len(u) : u[i] = (s \o t)[i]
  <2> SUFFICES ASSUME NEW i \in 1 .. Len(u) PROVE u[i] = (s \o t)[i]
    OBVIOUS
  <2>1. i \in 1 .. Len(s) + Len(t)
    BY <1>5, <1>7
  <2>2. CASE i <= Len(s)
    BY <2>1, <2>2, <1>1, <1>3, <1>4, <1>5, <1>6 DEF a
  <2>3. CASE i = Len(s) + 1
    BY <2>1, <2>3, <1>1, <1>3, <1>4, <1>5, <1>6 DEF a
  <2>4. CASE i > Len(s) + 1
    <3>1. u[i] = Tail(t)[i - (Len(s) + 1)]
      BY <2>1, <2>4, <1>1, <1>3, <1>4, <1>6 DEF a
    <3>2. i - (Len(s) + 1) \in 1 .. Len(t) - 1 /\ i - (Len(s) + 1) + 1 = i - Len(s)
      BY <2>1, <2>4, <1>6
    <3> QED BY <3>1, <3>2, <1>2, <1>5, <2>1, <2>4, <1>6
  <2> QED BY <2>1, <2>2, <2>3, <2>4, <1>6
<1> QED BY <1>4, <1>5, <1>7, <1>8, SeqEqual DEF u

(* Putting an element on the channel appends it to the concatenation. *)
LEMMA PutExtendsConcat ==
  ASSUME NEW S, NEW s \in Seq(S), NEW t \in Seq(S), NEW e \in S
  PROVE  s \o Append(t, e) = Append(s \o t, e)
<1>1. s \o t \in Seq(S) /\ <<e>> \in Seq(S)
  BY ConcatProperties
<1>2. Append(t, e) = t \o <<e>> /\ Append(s \o t, e) = (s \o t) \o <<e>>
  BY <1>1, AppendIsConcat
<1> QED BY <1>1, <1>2, ConcatAssociative

(* Taking the head of the first part takes the head of the whole. *)
LEMMA TakeShiftsConcat ==
  ASSUME NEW S, NEW s \in Seq(S), NEW t \in Seq(S), s # << >>
  PROVE  /\ s \o t # << >>
         /\ Head(s) = (s \o t)[1]
         /\ Len(Tail(s) \o t) = Len(s \o t) - 1
         /\ \A i \in 1 .. Len(s \o t) - 1 : (Tail(s) \o t)[i] = (s \o t)[i+1]
<1>1. Len(s) \in Nat \ {0} /\ Len(t) \in Nat
  BY EmptySeq, LenProperties
<1>2. Tail(s) \in Seq(S) /\ Len(Tail(s)) = Len(s) - 1 /\ Head(s) = s[1]
      /\ \A i \in 1 .. Len(s) - 1 : Tail(s)[i] = s[i+1]
  BY HeadTailProperties, SMT
<1>3. /\ Len(s \o t) = Len(s) + Len(t)
      /\ \A i \in 1 .. Len(s) + Len(t) :
           (s \o t)[i] = IF i <= Len(s) THEN s[i] ELSE t[i - Len(s)]
  BY ConcatProperties
<1>4. /\ Len(Tail(s) \o t) = Len(s) - 1 + Len(t)
      /\ \A i \in 1 .. Len(s) - 1 + Len(t) :
           (Tail(s) \o t)[i] = IF i <= Len(s) - 1 THEN s[i+1] ELSE t[i - (Len(s) - 1)]
  BY <1>1, <1>2, ConcatProperties
<1>5. \A i \in 1 .. Len(s \o t) - 1 : (Tail(s) \o t)[i] = (s \o t)[i+1]
  <2> SUFFICES ASSUME NEW i \in 1 .. Len(s) + Len(t) - 1
               PROVE (Tail(s) \o t)[i] = (s \o t)[i+1]
    BY <1>1, <1>3
  <2>1. i + 1 \in 1 .. Len(s) + Len(t) /\ i \in 1 .. Len(s) - 1 + Len(t)
    BY <1>1
  <2>2. CASE i <= Len(s) - 1
    BY <2>1, <2>2, <1>1, <1>3, <1>4
  <2>3. CASE i > Len(s) - 1
    <3>1. i + 1 - Len(s) = i - (Len(s) - 1)
      BY <1>1
    <3> QED BY <2>1, <2>3, <3>1, <1>1, <1>3, <1>4
  <2> QED BY <2>2, <2>3, <1>1
<1> QED BY <1>1, <1>2, <1>3, <1>4, <1>5

USE DEF Part, Done, Terminal, StreamEvent, EventName, SSEvent, NoEvent

(***************************************************************************)
(* Typing.                                                                 *)
(***************************************************************************)
\* The Boolean variables: typed in steps of their own.
FlagsOK ==
  /\ ctxDone \in BOOLEAN /\ streamClosed \in BOOLEAN
  /\ hasToolCalls \in BOOLEAN /\ eventClosed \in BOOLEAN
  /\ clientGone \in BOOLEAN /\ dbFailed \in BOOLEAN

LEMMA TypeInit == Init => TypeOK
<1>1. \A S : << >> \in Seq(S)
  BY EmptySeq
<1> SUFFICES ASSUME Init PROVE TypeOK
  OBVIOUS
<1>2. FlagsOK
  BY DEF FlagsOK, Init, ProviderInit
<1>3. ProviderTypeOK
  <2>1. ppc \in PPC /\ produced \in 0 .. MaxParts
    BY MaxPartsAssumption DEF Init, ProviderInit, PPC
  <2>2. metered \in Nat /\ provider \in {"gemini", "grok"}
    BY DEF Init, ProviderInit
  <2> QED BY <1>1, <1>2, <2>1, <2>2 DEF FlagsOK, Init, ProviderInit, ProviderTypeOK
<1>4. /\ wpc \in WPC /\ hpc \in HPC /\ round \in Nat
      /\ content \in Nat /\ fullResponse \in Nat /\ usage \in Nat
  BY DEF Init, WPC, HPC
<1> QED BY <1>1, <1>2, <1>3, <1>4 DEF Init, TypeOK, FlagsOK

(* A line of the body yields one or two parts. *)
LEMMA LinesType == \A line \in Lines : line \in Seq(Part) /\ Len(line) \in {1, 2}
<1>1. \A p \in Part : <<p>> \in Seq(Part) /\ Len(<<p>>) = 1
  OBVIOUS
<1>2. \A p, q \in Part : <<p, q>> \in Seq(Part) /\ Len(<<p, q>>) = 2
  OBVIOUS
<1> QED BY <1>1, <1>2 DEF Lines

\* What a line carries, or a line without parts.
LEMMA LineOrNone ==
  ASSUME NEW line \in Lines \cup {<< >>}
  PROVE  line \in Seq(StreamEvent) /\ Len(line) \in {0, 1, 2}
<1>1. CASE line \in Lines
  <2>1. line \in Seq(Part) /\ Len(line) \in {1, 2}
    BY <1>1, LinesType
  <2>2. Part \subseteq StreamEvent
    BY DEF StreamEvent
  <2> QED BY <2>1, <2>2, SeqMonotonic
<1>2. CASE line = << >>
  BY <1>2, EmptySeq
<1> QED BY <1>1, <1>2

\* A sequence that loses its head, or gains an element, keeps its type.
LEMMA TakeType ==
  ASSUME NEW S, NEW s \in Seq(S), s # << >>
  PROVE  Head(s) \in S /\ Tail(s) \in Seq(S) /\ s[1] = Head(s)
  BY HeadTailProperties, SMT

\* A sequence of parts ends in a part.
LEMMA LastIsPart ==
  ASSUME NEW s \in Seq(StreamEvent), OnlyParts(s), s # << >>
  PROVE  s[Len(s)] # "done"
<1>1. Len(s) \in 1 .. Len(s)
  BY EmptySeq
<1> QED BY <1>1 DEF OnlyParts

LEMMA PutType ==
  ASSUME NEW S, NEW s \in Seq(S), NEW e \in S
  PROVE  Append(s, e) \in Seq(S)
  OBVIOUS

LEMMA TypeProvider == TypeOK /\ StreamStep => TypeOK'
<1> SUFFICES ASSUME TypeOK, StreamStep PROVE TypeOK'
  OBVIOUS
<1> USE MaxPartsAssumption
  DEF workerVars, eventVars, handlerVars, effectVars, PPC
<1>1. UNCHANGED <<workerVars, eventVars, handlerVars, clientGone, effectVars>>
  BY DEF StreamStep
<1>2. SUFFICES ProviderTypeOK'
  BY <1>1 DEF TypeOK
<1>3. ProviderTypeOK
  BY DEF TypeOK
<1>4. CASE ScanCancelled
  BY <1>3, <1>4 DEF ScanCancelled, FinishWith, ProviderTypeOK
<1>5. CASE ScanParts
  <2>1. PICK line \in Lines : produced + Len(line) <= MaxParts /\ pending' = line
                              /\ produced' = produced + Len(line)
    BY <1>5 DEF ScanParts
  <2>2. line \in Seq(StreamEvent) /\ Len(line) \in {1, 2}
    BY LinesType, SeqMonotonic
  <2> QED BY <1>3, <1>5, <2>1, <2>2 DEF ScanParts, ProviderTypeOK
<1>6. CASE ScanUsage
  <2>1. PICK line \in Lines \cup {<< >>} :
          /\ produced + Len(line) <= MaxParts /\ pending' = Append(line, "done")
          /\ produced' = produced + Len(line)
    BY <1>6 DEF ScanUsage, FinishWith
  <2>2. line \in Seq(StreamEvent) /\ Len(line) \in {0, 1, 2}
    BY LineOrNone
  <2>3. "done" \in StreamEvent /\ Append(line, "done") \in Seq(StreamEvent)
    BY <2>2, PutType
  <2>4. produced' \in 0 .. MaxParts
    BY <1>3, <2>1, <2>2 DEF ProviderTypeOK
  <2>5. metered' \in Nat
    BY <1>3, <1>6 DEF ScanUsage, ProviderTypeOK
  <2> QED BY <1>3, <1>6, <2>1, <2>3, <2>4, <2>5 DEF ScanUsage, FinishWith, ProviderTypeOK
<1>7. CASE EndOfBody
  <2>1. metered' \in Nat
    BY <1>3, <1>7 DEF EndOfBody, ProviderTypeOK
  <2>2. pending' \in Seq(StreamEvent)
    <3>1. PICK e \in Done : pending' = <<e>>
      BY <1>7 DEF EndOfBody, FinishWith
    <3> QED BY <3>1
  <2> QED BY <1>3, <1>7, <2>1, <2>2 DEF EndOfBody, FinishWith, ProviderTypeOK
<1>9. CASE ProviderSend
  BY <1>3, <1>9 DEF ProviderSend, ProviderTypeOK
<1>10. CASE ProviderReturn
  BY <1>3, <1>10 DEF ProviderReturn, ProviderTypeOK
<1> QED BY <1>4, <1>5, <1>6, <1>7, <1>9, <1>10 DEF StreamStep, ProviderStep

LEMMA InsertType ==
  ASSUME NEW row \in Row, thread \in Seq(Row), Insert(row)
  PROVE  thread' \in Seq(Row)
<1>1. thread' = thread \/ thread' = Append(thread, row)
  BY DEF Insert
<1> QED BY <1>1, PutType

LEMMA TypeWorker == TypeOK /\ WorkerStep => TypeOK'
<1> SUFFICES ASSUME TypeOK, WorkerStep PROVE TypeOK'
  OBVIOUS
<1> USE MaxPartsAssumption
  DEF TypeOK, ProviderTypeOK, providerVars, eventVars, handlerVars, effectVars,
      PPC, WPC, HPC
<1>1. CASE GetProvider
  BY <1>1 DEF GetProvider, Emit
<1>2. CASE LoadHistory
  BY <1>2 DEF LoadHistory, Emit
<1>3. CASE LoopHead
  BY <1>3 DEF LoopHead, Emit
<1>4. CASE CallModel
  <2>1. << >> \in Seq(StreamEvent)
    BY EmptySeq
  <2>2. CASE OpenStream /\ wpc' = "range" /\ round' = round + 1 /\ hasToolCalls' = FALSE
             /\ content' = 0 /\ UNCHANGED out
    <3>1. produced' \in 0 .. MaxParts /\ content' \in Nat /\ round' \in Nat
      <4>1. produced' = 0 /\ content' = 0 /\ round' = round + 1
        BY <2>2, <1>4 DEF OpenStream, CallModel
      <4> QED BY <4>1
    <3>2. ctxDone' \in BOOLEAN /\ streamClosed' \in BOOLEAN
          /\ hasToolCalls' \in BOOLEAN
      BY <1>4, <2>2 DEF CallModel, OpenStream
    <3> QED BY <1>4, <2>1, <2>2, <3>1, <3>2 DEF CallModel, OpenStream
  <2>3. CASE Emit("error") /\ UNCHANGED <<providerVars, round, hasToolCalls, content>>
    BY <1>4, <2>3 DEF CallModel, Emit
  <2> QED BY <1>4, <2>2, <2>3 DEF CallModel
<1>5. CASE RangeEvent
  <2>1. Tail(streamCh) \in Seq(StreamEvent)
    BY <1>5, TakeType DEF RangeEvent
  <2>2. hasToolCalls' \in BOOLEAN
    BY <1>5 DEF RangeEvent
  <2>3. content' \in Nat /\ usage' \in Nat
    <3>1. content' \in {content, content + 1} /\ usage' \in {usage, usage + 1, usage + 0}
      BY <1>5 DEF RangeEvent
    <3> QED BY <3>1
  <2>4. wpc' \in WPC /\ out' \in SSEvent \cup {NoEvent}
    <3>1. \/ wpc' = wpc /\ out' = out
          \/ wpc' = "send" /\ \E name \in EventName : out' = [event |-> name, round |-> round]
      BY <1>5 DEF RangeEvent, Emit
    <3> QED BY <3>1
  <2> QED BY <1>5, <2>1, <2>2, <2>3, <2>4 DEF RangeEvent
<1>6. CASE RangeEnd
  BY <1>6 DEF RangeEnd
<1>7. CASE RunTools
  BY <1>7 DEF RunTools
<1>8. CASE SaveUser
  <2>1. [role |-> "user", tokens |-> 0] \in Row
    BY DEF Row
  <2>2. thread' \in Seq(Row)
    BY <1>8, <2>1, InsertType DEF SaveUser
  <2>3. dbFailed' \in BOOLEAN
    BY <1>8 DEF SaveUser, Insert
  <2> QED BY <1>8, <2>2, <2>3 DEF SaveUser, Emit
<1>9. CASE SaveReply
  <2>1. [role |-> "assistant", tokens |-> fullResponse] \in Row
    BY DEF Row
  <2>2. thread' \in Seq(Row)
    BY <1>9, <2>1, InsertType DEF SaveReply
  <2>3. dbFailed' \in BOOLEAN
    BY <1>9 DEF SaveReply, Insert
  <2> QED BY <1>9, <2>2, <2>3 DEF SaveReply, Emit
<1>10. CASE SendEvent
  BY <1>10 DEF SendEvent
<1>11. CASE Report
  BY <1>11 DEF Report
<1>12. CASE WorkerReturn
  BY <1>12 DEF WorkerReturn
<1> QED BY <1>1, <1>2, <1>3, <1>4, <1>5, <1>6, <1>7, <1>8, <1>9, <1>10, <1>11,
           <1>12 DEF WorkerStep

LEMMA TypeOthers ==
  TypeOK /\ (HandlerStep \/ ClientLeaves \/ Deadline \/ UNCHANGED vars) => TypeOK'
<1> SUFFICES ASSUME TypeOK, HandlerStep \/ ClientLeaves \/ Deadline \/ UNCHANGED vars
             PROVE TypeOK'
  OBVIOUS
<1> USE DEF TypeOK, ProviderTypeOK, providerVars, workerVars, eventVars,
            handlerVars, effectVars, HPC
<1>1. CASE HandlerSelect
  BY <1>1 DEF HandlerSelect
<1>2. CASE HandlerReceive
  <2>1. Head(eventCh) \in SSEvent /\ Tail(eventCh) \in Seq(SSEvent)
    BY <1>2, TakeType DEF HandlerReceive
  <2>2. received' \in Seq(SSEvent) /\ eventCh' \in Seq(SSEvent)
    BY <1>2, <2>1, PutType DEF HandlerReceive
  <2> QED BY <1>2, <2>2 DEF HandlerReceive
<1>3. CASE HandlerEnd
  BY <1>3 DEF HandlerEnd
<1>4. CASE ClientLeaves
  BY <1>4 DEF ClientLeaves
<1>5. CASE Deadline
  BY <1>5 DEF Deadline
<1>6. CASE UNCHANGED vars
  BY <1>6 DEF vars
<1> QED BY <1>1, <1>2, <1>3, <1>4, <1>5, <1>6 DEF HandlerStep

LEMMA TypeStep == TypeOK /\ [Next]_vars => TypeOK'
  BY TypeProvider, TypeWorker, TypeOthers DEF Next

(* Every variable keeps its type: the program counters, the channels of    *)
(* events, the rows inserted.                                              *)
THEOREM TypeCorrect == Spec => []TypeOK
<1>1. Init => TypeOK
  BY TypeInit
<1>2. TypeOK /\ [Next]_vars => TypeOK'
  BY TypeStep
<1> QED BY <1>1, <1>2, PTL DEF Spec

(***************************************************************************)
(* What a stream still holds: StreamInv is inductive.                      *)
(***************************************************************************)
LEMMA ComingType ==
  ASSUME ProviderTypeOK
  PROVE  Coming \in Seq(StreamEvent) /\ Len(Coming) \in Nat
  BY ConcatProperties DEF ProviderTypeOK, Coming

LEMMA AppendTerminal ==
  ASSUME NEW s \in Seq(StreamEvent), OnlyParts(s), NEW e \in Terminal
  PROVE  EndsOnce(Append(s, e)) /\ Append(s, e) # << >>
<1>1. /\ Len(Append(s, e)) = Len(s) + 1 /\ Len(s) \in Nat /\ Append(s, e) # << >>
      /\ \A k \in 1 .. Len(s) : Append(s, e)[k] = s[k]
      /\ Append(s, e)[Len(s) + 1] = e
  BY AppendProperties, LenProperties
<1> QED BY <1>1 DEF EndsOnce, OnlyParts

LEMMA ConcatParts ==
  ASSUME NEW s \in Seq(StreamEvent), NEW t \in Seq(StreamEvent),
         OnlyParts(s), OnlyParts(t)
  PROVE  s \o t \in Seq(StreamEvent) /\ OnlyParts(s \o t)
<1>1. /\ s \o t \in Seq(StreamEvent) /\ Len(s \o t) = Len(s) + Len(t)
      /\ \A k \in 1 .. Len(s) + Len(t) :
           (s \o t)[k] = IF k <= Len(s) THEN s[k] ELSE t[k - Len(s)]
      /\ Len(s) \in Nat /\ Len(t) \in Nat
  BY ConcatProperties, LenProperties
<1>2. ASSUME NEW k \in 1 .. Len(s) + Len(t) PROVE (s \o t)[k] \in Part
  <2>1. CASE k <= Len(s)
    BY <1>1, <2>1 DEF OnlyParts
  <2>2. CASE k > Len(s)
    <3>1. k - Len(s) \in 1 .. Len(t)
      BY <1>1, <2>2
    <3> QED BY <1>1, <2>2, <3>1 DEF OnlyParts
  <2> QED BY <2>1, <2>2, <1>1
<1> QED BY <1>1, <1>2 DEF OnlyParts

LEMMA LinesOnlyParts == \A line \in Lines : OnlyParts(line)
<1> SUFFICES ASSUME NEW line \in Lines, NEW k \in 1 .. Len(line) PROVE line[k] \in Part
  BY DEF OnlyParts
<1> QED BY LinesType, ElementOfSeq

(* The goroutine appends to what is coming, or moves it along. *)
LEMMA StreamInvProvider == ProviderTypeOK /\ StreamInv /\ ProviderStep => StreamInv'
<1> SUFFICES ASSUME ProviderTypeOK, StreamInv, ProviderStep PROVE StreamInv'
  OBVIOUS
<1>1. Coming \in Seq(StreamEvent) /\ streamCh \in Seq(StreamEvent) /\ pending \in Seq(StreamEvent)
  BY ComingType DEF ProviderTypeOK
<1>2. ASSUME ppc = "scan", streamCh' = streamCh, streamClosed' = streamClosed,
             ppc' = "last",
             NEW e \in Terminal, pending' = <<e>>
      PROVE  StreamInv'
  <2>1. pending = << >> /\ OnlyParts(Coming) /\ ~streamClosed
    BY <1>2 DEF StreamInv
  <2>2. Coming = streamCh
    BY <2>1, <1>1, ConcatEmptySeq DEF Coming
  <2>3. Coming' = Append(streamCh, e)
    BY <1>1, <1>2, AppendIsConcat DEF Coming
  <2>4. EndsOnce(Coming')
    BY <1>1, <2>1, <2>2, <2>3, AppendTerminal
  <2>5. EndsOnce(Coming)'
    BY <2>4 DEF EndsOnce
  <2> QED BY <1>2, <2>1, <2>5 DEF StreamInv
<1>3. CASE ScanCancelled
  BY <1>2, <1>3 DEF ScanCancelled, FinishWith
<1>4. CASE EndOfBody
  BY <1>2, <1>4 DEF EndOfBody, FinishWith
<1>6. CASE ScanParts
  <2>1. pending = << >> /\ OnlyParts(Coming) /\ ~streamClosed
    BY <1>6 DEF StreamInv, ScanParts
  <2>2. Coming = streamCh
    BY <2>1, <1>1, ConcatEmptySeq DEF Coming
  <2>3. pending' \in Lines /\ streamCh' = streamCh /\ ppc' = "send" /\ streamClosed' = streamClosed
    BY <1>6 DEF ScanParts
  <2>4. pending' \in Seq(StreamEvent) /\ OnlyParts(pending') /\ pending' # << >>
    <3>1. pending' \in Seq(Part) /\ Len(pending') \in {1, 2}
      BY <2>3, LinesType
    <3> QED BY <2>3, <3>1, LinesOnlyParts, SeqMonotonic, EmptySeq
  <2>5. OnlyParts(Coming')
    BY <1>1, <2>1, <2>2, <2>3, <2>4, ConcatParts DEF Coming
  <2>6. OnlyParts(Coming)'
    BY <2>5 DEF OnlyParts
  <2> QED BY <2>1, <2>3, <2>4, <2>6 DEF StreamInv
<1>7. CASE ScanUsage
  <2>1. pending = << >> /\ OnlyParts(Coming) /\ ~streamClosed
    BY <1>7 DEF StreamInv, ScanUsage
  <2>2. Coming = streamCh
    BY <2>1, <1>1, ConcatEmptySeq DEF Coming
  <2>3. PICK line \in Lines \cup {<< >>} : pending' = Append(line, "done")
    BY <1>7 DEF ScanUsage, FinishWith
  <2>4. streamCh' = streamCh /\ ppc' = "last" /\ streamClosed' = streamClosed
    BY <1>7 DEF ScanUsage, FinishWith
  <2>5. line \in Seq(StreamEvent) /\ OnlyParts(line)
    <3>1. CASE line \in Lines
      BY <3>1, LinesType, LinesOnlyParts, SeqMonotonic
    <3>2. CASE line = << >>
      BY <3>2, EmptySeq DEF OnlyParts
    <3> QED BY <3>1, <3>2
  <2>6. streamCh \o line \in Seq(StreamEvent) /\ OnlyParts(streamCh \o line)
    BY <1>1, <2>1, <2>2, <2>5, ConcatParts
  <2>7. Coming' = Append(streamCh \o line, "done")
    BY <1>1, <2>3, <2>4, <2>5, PutExtendsConcat DEF Coming
  <2>8. EndsOnce(Coming')
    BY <2>6, <2>7, AppendTerminal
  <2>9. EndsOnce(Coming)'
    BY <2>8 DEF EndsOnce
  <2> QED BY <2>1, <2>4, <2>9 DEF StreamInv
<1>8. CASE ProviderSend
  <2>1. Coming' = Coming
    BY <1>1, <1>8, TakeKeepsConcat DEF Coming, ProviderSend
  <2>2. /\ ppc \in {"send", "last"} /\ streamClosed' = streamClosed /\ pending # << >>
        /\ pending' = Tail(pending)
        /\ ppc' = IF ppc = "send" /\ Tail(pending) = << >> THEN "scan" ELSE ppc
    BY <1>8 DEF ProviderSend
  <2>3. (OnlyParts(Coming) => OnlyParts(Coming)') /\ (EndsOnce(Coming) => EndsOnce(Coming)')
    BY <2>1 DEF OnlyParts, EndsOnce
  <2> QED BY <2>1, <2>2, <2>3 DEF StreamInv
<1>9. CASE ProviderReturn
  <2>1. Coming' = Coming
    BY <1>9 DEF ProviderReturn, Coming
  <2>2. EndsOnce(Coming) => EndsOnce(Coming)'
    BY <2>1 DEF EndsOnce
  <2> QED BY <1>9, <2>1, <2>2 DEF StreamInv, ProviderReturn
<1> QED BY <1>3, <1>4, <1>6, <1>7, <1>8, <1>9 DEF ProviderStep

(* The worker opens a fresh stream, or takes the head of what is coming. *)
LEMMA RangeTakesHead ==
  ASSUME ProviderTypeOK, RangeEvent
  PROVE  /\ Coming # << >> /\ Len(Coming) \in Nat \ {0} /\ Len(Coming') = Len(Coming) - 1
         /\ Coming' \in Seq(StreamEvent)
         /\ Head(streamCh) = Coming[1] /\ Coming[1] \in StreamEvent
         /\ \A k \in 1 .. Len(Coming) - 1 : Coming'[k] = Coming[k+1]
<1>1. Coming \in Seq(StreamEvent) /\ streamCh \in Seq(StreamEvent) /\ pending \in Seq(StreamEvent)
  BY ComingType DEF ProviderTypeOK
<1>2. streamCh # << >> /\ streamCh' = Tail(streamCh) /\ pending' = pending
  BY DEF RangeEvent
<1>3. Coming' = Tail(streamCh) \o pending /\ Tail(streamCh) \in Seq(StreamEvent)
  BY <1>1, <1>2, TakeType DEF Coming
<1>4. Coming # << >> /\ Len(Coming) \in Nat \ {0}
  BY <1>1, <1>2, TakeShiftsConcat, EmptySeq DEF Coming
<1>5. Head(streamCh) = Coming[1] /\ Len(Coming') = Len(Coming) - 1
      /\ \A k \in 1 .. Len(Coming) - 1 : Coming'[k] = Coming[k+1]
  BY <1>1, <1>2, <1>3, TakeShiftsConcat DEF Coming
<1>6. Coming[1] \in StreamEvent
  BY <1>1, <1>4, ElementOfSeq
<1> QED BY <1>1, <1>3, <1>4, <1>5, <1>6, ConcatProperties

LEMMA StreamInvRange == ProviderTypeOK /\ StreamInv /\ RangeEvent => StreamInv'
<1> SUFFICES ASSUME ProviderTypeOK, StreamInv, RangeEvent PROVE StreamInv'
  OBVIOUS
<1>1. UNCHANGED <<ppc, pending, streamClosed>>
  BY DEF RangeEvent
<1>2. ppc # "idle"
  BY RangeTakesHead DEF StreamInv
<1>3. OnlyParts(Coming) => OnlyParts(Coming)'
  BY RangeTakesHead DEF OnlyParts
<1>4. EndsOnce(Coming) => EndsOnce(Coming)'
  BY RangeTakesHead DEF EndsOnce
<1> QED BY <1>1, <1>2, <1>3, <1>4 DEF StreamInv

LEMMA StreamInvOpen == OpenStream => StreamInv'
<1> SUFFICES ASSUME OpenStream PROVE StreamInv'
  OBVIOUS
<1>1. Coming' = << >>
  BY EmptySeq, ConcatEmptySeq DEF OpenStream, Coming
<1>2. OnlyParts(Coming)'
  BY <1>1 DEF OnlyParts
<1> QED BY <1>1, <1>2 DEF OpenStream, StreamInv

LEMMA StreamInvUnchanged == StreamInv /\ UNCHANGED providerVars => StreamInv'
<1> SUFFICES ASSUME StreamInv, UNCHANGED providerVars PROVE StreamInv'
  OBVIOUS
<1>1. Coming' = Coming
  BY DEF providerVars, Coming
<1>2. (OnlyParts(Coming) => OnlyParts(Coming)') /\ (EndsOnce(Coming) => EndsOnce(Coming)')
  BY <1>1 DEF OnlyParts, EndsOnce
<1> QED BY <1>1, <1>2 DEF StreamInv, providerVars

\* Every action but those of the provider, CallModel and RangeEvent.
LEMMA ProviderUntouched ==
  ASSUME WorkerStep \/ HandlerStep \/ ClientLeaves \/ Deadline \/ UNCHANGED vars,
         ~RangeEvent, ~(CallModel /\ OpenStream)
  PROVE  UNCHANGED providerVars
  BY DEF WorkerStep, HandlerStep, GetProvider, LoadHistory, LoopHead, CallModel,
         RangeEnd, RunTools, SaveUser, SaveReply, SendEvent, Report, WorkerReturn,
         HandlerSelect, HandlerReceive, HandlerEnd, ClientLeaves, Deadline, vars

LEMMA StreamInvInit == Init => StreamInv
<1> SUFFICES ASSUME Init PROVE StreamInv
  OBVIOUS
<1>1. ppc = "idle" /\ pending = << >> /\ streamCh = << >> /\ streamClosed = FALSE
  BY DEF Init, ProviderInit
<1>2. Coming = << >>
  BY <1>1, EmptySeq, ConcatEmptySeq DEF Coming
<1> QED BY <1>1, <1>2 DEF StreamInv

LEMMA StreamInvStep == TypeOK /\ StreamInv /\ [Next]_vars => StreamInv'
<1> SUFFICES ASSUME TypeOK, StreamInv, [Next]_vars PROVE StreamInv'
  OBVIOUS
<1>1. ProviderTypeOK
  BY DEF TypeOK
<1>2. CASE StreamStep
  BY <1>1, <1>2, StreamInvProvider DEF StreamStep
<1>3. CASE RangeEvent
  BY <1>1, <1>3, StreamInvRange
<1>4. CASE CallModel /\ OpenStream
  BY <1>4, StreamInvOpen
<1>5. CASE ~StreamStep /\ ~RangeEvent /\ ~(CallModel /\ OpenStream)
  BY <1>5, ProviderUntouched, StreamInvUnchanged DEF Next
<1> QED BY <1>2, <1>3, <1>4, <1>5

(***************************************************************************)
(* What the worker has consumed: ConsumeInv is inductive.                  *)
(***************************************************************************)
\* Only the worker opens streams and takes terminal events from them.
LEMMA ProviderKeepsTaken ==
  ASSUME TypeOK, StreamInv, ProviderStep
  PROVE  ppc # "idle" /\ ppc' # "idle" /\ (TerminalTaken' <=> TerminalTaken)
<1>1. Coming \in Seq(StreamEvent) /\ streamCh \in Seq(StreamEvent) /\ pending \in Seq(StreamEvent)
  BY ComingType DEF TypeOK, ProviderTypeOK
<1>2. ASSUME ppc = "scan", ppc' = "last", NEW s \in Seq(StreamEvent), NEW e \in StreamEvent,
             pending' = Append(s, e), streamCh' = streamCh
      PROVE  ~TerminalTaken /\ ~TerminalTaken'
  <2>1. Coming' = Append(streamCh \o s, e) /\ streamCh \o s \in Seq(StreamEvent)
    BY <1>1, <1>2, PutExtendsConcat, ConcatProperties DEF Coming
  <2>2. Coming' # << >>
    BY <2>1, AppendProperties
  <2> QED BY <1>2, <2>2 DEF TerminalTaken
<1>3. ASSUME NEW e \in StreamEvent PROVE <<e>> = Append(<< >>, e) /\ << >> \in Seq(StreamEvent)
  BY EmptySeq
<1>4. CASE ScanCancelled \/ EndOfBody
  <2>1. /\ ppc = "scan" /\ ppc' = "last" /\ streamCh' = streamCh
        /\ \E e \in Terminal : pending' = <<e>>
    BY <1>4 DEF ScanCancelled, EndOfBody, FinishWith
  <2> QED BY <2>1, <1>2, <1>3
<1>5. CASE ScanParts
  BY <1>5 DEF ScanParts, TerminalTaken
<1>6. CASE ScanUsage
  <2>1. PICK line \in Lines \cup {<< >>} : pending' = Append(line, "done")
    BY <1>6 DEF ScanUsage, FinishWith
  <2>2. line \in Seq(StreamEvent)
    BY LineOrNone
  <2>3. ppc = "scan" /\ ppc' = "last" /\ streamCh' = streamCh
    BY <1>6 DEF ScanUsage, FinishWith
  <2> QED BY <2>1, <2>2, <2>3, <1>2
<1>7. CASE ProviderSend
  <2>1. Coming' = Coming
    BY <1>1, <1>7, TakeKeepsConcat DEF Coming, ProviderSend
  <2>2. Coming # << >>
    BY <1>1, <1>7, ConcatProperties, ConcatSimplifications DEF Coming, ProviderSend
  <2> QED BY <1>7, <2>1, <2>2 DEF ProviderSend, TerminalTaken
<1>8. CASE ProviderReturn
  <2>1. Coming' = Coming
    BY <1>8 DEF ProviderReturn, Coming
  <2> QED BY <1>8, <2>1 DEF ProviderReturn, TerminalTaken
<1> QED BY <1>4, <1>5, <1>6, <1>7, <1>8 DEF ProviderStep

LEMMA ConsumeInvInit == Init => ConsumeInv
  BY MaxIterAssumption DEF Init, ProviderInit, ConsumeInv, BetweenStreams, Sending

LEMMA ConsumeInvProvider == TypeOK /\ StreamInv /\ ConsumeInv /\ StreamStep => ConsumeInv'
<1> SUFFICES ASSUME TypeOK, StreamInv, ConsumeInv, StreamStep PROVE ConsumeInv'
  OBVIOUS
<1>1. ppc # "idle" /\ ppc' # "idle" /\ (TerminalTaken' <=> TerminalTaken)
  BY ProviderKeepsTaken DEF StreamStep
<1>2. UNCHANGED <<wpc, out, round>>
  BY DEF StreamStep, workerVars
<1> QED BY <1>1, <1>2 DEF ConsumeInv, BetweenStreams, Sending

\* The steps of the worker, with what each does to the variables that matter.
LEMMA ConsumeInvWorker == TypeOK /\ StreamInv /\ ConsumeInv /\ WorkerStep => ConsumeInv'
<1> SUFFICES ASSUME TypeOK, StreamInv, ConsumeInv, WorkerStep PROVE ConsumeInv'
  OBVIOUS
<1> USE DEF ConsumeInv, BetweenStreams, Sending
<1>t. round \in Nat /\ wpc \in WPC /\ out \in SSEvent \cup {NoEvent}
  BY DEF TypeOK
<1>0. ASSUME UNCHANGED providerVars
      PROVE  ppc' = ppc /\ (TerminalTaken' <=> TerminalTaken)
  BY <1>0 DEF providerVars, TerminalTaken, Coming
<1>1. CASE GetProvider
  BY <1>0, <1>1, <1>t DEF GetProvider, Emit
<1>2. CASE LoadHistory
  BY <1>0, <1>2, <1>t DEF LoadHistory, Emit
<1>3. CASE LoopHead
  BY <1>0, <1>3, <1>t DEF LoopHead, Emit
<1>4. CASE CallModel
  <2>1. CASE OpenStream /\ wpc' = "range" /\ round' = round + 1
    <3>1. ~TerminalTaken' /\ ppc' = "scan"
      BY <2>1 DEF OpenStream, TerminalTaken
    <3>2. wpc = "call"
      BY <1>4 DEF CallModel
    <3> QED BY <1>t, <2>1, <3>1, <3>2, MaxIterAssumption
  <2>2. CASE Emit("error") /\ UNCHANGED <<providerVars, round>>
    <3>1. ppc' = ppc /\ (TerminalTaken' <=> TerminalTaken)
      BY <1>0, <2>2
    <3> QED BY <1>4, <1>t, <2>2, <3>1 DEF CallModel, Emit
  <2> QED BY <1>4, <2>1, <2>2 DEF CallModel
<1>5. CASE RangeEvent
  <2>1. ~TerminalTaken /\ round > 0 /\ ppc' = ppc /\ round' = round /\ ppc # "idle"
    <3>1. Coming # << >>
      BY <1>5, RangeTakesHead DEF TypeOK
    <3> QED BY <1>5, <3>1 DEF RangeEvent, TerminalTaken, StreamInv
  <2>2. CASE Head(streamCh) \in Part
    <3>1. ~TerminalTaken'
      <4>1. SUFFICES ASSUME ppc \in {"last", "ended"}, Coming' = << >> PROVE FALSE
        BY <2>1 DEF TerminalTaken
      <4>2. Len(Coming) = 1 /\ Coming[1] \in Part
        <5>1. Len(Coming') = Len(Coming) - 1 /\ Head(streamCh) = Coming[1] /\ Len(Coming) \in Nat
          BY <1>5, RangeTakesHead DEF TypeOK
        <5> QED BY <5>1, <4>1, <2>2, EmptySeq
      <4> QED BY <4>1, <4>2 DEF StreamInv, EndsOnce
    <3>2. Sending({"token", "status"})'
      BY <1>5, <2>2 DEF RangeEvent, Emit
    <3> QED BY <2>1, <3>1, <3>2, <1>t DEF ConsumeInv
  <2>3. CASE Head(streamCh) \in Terminal
    <3>1. TerminalTaken'
      <4>1. Len(Coming) \in Nat \ {0} /\ Coming[1] \in Terminal /\ Len(Coming') = Len(Coming) - 1
            /\ Coming' \in Seq(StreamEvent)
        BY <1>5, <2>3, RangeTakesHead DEF TypeOK
      <4>2. ppc \in {"last", "ended"}
        <5>1. ppc \in PPC
          BY DEF TypeOK, ProviderTypeOK
        <5>2. ~OnlyParts(Coming)
          BY <4>1 DEF OnlyParts
        <5> QED BY <5>1, <5>2, <2>1 DEF StreamInv, PPC
      <4>3. Len(Coming) = 1
        BY <4>1, <4>2 DEF StreamInv, EndsOnce
      <4>4. Coming' = << >>
        BY <4>1, <4>3, EmptySeq
      <4> QED BY <4>2, <4>4, <2>1 DEF TerminalTaken
    <3>2. wpc' = "range" \/ Sending({"error"})'
      BY <1>5, <2>3 DEF RangeEvent, Emit
    <3>3. wpc' = "range" => out' = out
      BY <1>5, <2>3 DEF RangeEvent, Emit
    <3> QED BY <2>1, <3>1, <3>2, <1>t DEF ConsumeInv
  <2> QED BY <1>5, <2>2, <2>3, RangeTakesHead DEF TypeOK
<1>6. CASE RangeEnd
  <2>1. TerminalTaken
    <3>1. ppc = "ended" /\ pending = << >> /\ streamCh = << >>
      BY <1>6 DEF RangeEnd, StreamInv
    <3> QED BY <3>1, EmptySeq, ConcatEmptySeq DEF TerminalTaken, Coming
  <2>2. wpc' \in {"tools", "saveUser"} /\ UNCHANGED <<providerVars, out, round>>
    BY <1>6 DEF RangeEnd
  <2> QED BY <1>0, <1>6, <1>t, <2>1, <2>2 DEF RangeEnd
<1>7. CASE RunTools
  BY <1>0, <1>7, <1>t DEF RunTools
<1>8. CASE SaveUser
  <2>1. wpc = "saveUser" /\ UNCHANGED <<providerVars, round>>
    BY <1>8 DEF SaveUser
  <2>2. wpc' = "saveReply" \/ Sending({"done"})'
    BY <1>8 DEF SaveUser, Emit
  <2> QED BY <1>0, <1>t, <2>1, <2>2
<1>9. CASE SaveReply
  <2>1. wpc = "saveReply" /\ Sending({"done"})' /\ UNCHANGED <<providerVars, round>>
    BY <1>9 DEF SaveReply, Emit
  <2> QED BY <1>0, <1>t, <2>1
<1>10. CASE SendEvent
  BY <1>0, <1>10, <1>t DEF SendEvent
<1>11. CASE Report
  BY <1>0, <1>11, <1>t DEF Report
<1>12. CASE WorkerReturn
  BY <1>0, <1>12, <1>t DEF WorkerReturn
<1> QED BY <1>1, <1>2, <1>3, <1>4, <1>5, <1>6, <1>7, <1>8, <1>9, <1>10, <1>11,
           <1>12 DEF WorkerStep

LEMMA ConsumeInvOthers ==
  ConsumeInv /\ (HandlerStep \/ ClientLeaves \/ Deadline \/ UNCHANGED vars) => ConsumeInv'
<1> SUFFICES ASSUME ConsumeInv, HandlerStep \/ ClientLeaves \/ Deadline \/ UNCHANGED vars
             PROVE  ConsumeInv'
  OBVIOUS
<1>1. UNCHANGED <<providerVars, workerVars>>
  BY DEF HandlerStep, HandlerSelect, HandlerReceive, HandlerEnd, ClientLeaves, Deadline, vars
<1>2. ppc' = ppc /\ (TerminalTaken' <=> TerminalTaken)
  BY <1>1 DEF providerVars, TerminalTaken, Coming
<1>3. UNCHANGED <<wpc, out, round>>
  BY <1>1 DEF workerVars
<1> QED BY <1>2, <1>3 DEF ConsumeInv, BetweenStreams, Sending

(***************************************************************************)
(* What was announced and stored: OutcomeInv and CloseInv are inductive.   *)
(***************************************************************************)
\* The sequence of events ever sent changes only by SendEvent.
LEMMA EmittedType ==
  ASSUME TypeOK
  PROVE  Emitted \in Seq(SSEvent) /\ Len(Emitted) \in Nat
  BY ConcatProperties DEF TypeOK, Emitted

LEMMA SendExtendsEmitted ==
  ASSUME TypeOK, SendEvent
  PROVE  /\ out \in SSEvent /\ Emitted' = Append(Emitted, out)
         /\ Emitted' # << >> /\ Len(Emitted') = Len(Emitted) + 1
         /\ Emitted'[Len(Emitted) + 1] = out
         /\ \A k \in 1 .. Len(Emitted) : Emitted'[k] = Emitted[k]
<1>1. out \in SSEvent
  BY DEF SendEvent, TypeOK
<1>2. Emitted' = Append(Emitted, out)
  <2>1. eventCh' = Append(eventCh, out) /\ received' = received
    BY DEF SendEvent, handlerVars
  <2>2. received \in Seq(SSEvent) /\ eventCh \in Seq(SSEvent)
    BY DEF TypeOK
  <2> QED BY <1>1, <2>1, <2>2, PutExtendsConcat DEF Emitted
<1> QED BY <1>1, <1>2, EmittedType, AppendProperties

LEMMA ReceiveKeepsEmitted ==
  ASSUME TypeOK, HandlerReceive
  PROVE  Emitted' = Emitted
  BY TakeKeepsConcat DEF HandlerReceive, Emitted, TypeOK

LEMMA OthersKeepEmitted ==
  ASSUME [Next]_vars, ~SendEvent, ~HandlerReceive
  PROVE  Emitted' = Emitted
<1>1. UNCHANGED <<received, eventCh>>
  BY DEF Next, WorkerStep, HandlerStep, GetProvider, LoadHistory, LoopHead, CallModel,
         RangeEvent, RangeEnd, RunTools, SaveUser, SaveReply, Report, WorkerReturn,
         HandlerSelect, HandlerEnd, ClientLeaves, Deadline, vars, StreamStep,
         eventVars, handlerVars
<1> QED BY <1>1 DEF Emitted

LEMMA OutcomeInvInit == Init => OutcomeInv /\ CloseInv
<1> SUFFICES ASSUME Init PROVE OutcomeInv /\ CloseInv
  OBVIOUS
<1>1. Emitted = << >>
  BY EmptySeq, ConcatEmptySeq DEF Init, Emitted
<1>2. CloseInv
  BY DEF Init, CloseInv
<1> QED BY <1>1, <1>2 DEF Init, OutcomeInv, Sending

\* A worker step that sends nothing, stores nothing and reports nothing.
LEMMA OutcomeInvQuiet ==
  ASSUME OutcomeInv, Emitted' = Emitted, UNCHANGED <<thread, traces>>,
         \/ UNCHANGED <<wpc, out>>
         \/ /\ wpc \notin {"send", "report", "return", "exited"}
            /\ thread = << >> \/ wpc = "saveReply"
            /\ \/ /\ wpc' \in {"history", "loop", "call", "range", "tools", "saveUser"}
                  /\ out' = out /\ thread = << >>
               \/ wpc' = "send" /\ out' # NoEvent /\ (thread = << >> \/ out'.event = "done")
  PROVE  OutcomeInv'
  BY DEF OutcomeInv, Sending, IsOutcome

LEMMA OutcomeInvWorker ==
  TypeOK /\ ConsumeInv /\ OutcomeInv /\ WorkerStep => OutcomeInv'
<1> SUFFICES ASSUME TypeOK, ConsumeInv, OutcomeInv, WorkerStep PROVE OutcomeInv'
  OBVIOUS
<1> USE DEF effectVars
<1>e. ASSUME ~SendEvent PROVE Emitted' = Emitted
  <2>1. ~HandlerReceive
    BY DEF WorkerStep, GetProvider, LoadHistory, LoopHead, CallModel, RangeEvent, RangeEnd,
           RunTools, SaveUser, SaveReply, SendEvent, Report, WorkerReturn, HandlerReceive,
           handlerVars
  <2> QED BY <1>e, <2>1, OthersKeepEmitted DEF Next
<1>n. wpc \in WPC /\ out \in SSEvent \cup {NoEvent} /\ round \in Nat
  BY DEF TypeOK
<1>s. \A name \in EventName : [event |-> name, round |-> round] # NoEvent
  OBVIOUS
\* At these positions nothing is stored and nothing is reported.
<1>t. /\ wpc \in {"provider", "history", "loop", "call", "range", "tools", "saveUser"} =>
           thread = << >> /\ traces = << >>
      /\ wpc = "saveReply" => traces = << >>
  BY DEF OutcomeInv, Sending
<1>1. CASE GetProvider
  BY <1>1, <1>e, <1>t, <1>s, OutcomeInvQuiet DEF GetProvider, Emit, SendEvent
<1>2. CASE LoadHistory
  BY <1>2, <1>e, <1>t, <1>s, OutcomeInvQuiet DEF LoadHistory, Emit, SendEvent
<1>3. CASE LoopHead
  BY <1>3, <1>e, <1>t, <1>s, OutcomeInvQuiet DEF LoopHead, Emit, SendEvent
<1>4. CASE CallModel
  BY <1>4, <1>e, <1>t, <1>s, OutcomeInvQuiet DEF CallModel, Emit, SendEvent
<1>5. CASE RangeEvent
  BY <1>5, <1>e, <1>t, <1>s, OutcomeInvQuiet DEF RangeEvent, Emit, SendEvent
<1>6. CASE RangeEnd
  BY <1>6, <1>e, <1>t, OutcomeInvQuiet DEF RangeEnd, SendEvent
<1>7. CASE RunTools
  BY <1>7, <1>e, <1>t, OutcomeInvQuiet DEF RunTools, SendEvent
<1>8. CASE SaveUser \/ SaveReply
  <2>1. /\ Emitted' = Emitted /\ traces' = traces /\ round' = round
        /\ wpc \in {"saveUser", "saveReply"}
    BY <1>8, <1>e DEF SaveUser, SaveReply, SendEvent
  <2>2. traces = << >>
    BY <2>1, <1>t
  <2>3. \/ wpc' = "saveReply" /\ out' = out
        \/ wpc' = "send" /\ out' = [event |-> "done", round |-> round]
    BY <1>8 DEF SaveUser, SaveReply, Emit
  <2>4. wpc' = "saveReply" /\ thread' # << >> => Len(thread') = 1 /\ thread'[1].role = "user"
    <3> SUFFICES ASSUME wpc' = "saveReply", thread' # << >>
                 PROVE  Len(thread') = 1 /\ thread'[1].role = "user"
      OBVIOUS
    <3>1. CASE SaveUser
      <4>1. thread = << >>
        BY <3>1, <1>t DEF SaveUser
      <4>2. thread' = Append(thread, [role |-> "user", tokens |-> 0])
        BY <3>1, <4>1 DEF SaveUser, Insert
      <4> QED BY <4>1, <4>2
    <3>2. CASE SaveReply
      BY <3>2 DEF SaveReply, Emit
    <3> QED BY <3>1, <3>2, <1>8
  <2> QED BY <1>s, <2>1, <2>2, <2>3, <2>4 DEF OutcomeInv, Sending, IsOutcome
<1>9. CASE SendEvent
  <2>1. /\ wpc = "send" /\ out' = NoEvent
        /\ \/ out.event \in {"token", "status"} /\ wpc' = "range"
           \/ out.event = "error" /\ wpc' = "return"
           \/ out.event = "done" /\ wpc' = "report"
        /\ UNCHANGED <<round, thread, traces>>
    BY <1>9 DEF SendEvent
  <2>2. traces = << >> /\ (thread # << >> => out.event = "done")
    BY <2>1 DEF OutcomeInv, Sending
  <2>3. \A k \in 1 .. Len(Emitted) : ~IsOutcome(Emitted[k])
    BY <2>1 DEF OutcomeInv
  <2>4. /\ Emitted' # << >> /\ Len(Emitted)' = Len(Emitted) + 1 /\ Len(Emitted) \in Nat
        /\ Emitted'[Len(Emitted) + 1] = out
        /\ \A k \in 1 .. Len(Emitted) : Emitted'[k] = Emitted[k]
    BY <1>9, SendExtendsEmitted, EmittedType
  <2>5. \A k \in 1 .. Len(Emitted)' : IsOutcome(Emitted[k])' =>
          k = Len(Emitted)' /\ out.event \in {"error", "done"}
    BY <2>3, <2>4 DEF IsOutcome
  <2> QED BY <2>1, <2>2, <2>4, <2>5 DEF OutcomeInv, Sending, IsOutcome
<1>10. CASE Report
  <2>1. wpc = "report" /\ wpc' = "return" /\ traces' = Append(traces, usage)
        /\ UNCHANGED <<out, round, thread>> /\ Emitted' = Emitted
    BY <1>10, <1>e DEF Report, SendEvent
  <2>2. traces = << >>
    BY <2>1 DEF OutcomeInv
  <2>3. Len(traces') = 1
    BY <2>1, <2>2
  <2> QED BY <2>1, <2>3 DEF OutcomeInv, Sending, IsOutcome
<1>11. CASE WorkerReturn
  <2>1. wpc = "return" /\ wpc' = "exited" /\ UNCHANGED <<out, round, thread, traces>>
        /\ Emitted' = Emitted
    BY <1>11, <1>e DEF WorkerReturn, SendEvent
  <2> QED BY <2>1 DEF OutcomeInv, Sending, IsOutcome
<1> QED BY <1>1, <1>2, <1>3, <1>4, <1>5, <1>6, <1>7, <1>8, <1>9, <1>10, <1>11 DEF WorkerStep

LEMMA OutcomeInvOthers ==
  TypeOK /\ OutcomeInv
    /\ (StreamStep \/ HandlerStep \/ ClientLeaves \/ Deadline \/ UNCHANGED vars)
  => OutcomeInv'
<1> SUFFICES ASSUME TypeOK, OutcomeInv,
                    StreamStep \/ HandlerStep \/ ClientLeaves \/ Deadline \/ UNCHANGED vars
             PROVE  OutcomeInv'
  OBVIOUS
<1>1. UNCHANGED <<workerVars, thread, traces>>
  BY DEF StreamStep, HandlerStep, HandlerSelect, HandlerReceive, HandlerEnd, ClientLeaves,
         Deadline, vars, effectVars
<1>2. Emitted' = Emitted
  <2>1. CASE HandlerReceive
    BY <2>1, ReceiveKeepsEmitted
  <2>2. CASE ~HandlerReceive
    <3>1. UNCHANGED <<received, eventCh>>
      BY <2>2 DEF StreamStep, HandlerStep, HandlerSelect, HandlerEnd, ClientLeaves,
                  Deadline, vars, eventVars, handlerVars
    <3> QED BY <3>1 DEF Emitted
  <2> QED BY <2>1, <2>2
<1>3. UNCHANGED <<wpc, out, round, thread, traces>>
  BY <1>1 DEF workerVars
<1> QED BY <1>2, <1>3, OutcomeInvQuiet

(***************************************************************************)
(* The usage told by the streams: UsageInv is inductive.                   *)
(***************************************************************************)
\* The final events of a stream tell whether its usage is coming.
LEMMA FinishTellsUsage ==
  ASSUME ProviderTypeOK, StreamInv, ppc = "scan", streamCh' = streamCh,
         NEW s \in Seq(StreamEvent), NEW e \in StreamEvent, pending' = Append(s, e)
  PROVE  /\ UsageComing = 0
         /\ e = "done" => UsageComing' = 1
         /\ e # "done" => UsageComing' = 0
<1>1. streamCh \in Seq(StreamEvent) /\ pending = << >> /\ OnlyParts(Coming)
  BY DEF ProviderTypeOK, StreamInv
<1>2. Coming \in Seq(StreamEvent) /\ streamCh \o s \in Seq(StreamEvent)
  BY <1>1, ComingType, ConcatProperties DEF ProviderTypeOK
<1>3. UsageComing = 0
  <2>1. CASE Coming = << >>
    BY <2>1 DEF UsageComing
  <2>2. CASE Coming # << >>
    <3>1. Len(Coming) \in 1 .. Len(Coming)
      BY <2>2, <1>2, EmptySeq
    <3> QED BY <3>1, <1>1 DEF OnlyParts, UsageComing
  <2> QED BY <2>1, <2>2
<1>4. Coming' = Append(streamCh \o s, e)
  BY <1>1, PutExtendsConcat DEF Coming
<1>5. Coming' # << >> /\ Coming'[Len(Coming')] = e
  <2> DEFINE q == streamCh \o s
  <2>1. q \in Seq(StreamEvent)
    BY <1>2
  <2>2. Append(q, e) # << >> /\ Append(q, e)[Len(Append(q, e))] = e
    <3> HIDE DEF q
    <3> QED BY <2>1, AppendProperties
  <2> QED BY <1>4, <2>2
<1> QED BY <1>3, <1>5 DEF UsageComing

\* After the report no stream is open any more.
LEMMA ReportedMeansTold ==
  ASSUME StreamInv, ConsumeInv, OutcomeInv, TypeOK, ppc = "scan"
  PROVE  traces = << >>
<1>1. round \in Nat /\ round # 0
  BY DEF ConsumeInv, TypeOK
<1> QED BY <1>1 DEF ConsumeInv, OutcomeInv, TerminalTaken

LEMMA UsageInvProvider ==
  TypeOK /\ StreamInv /\ StreamInv' /\ ConsumeInv /\ OutcomeInv /\ UsageInv /\ StreamStep
    => UsageInv'
<1> SUFFICES ASSUME TypeOK, StreamInv, StreamInv', ConsumeInv, OutcomeInv, UsageInv, StreamStep
             PROVE  UsageInv'
  OBVIOUS
<1> USE DEF UsageInv
<1>1. UNCHANGED <<usage, round, traces>>
  BY DEF StreamStep, workerVars, effectVars
<1>t. /\ streamCh \in Seq(StreamEvent) /\ pending \in Seq(StreamEvent) /\ ProviderTypeOK
      /\ usage \in Nat /\ round \in Nat /\ metered \in Nat
  BY DEF TypeOK, ProviderTypeOK
<1>e. ASSUME NEW e \in StreamEvent PROVE <<e>> = Append(<< >>, e) /\ << >> \in Seq(StreamEvent)
  BY EmptySeq
<1>2. CASE ScanCancelled
  <2>1. UsageComing = 0 /\ UsageComing' = 0
    <3>1. ppc = "scan" /\ streamCh' = streamCh /\ pending' = <<"error">>
      BY <1>2 DEF ScanCancelled, FinishWith
    <3>2. pending' = Append(<< >>, "error") /\ << >> \in Seq(StreamEvent)
      BY <3>1, <1>e
    <3>3. "error" \in StreamEvent /\ "error" # "done"
      OBVIOUS
    <3> QED BY <1>t, <3>1, <3>2, <3>3, FinishTellsUsage
  <2> QED BY <1>1, <1>2, <1>t, <2>1 DEF ScanCancelled, FinishWith
<1>3. CASE ScanParts
  <2>1. ppc = "scan" /\ ppc' = "send" /\ metered' = metered
    BY <1>3 DEF ScanParts
  <2>2. UsageComing = 0
    <3>1. OnlyParts(Coming) /\ Coming \in Seq(StreamEvent)
      BY <2>1, <1>t, ComingType DEF StreamInv
    <3> QED BY <3>1, LastIsPart DEF UsageComing
  <2>3. UsageComing' = 0
    <3>1. Coming' \in Seq(StreamEvent)
      <4>1. TypeOK'
        BY TypeProvider
      <4>2. streamCh' \in Seq(StreamEvent) /\ pending' \in Seq(StreamEvent)
        BY <4>1 DEF TypeOK, ProviderTypeOK
      <4> QED BY <4>2, ConcatProperties DEF Coming
    <3>2. OnlyParts(Coming')
      BY <2>1 DEF StreamInv, OnlyParts
    <3> QED BY <3>1, <3>2, LastIsPart DEF UsageComing
  <2> QED BY <1>1, <1>t, <2>1, <2>2, <2>3
<1>4. CASE ScanUsage
  <2>1. PICK line \in Lines \cup {<< >>} : pending' = Append(line, "done")
    BY <1>4 DEF ScanUsage, FinishWith
  <2>2. line \in Seq(StreamEvent)
    BY LineOrNone
  <2>3. ppc = "scan" /\ ppc' = "last" /\ streamCh' = streamCh /\ metered' = metered + 1
    BY <1>4 DEF ScanUsage, FinishWith
  <2>4. UsageComing = 0 /\ UsageComing' = 1
    BY <1>t, <2>1, <2>2, <2>3, FinishTellsUsage
  <2>5. traces = << >>
    BY <2>3, ReportedMeansTold
  <2> QED BY <1>1, <1>t, <2>3, <2>4, <2>5
<1>5. CASE EndOfBody
  <2>1. ppc = "scan" /\ ppc' = "last" /\ streamCh' = streamCh
    BY <1>5 DEF EndOfBody, FinishWith
  <2>2. traces = << >>
    BY <2>1, ReportedMeansTold
  <2>3. \/ pending' = <<"done">> /\ metered' = metered + 1
        \/ pending' = <<"unmetered">> /\ metered' = metered
    BY <1>5 DEF EndOfBody, FinishWith
  <2>4. CASE pending' = <<"done">> /\ metered' = metered + 1
    <3>1. UsageComing = 0 /\ UsageComing' = 1
      BY <1>t, <1>e, <2>1, <2>4, FinishTellsUsage
    <3> QED BY <1>1, <1>t, <2>1, <2>2, <2>4, <3>1
  <2>5. CASE pending' = <<"unmetered">> /\ metered' = metered
    <3>1. UsageComing = 0 /\ UsageComing' = 0
      <4>1. pending' = Append(<< >>, "unmetered") /\ << >> \in Seq(StreamEvent)
        BY <2>5, <1>e
      <4>2. "unmetered" \in StreamEvent /\ "unmetered" # "done"
        OBVIOUS
      <4> QED BY <1>t, <2>1, <4>1, <4>2, FinishTellsUsage
    <3> QED BY <1>1, <1>t, <2>1, <2>2, <2>5, <3>1
  <2> QED BY <2>3, <2>4, <2>5
<1>6. CASE ProviderSend
  <2>1. Coming' = Coming
    BY <1>t, <1>6, TakeKeepsConcat DEF Coming, ProviderSend
  <2>2. UsageComing' = UsageComing
    BY <2>1 DEF UsageComing
  <2>3. metered' = metered /\ (ppc' \in {"scan", "send"} => ppc \in {"scan", "send"})
    BY <1>6 DEF ProviderSend
  <2> QED BY <1>1, <2>2, <2>3
<1>7. CASE ProviderReturn
  <2>1. UsageComing' = UsageComing /\ metered' = metered /\ ppc' = "ended"
    BY <1>7 DEF ProviderReturn, Coming, UsageComing
  <2> QED BY <1>1, <2>1
<1> QED BY <1>2, <1>3, <1>4, <1>5, <1>6, <1>7 DEF StreamStep, ProviderStep

LEMMA UsageInvTaken ==
  ASSUME TypeOK, StreamInv, ConsumeInv, UsageInv, OutcomeInv, RangeEvent
  PROVE  UsageInv'
<1> USE DEF UsageInv
<1>t. usage \in Nat /\ round \in Nat /\ metered \in Nat /\ Head(streamCh) \in StreamEvent
  BY TakeType DEF TypeOK, ProviderTypeOK, RangeEvent
<1>1. /\ UNCHANGED <<ppc, metered, round, traces>>
      /\ IF Head(streamCh) = "done" THEN usage' = usage + 1 ELSE usage' \in {usage, usage + 0}
  BY DEF RangeEvent, effectVars
<1>2. /\ Coming \in Seq(StreamEvent) /\ Coming' \in Seq(StreamEvent)
      /\ Len(Coming) \in Nat \ {0} /\ Head(streamCh) = Coming[1]
      /\ Len(Coming') = Len(Coming) - 1
      /\ \A k \in 1 .. Len(Coming) - 1 : Coming'[k] = Coming[k + 1]
  BY RangeTakesHead, ComingType DEF TypeOK, ProviderTypeOK
<1>3. CASE Len(Coming) = 1
  <2>1. Coming' = << >> /\ Coming # << >>
    <3>1. Len(Coming') = 0 /\ Len(Coming) # 0
      BY <1>2, <1>3
    <3>2. Coming' = << >>
      BY <1>2, <3>1, EmptySeq
    <3>3. Coming # << >>
      BY <3>1, EmptySeq
    <3> QED BY <3>2, <3>3
  <2>2. UsageComing' = 0 /\ UsageComing = (IF Head(streamCh) = "done" THEN 1 ELSE 0)
    BY <1>2, <1>3, <2>1 DEF UsageComing
  <2> QED BY <1>1, <1>t, <2>2
<1>4. CASE Len(Coming) > 1
  <2>1. Head(streamCh) # "done"
    <3>1. ppc # "idle" /\ ppc \in PPC
      BY <1>2, EmptySeq DEF StreamInv, TypeOK, ProviderTypeOK
    <3>2. 1 \in 1 .. Len(Coming) /\ 1 # Len(Coming)
      BY <1>2, <1>4
    <3> QED BY <1>2, <3>1, <3>2 DEF StreamInv, EndsOnce, OnlyParts, PPC
  <2>2. Coming' # << >> /\ Coming # << >> /\ Coming'[Len(Coming')] = Coming[Len(Coming)]
    <3>1. Len(Coming') \in 1 .. Len(Coming) - 1 /\ Len(Coming') + 1 = Len(Coming)
      BY <1>2, <1>4
    <3> QED BY <1>2, <3>1, EmptySeq
  <2>3. UsageComing' = UsageComing
    BY <2>2 DEF UsageComing
  <2> QED BY <1>1, <1>t, <2>1, <2>3
<1> QED BY <1>2, <1>3, <1>4

LEMMA UsageInvWorker ==
  TypeOK /\ StreamInv /\ ConsumeInv /\ OutcomeInv /\ UsageInv /\ WorkerStep => UsageInv'
<1> SUFFICES ASSUME TypeOK, StreamInv, ConsumeInv, OutcomeInv, UsageInv, WorkerStep
             PROVE  UsageInv'
  OBVIOUS
<1>t. usage \in Nat /\ round \in Nat /\ metered \in Nat
  BY DEF TypeOK, ProviderTypeOK
<1>1. CASE RangeEvent
  BY <1>1, UsageInvTaken
\* Where the worker has no open stream, nothing is coming.
<1>2. ASSUME wpc \in {"call", "report"} PROVE Coming = << >> /\ UsageComing = 0
  <2>1. Coming = << >>
    BY <1>2, <1>t DEF ConsumeInv, BetweenStreams, TerminalTaken, StreamInv
  <2> QED BY <2>1 DEF UsageComing
<1>3. CASE CallModel
  <2>1. CASE OpenStream /\ round' = round + 1
    <3>1. Coming' = << >>
      BY <2>1, EmptySeq, ConcatEmptySeq DEF OpenStream, Coming
    <3>2. UsageComing' = 0 /\ UsageComing = 0
      BY <1>2, <1>3, <3>1 DEF UsageComing, CallModel
    <3>3. UNCHANGED <<usage, metered, traces>>
      BY <1>3, <2>1 DEF CallModel, OpenStream, effectVars
    <3> QED BY <1>t, <2>1, <3>2, <3>3 DEF UsageInv
  <2>2. CASE UNCHANGED <<providerVars, round>>
    <3>1. UNCHANGED <<ppc, metered, Coming, UsageComing, round, usage, traces>>
      BY <1>3, <2>2 DEF CallModel, providerVars, Coming, UsageComing, effectVars
    <3> QED BY <3>1 DEF UsageInv
  <2> QED BY <1>3, <2>1, <2>2 DEF CallModel
<1>4. CASE Report
  <2>1. UNCHANGED <<ppc, metered, Coming, UsageComing, round, usage>>
    BY <1>4 DEF Report, providerVars, Coming, UsageComing
  <2>2. traces = << >> /\ traces' = Append(traces, usage) /\ wpc = "report"
    BY <1>4 DEF Report, OutcomeInv
  <2>3. usage = metered
    BY <2>2, <1>2, <1>t DEF UsageInv
  <2>4. traces'[1] = metered
    BY <2>2, <2>3
  <2> QED BY <2>1, <2>4 DEF UsageInv
<1>5. CASE ~RangeEvent /\ ~CallModel /\ ~Report
  <2>1. UNCHANGED <<providerVars, round, usage, traces>>
    BY <1>5 DEF WorkerStep, GetProvider, LoadHistory, LoopHead, RangeEnd, RunTools, SaveUser,
                SaveReply, SendEvent, WorkerReturn, effectVars
  <2>2. UNCHANGED <<ppc, metered, Coming, UsageComing>>
    BY <2>1 DEF providerVars, Coming, UsageComing
  <2> QED BY <2>1, <2>2 DEF UsageInv
<1> QED BY <1>1, <1>3, <1>4, <1>5

LEMMA UsageInvOthers ==
  UsageInv /\ (HandlerStep \/ ClientLeaves \/ Deadline \/ UNCHANGED vars) => UsageInv'
<1> SUFFICES ASSUME UsageInv, HandlerStep \/ ClientLeaves \/ Deadline \/ UNCHANGED vars
             PROVE  UsageInv'
  OBVIOUS
<1>1. UNCHANGED <<providerVars, workerVars, effectVars>>
  BY DEF HandlerStep, HandlerSelect, HandlerReceive, HandlerEnd, ClientLeaves, Deadline, vars
<1>2. UNCHANGED <<ppc, metered, Coming, UsageComing, round, usage, traces>>
  BY <1>1 DEF providerVars, workerVars, effectVars, Coming, UsageComing
<1> QED BY <1>2 DEF UsageInv

LEMMA CloseInvStep == OutcomeInv /\ CloseInv /\ [Next]_vars => CloseInv'
<1> SUFFICES ASSUME OutcomeInv, CloseInv, [Next]_vars PROVE CloseInv'
  OBVIOUS
<1> USE DEF CloseInv, eventVars, handlerVars, workerVars, effectVars
<1>1. CASE WorkerStep
  BY <1>1 DEF WorkerStep, GetProvider, LoadHistory, LoopHead, CallModel, RangeEvent, RangeEnd,
              RunTools, SaveUser, SaveReply, SendEvent, Report, WorkerReturn, Emit
<1>2. CASE HandlerStep
  BY <1>2 DEF HandlerStep, HandlerSelect, HandlerReceive, HandlerEnd
<1>3. CASE StreamStep \/ ClientLeaves \/ Deadline \/ UNCHANGED vars
  BY <1>3 DEF StreamStep, ClientLeaves, Deadline, vars
<1> QED BY <1>1, <1>2, <1>3 DEF Next

(***************************************************************************)
(* The reply is what was streamed: ReplyInv is inductive.                  *)
(***************************************************************************)
LEMMA EmittedAsFinite ==
  ASSUME TypeOK, NEW name, NEW r
  PROVE  IsFiniteSet(EmittedAs(name, r)) /\ Cardinality(EmittedAs(name, r)) \in Nat
<1>1. Len(Emitted) \in Nat
  BY EmittedType
<1>2. IsFiniteSet(1 .. Len(Emitted))
  BY <1>1, FS_Interval
<1>3. EmittedAs(name, r) \in SUBSET (1 .. Len(Emitted))
  BY DEF EmittedAs
<1>4. IsFiniteSet(EmittedAs(name, r))
  BY <1>2, <1>3, FS_Subset
<1> QED BY <1>4, FS_CardinalityType

LEMMA EmittedAsKept ==
  ASSUME Emitted' = Emitted, round' = round
  PROVE  /\ EmittedAs("status", round)' = EmittedAs("status", round)
         /\ TokensOfRound(round)' = TokensOfRound(round)
  BY DEF EmittedAs, TokensOfRound

LEMMA EmittedAsSend ==
  ASSUME TypeOK, SendEvent, out.round = round
  PROVE  /\ out.event = "token" => TokensOfRound(round)' = TokensOfRound(round) + 1
         /\ out.event # "token" => TokensOfRound(round)' = TokensOfRound(round)
         /\ out.event # "status" => EmittedAs("status", round)' = EmittedAs("status", round)
<1>1. /\ out \in SSEvent /\ Len(Emitted) \in Nat /\ Len(Emitted') = Len(Emitted) + 1
      /\ Emitted'[Len(Emitted) + 1] = out
      /\ \A k \in 1 .. Len(Emitted) : Emitted'[k] = Emitted[k]
      /\ round' = round
  BY SendExtendsEmitted, EmittedType DEF SendEvent
<1>2. out = [event |-> out.event, round |-> round]
  BY <1>1
<1>3. ASSUME NEW name \in EventName
      PROVE  EmittedAs(name, round)' =
               IF out.event = name THEN EmittedAs(name, round) \cup {Len(Emitted) + 1}
                                   ELSE EmittedAs(name, round)
  <2>1. out = [event |-> name, round |-> round] <=> out.event = name
    BY <1>2
  <2>2. 1 .. Len(Emitted') = (1 .. Len(Emitted)) \cup {Len(Emitted) + 1}
    BY <1>1
  <2> QED BY <1>1, <2>1, <2>2 DEF EmittedAs
<1>4. Len(Emitted) + 1 \notin EmittedAs("token", round)
  BY <1>1 DEF EmittedAs
<1>5. IsFiniteSet(EmittedAs("token", round)) /\ Cardinality(EmittedAs("token", round)) \in Nat
  BY EmittedAsFinite
<1>6. CASE out.event = "token"
  <2>1. EmittedAs("token", round)' = EmittedAs("token", round) \cup {Len(Emitted) + 1}
    BY <1>3, <1>6
  <2>2. Cardinality(EmittedAs("token", round) \cup {Len(Emitted) + 1})
          = Cardinality(EmittedAs("token", round)) + 1
    BY <1>4, <1>5, FS_AddElement
  <2> QED BY <1>3, <1>6, <2>1, <2>2 DEF TokensOfRound
<1>7. CASE out.event # "token"
  <2>1. EmittedAs("token", round)' = EmittedAs("token", round)
    BY <1>3, <1>7
  <2> QED BY <1>3, <1>7, <2>1 DEF TokensOfRound
<1> QED BY <1>6, <1>7

LEMMA EmittedAsOpen ==
  ASSUME TypeOK, Emitted' = Emitted, round' = round + 1,
         \A k \in 1 .. Len(Emitted) : Emitted[k].round <= round
  PROVE  EmittedAs("status", round)' = {} /\ TokensOfRound(round)' = 0
<1>1. \A k \in 1 .. Len(Emitted) : Emitted[k].round # round + 1
  BY EmittedType, ElementOfSeq DEF TypeOK
<1>2. \A name \in EventName : EmittedAs(name, round)' = {}
  BY <1>1 DEF EmittedAs
<1>3. EmittedAs("token", round)' = {}
  BY <1>2
<1> QED BY <1>2, <1>3, FS_EmptySet DEF TokensOfRound

LEMMA ReplyInvInit == Init => ReplyInv
<1> SUFFICES ASSUME Init PROVE ReplyInv
  OBVIOUS
<1>1. Emitted = << >> /\ thread = << >> /\ Len(Emitted) = 0 /\ Len(thread) = 0
  BY EmptySeq, ConcatEmptySeq DEF Init, Emitted
<1> QED BY <1>1 DEF Init, ReplyInv, Sending

\* Nothing was sent or stored, and the reply is still to come.
LEMMA ReplyInvQuiet ==
  ASSUME ReplyInv, TypeOK, Emitted' = Emitted, UNCHANGED <<round, thread, fullResponse>>,
         wpc \in {"provider", "history", "loop", "call", "tools"},
         \/ wpc' \in {"history", "loop", "call", "saveUser"}
         \/ wpc' = "send" /\ out' = [event |-> "error", round |-> round]
  PROVE  ReplyInv'
<1>1. fullResponse = 0
  BY DEF ReplyInv, Sending, TypeOK
<1> QED BY <1>1 DEF ReplyInv, Sending

LEMMA ReplyInvSame ==
  ASSUME ReplyInv, Emitted' = Emitted,
         UNCHANGED <<wpc, out, round, content, hasToolCalls, thread, fullResponse>>
  PROVE  ReplyInv'
  BY EmittedAsKept DEF ReplyInv, Sending

LEMMA ReplyInvWorker ==
  TypeOK /\ StreamInv /\ ConsumeInv /\ OutcomeInv /\ ReplyInv /\ WorkerStep => ReplyInv'
<1> SUFFICES ASSUME TypeOK, StreamInv, ConsumeInv, OutcomeInv, ReplyInv, WorkerStep
             PROVE  ReplyInv'
  OBVIOUS
<1> USE DEF effectVars
<1>e. ASSUME ~SendEvent PROVE Emitted' = Emitted
  <2>1. UNCHANGED <<received, eventCh>>
    BY <1>e DEF WorkerStep, GetProvider, LoadHistory, LoopHead, CallModel, RangeEvent, RangeEnd,
                RunTools, SaveUser, SaveReply, Report, WorkerReturn, eventVars, handlerVars
  <2> QED BY <2>1 DEF Emitted
<1>t. fullResponse \in Nat /\ content \in Nat /\ round \in Nat
  BY DEF TypeOK
<1>1. CASE GetProvider
  BY <1>1, <1>e, ReplyInvQuiet DEF GetProvider, Emit, SendEvent
<1>2. CASE LoadHistory
  BY <1>2, <1>e, ReplyInvQuiet DEF LoadHistory, Emit, SendEvent
<1>3. CASE LoopHead
  BY <1>3, <1>e, ReplyInvQuiet DEF LoopHead, Emit, SendEvent
<1>4. CASE CallModel
  <2>1. CASE Emit("error") /\ UNCHANGED <<providerVars, round, hasToolCalls, content>>
    BY <1>4, <2>1, <1>e, ReplyInvQuiet DEF CallModel, Emit, SendEvent
  <2>2. CASE OpenStream /\ wpc' = "range" /\ round' = round + 1 /\ content' = 0 /\ UNCHANGED out
    <3>1. fullResponse = 0
      BY <1>4, <1>t DEF CallModel, ReplyInv, Sending
    <3>2. Emitted' = Emitted /\ UNCHANGED <<thread, fullResponse>>
      BY <1>4, <1>e DEF CallModel, SendEvent
    <3>3. EmittedAs("status", round)' = {} /\ TokensOfRound(round)' = 0
      BY <2>2, <3>2, EmittedAsOpen DEF ReplyInv
    <3>4. \A k \in 1 .. Len(Emitted) : Emitted[k].round <= round + 1
      <4>1. \A k \in 1 .. Len(Emitted) : Emitted[k].round <= round /\ Emitted[k] \in SSEvent
        BY EmittedType, ElementOfSeq DEF ReplyInv
      <4> QED BY <4>1, <1>t
    <3> QED BY <2>2, <3>1, <3>2, <3>3, <3>4 DEF ReplyInv, Sending
  <2> QED BY <1>4, <2>1, <2>2 DEF CallModel
<1>5. CASE RangeEvent
  <2>1. /\ wpc = "range" /\ Emitted' = Emitted /\ UNCHANGED <<round, thread, fullResponse>>
    BY <1>5, <1>e DEF RangeEvent, SendEvent
  <2>2. fullResponse = 0
    BY <2>1, <1>t DEF ReplyInv, Sending
  <2>3. /\ EmittedAs("status", round)' = EmittedAs("status", round)
        /\ TokensOfRound(round)' = TokensOfRound(round)
    BY <2>1, EmittedAsKept
  <2>4. \/ /\ wpc' = "send" /\ out' = [event |-> "token", round |-> round]
           /\ content' = content + 1 /\ hasToolCalls' = hasToolCalls
        \/ /\ wpc' = "send" /\ out' = [event |-> "status", round |-> round]
           /\ content' = content /\ hasToolCalls' = TRUE
        \/ wpc' = "range" /\ out' = out /\ content' = content /\ hasToolCalls' = hasToolCalls
        \/ wpc' = "send" /\ out' = [event |-> "error", round |-> round]
    BY <1>5 DEF RangeEvent, Emit
  <2> QED BY <2>1, <2>2, <2>3, <2>4 DEF ReplyInv, Sending
<1>6. CASE RangeEnd
  <2>1. /\ wpc = "range" /\ Emitted' = Emitted /\ UNCHANGED <<round, thread, out>>
        /\ \/ hasToolCalls /\ wpc' = "tools" /\ fullResponse' = fullResponse
           \/ ~hasToolCalls /\ wpc' = "saveUser" /\ fullResponse' = content
    BY <1>6, <1>e DEF RangeEnd, SendEvent
  <2>2. fullResponse = 0
    BY <2>1, <1>t DEF ReplyInv, Sending
  <2>3. /\ EmittedAs("status", round)' = EmittedAs("status", round)
        /\ TokensOfRound(round)' = TokensOfRound(round)
    BY <2>1, EmittedAsKept
  <2> QED BY <2>1, <2>2, <2>3 DEF ReplyInv, Sending
<1>7. CASE RunTools
  BY <1>7, <1>e, ReplyInvQuiet DEF RunTools, SendEvent
<1>8. CASE SaveUser \/ SaveReply
  <2>1. /\ wpc \in {"saveUser", "saveReply"} /\ Emitted' = Emitted
        /\ UNCHANGED <<round, fullResponse>>
    BY <1>8, <1>e DEF SaveUser, SaveReply, SendEvent
  <2>2. \/ wpc' = "saveReply" /\ out' = out /\ fullResponse > 0
        \/ wpc' = "send" /\ out' = [event |-> "done", round |-> round]
    BY <1>8 DEF SaveUser, SaveReply, Emit
  <2>3. /\ EmittedAs("status", round)' = EmittedAs("status", round)
        /\ TokensOfRound(round)' = TokensOfRound(round)
    BY <2>1, EmittedAsKept
  <2>4. \A k \in 1 .. Len(thread') :
          thread'[k].role = "assistant" => fullResponse > 0 /\ thread'[k].tokens = fullResponse
    <3>1. \A k \in 1 .. Len(thread) :
            thread[k].role = "assistant" => fullResponse > 0 /\ thread[k].tokens = fullResponse
      BY DEF ReplyInv
    <3>2. CASE thread' = thread
      BY <3>1, <3>2
    <3>3. ASSUME NEW row \in Row, thread' = Append(thread, row),
                 row.role = "assistant" => fullResponse > 0 /\ row.tokens = fullResponse
          PROVE  \A k \in 1 .. Len(thread') :
                   thread'[k].role = "assistant" => fullResponse > 0 /\ thread'[k].tokens = fullResponse
      <4>1. thread \in Seq(Row)
        BY DEF TypeOK
      <4>2. /\ Len(thread') = Len(thread) + 1 /\ Len(thread) \in Nat
            /\ thread'[Len(thread) + 1] = row
            /\ \A k \in 1 .. Len(thread) : thread'[k] = thread[k]
        BY <3>3, <4>1, AppendProperties, LenProperties
      <4> QED BY <3>1, <3>3, <4>2
    <3>4. CASE SaveUser
      <4>1. [role |-> "user", tokens |-> 0] \in Row
        BY DEF Row
      <4>2. thread' = thread \/ thread' = Append(thread, [role |-> "user", tokens |-> 0])
        BY <3>4 DEF SaveUser, Insert
      <4> QED BY <3>2, <3>3, <4>1, <4>2
    <3>5. CASE SaveReply
      <4>1. [role |-> "assistant", tokens |-> fullResponse] \in Row
        BY <1>t DEF Row
      <4>2. thread' = thread \/ thread' = Append(thread, [role |-> "assistant", tokens |-> fullResponse])
        BY <3>5 DEF SaveReply, Insert
      <4>3. fullResponse > 0
        BY <3>5 DEF SaveReply, ReplyInv
      <4> QED BY <3>2, <3>3, <4>1, <4>2, <4>3
    <3> QED BY <1>8, <3>4, <3>5
  <2> QED BY <2>1, <2>2, <2>3, <2>4 DEF ReplyInv, Sending
<1>9. CASE SendEvent
  <2>1. /\ wpc = "send" /\ out' = NoEvent /\ out.round = round
        /\ \/ out.event \in {"token", "status"} /\ wpc' = "range"
           \/ out.event = "error" /\ wpc' = "return"
           \/ out.event = "done" /\ wpc' = "report"
        /\ UNCHANGED <<round, thread, content, hasToolCalls, fullResponse>>
    BY <1>9 DEF SendEvent, ReplyInv
  <2>2. /\ out.event = "token" => TokensOfRound(round)' = TokensOfRound(round) + 1
        /\ out.event # "token" => TokensOfRound(round)' = TokensOfRound(round)
        /\ out.event # "status" => EmittedAs("status", round)' = EmittedAs("status", round)
    BY <1>9, <2>1, EmittedAsSend
  <2>3. \A k \in 1 .. Len(Emitted') : Emitted'[k].round <= round
    <3>1. /\ Len(Emitted') = Len(Emitted) + 1 /\ Len(Emitted) \in Nat
          /\ Emitted'[Len(Emitted) + 1] = out
          /\ \A k \in 1 .. Len(Emitted) : Emitted'[k] = Emitted[k]
      BY <1>9, SendExtendsEmitted, EmittedType
    <3> QED BY <1>t, <2>1, <3>1 DEF ReplyInv
  <2>4. out.event \in {"token", "status", "error"} => fullResponse = 0
    BY <2>1, <1>t DEF ReplyInv, Sending
  <2> QED BY <2>1, <2>2, <2>3, <2>4 DEF ReplyInv, Sending
<1>10. CASE Report \/ WorkerReturn
  <2>1. /\ wpc \in {"report", "return"} /\ wpc' \in {"return", "exited"} /\ Emitted' = Emitted
        /\ UNCHANGED <<out, round, thread, fullResponse>>
    BY <1>10, <1>e DEF Report, WorkerReturn, SendEvent
  <2>2. /\ EmittedAs("status", round)' = EmittedAs("status", round)
        /\ TokensOfRound(round)' = TokensOfRound(round)
    BY <2>1, EmittedAsKept
  <2> QED BY <2>1, <2>2 DEF ReplyInv, Sending
<1> QED BY <1>1, <1>2, <1>3, <1>4, <1>5, <1>6, <1>7, <1>8, <1>9, <1>10 DEF WorkerStep

LEMMA ReplyInvOthers ==
  TypeOK /\ ReplyInv
    /\ (StreamStep \/ HandlerStep \/ ClientLeaves \/ Deadline \/ UNCHANGED vars)
  => ReplyInv'
<1> SUFFICES ASSUME TypeOK, ReplyInv,
                    StreamStep \/ HandlerStep \/ ClientLeaves \/ Deadline \/ UNCHANGED vars
             PROVE  ReplyInv'
  OBVIOUS
<1>1. UNCHANGED <<workerVars, thread>>
  BY DEF StreamStep, HandlerStep, HandlerSelect, HandlerReceive, HandlerEnd, ClientLeaves,
         Deadline, vars, effectVars
<1>2. Emitted' = Emitted
  <2>1. CASE HandlerReceive
    BY <2>1, ReceiveKeepsEmitted
  <2>2. CASE ~HandlerReceive
    <3>1. UNCHANGED <<received, eventCh>>
      BY <2>2 DEF StreamStep, HandlerStep, HandlerSelect, HandlerEnd, ClientLeaves,
                  Deadline, vars, eventVars, handlerVars
    <3> QED BY <3>1 DEF Emitted
  <2> QED BY <2>1, <2>2
<1>3. UNCHANGED <<wpc, out, round, content, hasToolCalls, thread, fullResponse>>
  BY <1>1 DEF workerVars
<1> QED BY <1>2, <1>3, ReplyInvSame

(***************************************************************************)
(* What the channels hold.                                                 *)
(***************************************************************************)
LEMMA RoomInvStep == TypeOK /\ RoomInv /\ [Next]_vars => RoomInv'
<1> SUFFICES ASSUME TypeOK, RoomInv, [Next]_vars PROVE RoomInv'
  OBVIOUS
<1> USE StreamCapAssumption, EventCapAssumption DEF RoomInv
<1>1. streamCh \in Seq(StreamEvent) /\ eventCh \in Seq(SSEvent)
  BY DEF TypeOK, ProviderTypeOK
<1>2. \A t : Len(Append(streamCh, t)) = Len(streamCh) + 1 /\ Len(Append(eventCh, t)) = Len(eventCh) + 1
  BY <1>1
<1>3. /\ streamCh # << >> => Len(Tail(streamCh)) = Len(streamCh) - 1
      /\ eventCh # << >> => Len(Tail(eventCh)) = Len(eventCh) - 1
  BY <1>1
<1>4. Len(streamCh) \in Nat /\ Len(eventCh) \in Nat
  BY <1>1
<1>5. CASE StreamStep
  <2>1. UNCHANGED <<eventCh, round>>
    BY <1>5 DEF StreamStep, workerVars, eventVars
  <2>2. CASE ProviderSend
    BY <1>2, <1>4, <2>1, <2>2 DEF ProviderSend, TypeOK, ProviderTypeOK, PPC
  <2>3. CASE ~ ProviderSend
    <3>1. streamCh' = streamCh /\ ppc' # "idle"
      BY <1>5, <2>3 DEF StreamStep, ProviderStep, ScanCancelled, ScanParts, ScanUsage, EndOfBody, ProviderReturn,
                        FinishWith
    <3> QED BY <2>1, <3>1
  <2> QED BY <2>2, <2>3
<1>6. CASE WorkerStep
  <2>1. CASE CallModel
    <3>1. eventCh' = eventCh
      BY <2>1 DEF CallModel, eventVars
    <3>2. CASE OpenStream
      BY <3>1, <3>2 DEF OpenStream
    <3>3. CASE UNCHANGED <<providerVars, round>>
      BY <3>1, <3>3 DEF providerVars
    <3> QED BY <2>1, <3>2, <3>3 DEF CallModel
  <2>2. CASE RangeEvent
    BY <1>3, <1>4, <2>2 DEF RangeEvent, eventVars
  <2>3. CASE SendEvent
    BY <1>2, <1>4, <2>3 DEF SendEvent, providerVars
  <2>4. CASE ~ (CallModel \/ RangeEvent \/ SendEvent)
    BY <1>6, <2>4 DEF WorkerStep, GetProvider, LoadHistory, LoopHead, RangeEnd, RunTools, SaveUser, SaveReply,
                      Report, WorkerReturn, providerVars, eventVars
  <2> QED BY <2>1, <2>2, <2>3, <2>4
<1>7. CASE HandlerReceive
  BY <1>3, <1>4, <1>7 DEF HandlerReceive, providerVars, workerVars
<1>8. CASE HandlerSelect \/ HandlerEnd \/ ClientLeaves \/ Deadline \/ UNCHANGED vars
  BY <1>8 DEF HandlerSelect, HandlerEnd, ClientLeaves, Deadline, vars, providerVars, workerVars, eventVars
<1> QED BY <1>5, <1>6, <1>7, <1>8 DEF Next, HandlerStep

(***************************************************************************)
(* The theorems.                                                           *)
(***************************************************************************)
LEMMA InvarianceStep ==
  ASSUME IInv, [Next]_vars
  PROVE  IInv'
<1>1. TypeOK' /\ StreamInv' /\ CloseInv'
  BY TypeStep, StreamInvStep, CloseInvStep DEF IInv
<1>2. ConsumeInv'
  BY ConsumeInvProvider, ConsumeInvWorker, ConsumeInvOthers DEF IInv, Next
<1>3. OutcomeInv'
  BY OutcomeInvWorker, OutcomeInvOthers DEF IInv, Next
<1>4. ReplyInv'
  BY ReplyInvWorker, ReplyInvOthers DEF IInv, Next
<1>5. RoomInv'
  BY RoomInvStep DEF IInv
<1>6. UsageInv'
  BY <1>1, UsageInvProvider, UsageInvWorker, UsageInvOthers DEF IInv, Next
<1> QED BY <1>1, <1>2, <1>3, <1>4, <1>5, <1>6 DEF IInv

LEMMA Invariance == Spec => []IInv
<1>1. Init => IInv
  <2>1. Init => RoomInv
    BY StreamCapAssumption, EventCapAssumption DEF Init, ProviderInit, RoomInv
  <2>2. Init => UsageInv
    <3> SUFFICES ASSUME Init PROVE UsageInv
      OBVIOUS
    <3>1. Coming = << >>
      BY EmptySeq, ConcatEmptySeq DEF Init, ProviderInit, Coming
    <3> QED BY <3>1 DEF Init, ProviderInit, UsageInv, UsageComing
  <2> QED BY <2>1, <2>2, TypeInit, StreamInvInit, ConsumeInvInit, OutcomeInvInit, ReplyInvInit DEF IInv
<1>2. IInv /\ [Next]_vars => IInv'
  BY InvarianceStep
<1> QED BY <1>1, <1>2, PTL DEF Spec

(* The assistant's row is the text of the last answer, as streamed. *)
THEOREM ReplyStoredAsStreamed == Spec => []SavedReplyIsLastAnswer
<1>1. IInv => SavedReplyIsLastAnswer
  BY DEF IInv, ReplyInv, SavedReplyIsLastAnswer
<1> QED BY <1>1, Invariance, PTL

(* One outcome, and nothing after it, in everything the worker ever sends. *)
THEOREM OutcomeLast == Spec => []OutcomeIsLast
<1>1. IInv => OutcomeIsLast
  BY DEF IInv, OutcomeInv, OutcomeIsLast
<1> QED BY <1>1, Invariance, PTL

(* A client that stays is always told the outcome of its request. *)
THEOREM OutcomeDelivered == Spec => []ClientLearnsOutcome
<1>1. IInv => ClientLearnsOutcome
  <2> SUFFICES ASSUME IInv, hpc = "returned", ~clientGone
               PROVE  received # << >> /\ IsOutcome(received[Len(received)])
    BY DEF ClientLearnsOutcome
  <2>1. eventCh = << >> /\ wpc = "exited"
    BY DEF IInv, CloseInv
  <2>2. Emitted = received
    BY <2>1, ConcatEmptySeq DEF Emitted, IInv, TypeOK
  <2> QED BY <2>1, <2>2 DEF IInv, OutcomeInv
<1> QED BY <1>1, Invariance, PTL

(* A request announced as failed left nothing in its thread. *)
THEOREM FailedStoresNothing == Spec => []ErrorStoresNothing
<1>1. IInv => ErrorStoresNothing
  <2> SUFFICES ASSUME IInv, NEW k \in 1 .. Len(Emitted), Emitted[k].event = "error", thread # << >>
               PROVE  FALSE
    BY DEF ErrorStoresNothing, HasEmitted
  <2>1. k = Len(Emitted) /\ wpc \in {"report", "return", "exited"}
    BY DEF IInv, OutcomeInv, IsOutcome
  <2>2. Emitted[Len(Emitted)].event = "done"
    BY <2>1 DEF IInv, OutcomeInv, Sending
  <2> QED BY <2>1, <2>2
<1> QED BY <1>1, Invariance, PTL

(* A stream holds one terminal event, its last. *)
THEOREM StreamsEndOnce == Spec => []StreamEndsOnce
<1>1. IInv => StreamEndsOnce
  BY DEF IInv, StreamInv, StreamEndsOnce, EndsOnce, OnlyParts, TypeOK, ProviderTypeOK, PPC
<1> QED BY <1>1, Invariance, PTL

(* No provider goroutine is left blocked by a worker that went on or exited. *)
THEOREM StreamsNotOrphaned == Spec => []NoOrphanStream
<1>1. IInv => NoOrphanStream
  <2> SUFFICES ASSUME IInv, wpc \in {"loop", "call", "tools", "saveUser", "saveReply", "report", "exited"}
               PROVE  ppc \in {"idle", "last", "ended"} /\ pending = << >>
    BY DEF NoOrphanStream
  <2>1. round \in Nat
    BY DEF IInv, TypeOK
  <2>2. CASE round = 0
    BY <2>2 DEF IInv, ConsumeInv, StreamInv
  <2>3. CASE round > 0
    <3>1. ppc \in {"last", "ended"} /\ Coming = << >>
      BY <2>3 DEF IInv, ConsumeInv, BetweenStreams, TerminalTaken
    <3>2. pending = << >>
      BY <3>1, ConcatSimplifications DEF Coming, IInv, TypeOK, ProviderTypeOK
    <3> QED BY <3>1, <3>2
  <2> QED BY <2>1, <2>2, <2>3
<1> QED BY <1>1, Invariance, PTL

(* The usage reported for a run is all that its streams told, once. *)
THEOREM UsageCounted == Spec => []TraceCountsUsage
<1>1. IInv => TraceCountsUsage
  BY DEF IInv, OutcomeInv, UsageInv, TraceCountsUsage
<1> QED BY <1>1, Invariance, PTL

(* Three goroutines, two channels, and the only deadlock: if each of the   *)
(* three has ended or waits, all have ended, or the worker waits for a     *)
(* handler that returned with its client.                                  *)
THEOREM OnlyAbandonedGetStuck == Spec => []StuckOnlyWhenAbandoned
<1>1. IInv => StuckOnlyWhenAbandoned
  <2> SUFFICES ASSUME IInv, NobodyMoves PROVE Ended \/ Abandoned
    BY DEF StuckOnlyWhenAbandoned
  <2>1. streamCh \in Seq(StreamEvent) /\ eventCh \in Seq(SSEvent) /\ round \in Nat
    BY DEF IInv, TypeOK, ProviderTypeOK
  <2>2. CASE wpc = "exited"
    <3>1. hpc = "returned"
      BY <2>2 DEF NobodyMoves, HandlerWaits, IInv, CloseInv
    <3>2. CASE round = 0
      BY <2>2, <3>1, <3>2 DEF IInv, ConsumeInv, Ended, ProviderGone
    <3>3. CASE round > 0
      <4>1. ppc \in {"last", "ended"} /\ Coming = << >>
        BY <2>2, <3>3 DEF IInv, ConsumeInv, TerminalTaken
      <4>2. pending = << >>
        BY <4>1, ConcatSimplifications DEF Coming, IInv, TypeOK, ProviderTypeOK
      <4> QED BY <2>2, <3>1, <4>2 DEF NobodyMoves, ProviderWaits, Ended
    <3> QED BY <2>1, <3>2, <3>3
  <2>3. CASE wpc = "range" /\ streamCh = << >> /\ ~streamClosed
    <3>1. ppc \notin {"idle", "ended"}
      BY <2>3 DEF IInv, StreamInv, ConsumeInv, RoomInv
    <3>2. Len(streamCh) = StreamCap
      BY <3>1 DEF NobodyMoves, ProviderGone, ProviderWaits
    <3> QED BY <2>3, <3>2, StreamCapAssumption
  <2>4. CASE wpc = "send" /\ Len(eventCh) = EventCap
    <3>1. eventCh # << >>
      BY <2>4, EventCapAssumption
    <3>2. hpc = "returned"
      BY <3>1 DEF NobodyMoves, HandlerWaits
    <3>3. clientGone
      BY <3>1, <3>2 DEF IInv, CloseInv
    <3> QED BY <2>4, <3>2, <3>3 DEF Abandoned
  <2> QED BY <2>2, <2>3, <2>4 DEF NobodyMoves, WorkerWaits
<1> QED BY <1>1, Invariance, PTL

(***************************************************************************)
(* The pipeline implements ChatContract.                                   *)
(***************************************************************************)
Announced == [k \in DOMAIN Emitted |-> Emitted[k].event]
Stored == [k \in DOMAIN thread |-> thread[k].role]

\* Projecting a field out of a sequence commutes with Append.
LEMMA ProjectEvents ==
  ASSUME NEW s \in Seq(SSEvent), NEW e \in SSEvent
  PROVE  [k \in DOMAIN Append(s, e) |-> Append(s, e)[k].event]
           = Append([k \in DOMAIN s |-> s[k].event], e.event)
<1>1. /\ Append(s, e) \in Seq(SSEvent) /\ Len(Append(s, e)) = Len(s) + 1
      /\ \A k \in 1 .. Len(s) : Append(s, e)[k] = s[k]
      /\ Append(s, e)[Len(s) + 1] = e
  BY AppendProperties
<1>2. DOMAIN s = 1 .. Len(s) /\ Len(s) \in Nat /\ DOMAIN Append(s, e) = 1 .. Len(s) + 1
  BY <1>1, LenProperties
<1> QED BY <1>1, <1>2

LEMMA ProjectRoles ==
  ASSUME NEW s \in Seq(Row), NEW e \in Row
  PROVE  [k \in DOMAIN Append(s, e) |-> Append(s, e)[k].role]
           = Append([k \in DOMAIN s |-> s[k].role], e.role)
<1>1. /\ Append(s, e) \in Seq(Row) /\ Len(Append(s, e)) = Len(s) + 1
      /\ \A k \in 1 .. Len(s) : Append(s, e)[k] = s[k]
      /\ Append(s, e)[Len(s) + 1] = e
  BY AppendProperties
<1>2. DOMAIN s = 1 .. Len(s) /\ Len(s) \in Nat /\ DOMAIN Append(s, e) = 1 .. Len(s) + 1
  BY <1>1, LenProperties
<1> QED BY <1>1, <1>2

LEMMA ContractInitial == Init => Contract!ContractInit
<1> SUFFICES ASSUME Init PROVE Contract!ContractInit
  OBVIOUS
<1>1. Emitted = << >> /\ thread = << >> /\ Len(received) = 0 /\ eventClosed = FALSE
  BY EmptySeq, ConcatEmptySeq DEF Init, Emitted
<1> QED BY <1>1 DEF Contract!ContractInit

LEMMA ContractStep == IInv /\ [Next]_vars => [Contract!ContractNext]_(Contract!contractVars)
<1> SUFFICES ASSUME IInv, [Next]_vars
             PROVE  Contract!ContractNext \/ UNCHANGED Contract!contractVars
  OBVIOUS
<1>t. TypeOK /\ Emitted \in Seq(SSEvent) /\ thread \in Seq(Row)
  BY EmittedType DEF IInv, TypeOK
<1>d. Contract!Decided => wpc \in {"report", "return", "exited"}
  <2> SUFFICES ASSUME NEW k \in DOMAIN Announced, Announced[k] \in {"done", "error"}
               PROVE  wpc \in {"report", "return", "exited"}
    BY DEF Contract!Decided, Contract!Outcome, Announced
  <2>1. k \in 1 .. Len(Emitted) /\ IsOutcome(Emitted[k])
    BY <1>t, LenProperties DEF Announced, IsOutcome
  <2> QED BY <2>1 DEF IInv, OutcomeInv
<1>s. ASSUME UNCHANGED <<received, eventCh, thread, eventClosed>>
      PROVE  UNCHANGED Contract!contractVars
  BY <1>s DEF Contract!contractVars, Emitted
<1>1. CASE StreamStep \/ ClientLeaves \/ Deadline \/ UNCHANGED vars
  BY <1>1, <1>s DEF StreamStep, ClientLeaves, Deadline, vars, eventVars, handlerVars, effectVars
<1>2. CASE HandlerSelect \/ HandlerEnd
  BY <1>2, <1>s DEF HandlerSelect, HandlerEnd, eventVars, effectVars
<1>3. CASE GetProvider \/ LoadHistory \/ LoopHead \/ CallModel \/ RangeEvent
           \/ RangeEnd \/ RunTools \/ Report
  BY <1>3, <1>s DEF GetProvider, LoadHistory, LoopHead, CallModel, RangeEvent, RangeEnd,
                    RunTools, Report, eventVars, handlerVars, effectVars
<1>4. CASE HandlerReceive
  <2>1. Emitted' = Emitted /\ UNCHANGED <<thread, eventClosed>>
    BY <1>4, <1>t, ReceiveKeepsEmitted DEF HandlerReceive, effectVars
  <2>2. Len(received') = Len(received) + 1
    BY <1>4, <1>t, TakeType DEF HandlerReceive, TypeOK
  <2>3. Len(Announced) = Len(received) + Len(eventCh) /\ Len(eventCh) \in Nat \ {0} /\ Len(received) \in Nat
    <3>1. Len(Announced) = Len(Emitted)
      BY <1>t, LenProperties DEF Announced
    <3> QED BY <3>1, <1>4, <1>t, ConcatProperties, EmptySeq, LenProperties
            DEF Emitted, TypeOK, HandlerReceive
  <2>4. Contract!Deliver
    BY <2>1, <2>2, <2>3 DEF Contract!Deliver, Announced
  <2> QED BY <2>4 DEF Contract!ContractNext
<1>5. CASE SendEvent
  <2>1. Announced' = Append(Announced, out.event)
    <3>1. Emitted' = Append(Emitted, out) /\ out \in SSEvent
      BY <1>5, <1>t, SendExtendsEmitted
    <3>2. [k \in DOMAIN Append(Emitted, out) |-> Append(Emitted, out)[k].event]
            = Append([k \in DOMAIN Emitted |-> Emitted[k].event], out.event)
      BY <1>t, <3>1, ProjectEvents
    <3> QED BY <3>1, <3>2 DEF Announced
  <2>2. UNCHANGED <<received, thread, eventClosed>> /\ wpc = "send"
    BY <1>5 DEF SendEvent, handlerVars, effectVars
  <2>3. ~Contract!Decided
    BY <1>d, <2>2
  <2>4. out.event \in {"token", "status", "error"} => thread = << >>
    BY <2>2 DEF IInv, OutcomeInv, Sending
  <2>5. thread = << >> => Stored = << >>
    BY DEF Stored
  <2>6. CASE out.event \in {"token", "status"}
    <3>1. Contract!AnnounceProgress
      BY <2>1, <2>2, <2>3, <2>4, <2>5, <2>6
         DEF Contract!AnnounceProgress, Contract!Progress, Announced, Stored
    <3> QED BY <3>1 DEF Contract!ContractNext
  <2>7. CASE out.event = "error"
    <3>1. Contract!AnnounceError
      BY <2>1, <2>2, <2>3, <2>4, <2>5, <2>7 DEF Contract!AnnounceError, Announced, Stored
    <3> QED BY <3>1 DEF Contract!ContractNext
  <2>8. CASE out.event = "done"
    <3>1. Contract!AnnounceDone
      BY <2>1, <2>2, <2>3, <2>8 DEF Contract!AnnounceDone, Announced
    <3> QED BY <3>1 DEF Contract!ContractNext
  <2> QED BY <1>5, <2>6, <2>7, <2>8 DEF SendEvent
<1>6. CASE SaveUser
  <2>1. thread = << >> /\ UNCHANGED <<received, eventCh, eventClosed>>
    BY <1>6 DEF SaveUser, IInv, OutcomeInv, Sending, eventVars, handlerVars
  <2>2. CASE thread' = thread
    BY <2>1, <2>2, <1>s
  <2>3. CASE thread' = Append(thread, [role |-> "user", tokens |-> 0])
    <3>1. Stored = << >> /\ Stored' = <<"user">>
      BY <2>1, <2>3 DEF Stored
    <3>2. Announced' = Announced /\ ~Contract!Decided
      BY <1>d, <1>6, <2>1 DEF Announced, Emitted, SaveUser
    <3>3. Contract!StoreUser
      BY <2>1, <3>1, <3>2 DEF Contract!StoreUser, Announced, Stored
    <3> QED BY <3>3 DEF Contract!ContractNext
  <2> QED BY <1>6, <2>2, <2>3 DEF SaveUser, Insert
<1>7. CASE SaveReply
  <2>0. UNCHANGED <<received, eventCh, eventClosed>> /\ wpc = "saveReply"
    BY <1>7 DEF SaveReply, eventVars, handlerVars
  <2>1. thread = << >> \/ (Len(thread) = 1 /\ thread[1].role = "user")
    <3>1. OutcomeInv
      BY DEF IInv
    <3>2. wpc = "saveReply" /\ thread # << >> => Len(thread) = 1 /\ thread[1].role = "user"
      BY <3>1 DEF OutcomeInv
    <3>3. wpc = "saveReply"
      BY <1>7 DEF SaveReply
    <3> QED BY <3>2, <3>3
  <2>2. CASE thread' = thread
    BY <2>0, <2>2, <1>s
  <2>3. CASE thread' = Append(thread, [role |-> "assistant", tokens |-> fullResponse])
    <3>1. Stored \in {<< >>, <<"user">>}
      <4>1. CASE thread = << >>
        BY <4>1 DEF Stored
      <4>2. CASE Len(thread) = 1 /\ thread[1].role = "user"
        <5>1. DOMAIN thread = {1}
          BY <4>2, <1>t, LenProperties
        <5>2. Stored = [k \in {1} |-> "user"]
          BY <4>2, <5>1 DEF Stored
        <5>3. <<"user">> = [k \in 1 .. 1 |-> "user"] /\ 1 .. 1 = {1}
          OBVIOUS
        <5> QED BY <5>2, <5>3
      <4> QED BY <2>1, <4>1, <4>2
    <3>2. Stored' = Append(Stored, "assistant")
      <4>1. [role |-> "assistant", tokens |-> fullResponse] \in Row
        BY DEF IInv, TypeOK, Row
      <4> DEFINE row == [role |-> "assistant", tokens |-> fullResponse]
      <4>2. [k \in DOMAIN Append(thread, row) |-> Append(thread, row)[k].role]
              = Append([k \in DOMAIN thread |-> thread[k].role], row.role)
        BY <1>t, <4>1, ProjectRoles
      <4> QED BY <2>3, <4>2 DEF Stored
    <3>3. Announced' = Announced /\ ~Contract!Decided
      BY <1>d, <2>0 DEF Announced, Emitted
    <3>4. Contract!StoreAnswer
      BY <2>0, <3>1, <3>2, <3>3 DEF Contract!StoreAnswer, Announced, Stored
    <3> QED BY <3>4 DEF Contract!ContractNext
  <2> QED BY <1>7, <2>2, <2>3 DEF SaveReply, Insert
<1>8. CASE WorkerReturn
  <2>1. /\ UNCHANGED <<received, eventCh, thread>> /\ eventClosed = FALSE /\ eventClosed' = TRUE
        /\ Emitted # << >> /\ IsOutcome(Emitted[Len(Emitted)])
    BY <1>8, <1>t DEF WorkerReturn, IInv, OutcomeInv, CloseInv, TypeOK, handlerVars, effectVars
  <2>2. Contract!Decided
    <3>1. Len(Emitted) \in DOMAIN Announced /\ Announced[Len(Emitted)] \in {"done", "error"}
      BY <2>1, <1>t, EmptySeq, LenProperties DEF Announced, IsOutcome
    <3> QED BY <3>1 DEF Contract!Decided, Contract!Outcome, Announced
  <2>3. Contract!Close
    BY <2>1, <2>2 DEF Contract!Close, Emitted
  <2> QED BY <2>3 DEF Contract!ContractNext
<1> QED BY <1>1, <1>2, <1>3, <1>4, <1>5, <1>6, <1>7, <1>8
        DEF Next, WorkerStep, HandlerStep

(* The goroutines, channels and contexts of a request together keep the    *)
(* promise of ChatContract: progress, then one outcome; the exchange       *)
(* stored before "done" and never with "error"; nothing after the end.     *)
THEOREM PipelineImplementsContract == Spec => ImplementsContract
<1>1. Init => Contract!ContractInit
  BY ContractInitial
<1>2. IInv /\ [Next]_vars => [Contract!ContractNext]_(Contract!contractVars)
  BY ContractStep
<1> QED BY <1>1, <1>2, Invariance, PTL DEF Spec, ImplementsContract, Contract!ContractSpec

(***************************************************************************)
(* The pipeline implements ThreadHistory for its one request.              *)
(***************************************************************************)
ThreadRows == [k \in DOMAIN thread |-> [req |-> "request", role |-> thread[k].role, at |-> 0]]
ThreadLost == IF InsertLost THEN {"request"} ELSE {}
HasReply == fullResponse > 0

(* A function of the one request is its value there. *)
LEMMA ForThisAt ==
  ASSUME NEW v
  PROVE  ForThis(v)["request"] = v /\ \A w : [ForThis(v) EXCEPT !["request"] = w] = ForThis(w)
  BY DEF ForThis

\* Nothing that the thread shows of the request changes.
LEMMA ThreadSame ==
  ASSUME UNCHANGED <<thread, ThreadPC, ToldOutcome, ThreadLost, HasReply>>
  PROVE  UNCHANGED Thread!threadVars
  BY DEF Thread!threadVars, ThreadLost, HasReply, ForThis

\* Until the worker has sent its outcome, the client was told none.
LEMMA NotYetTold ==
  ASSUME IInv, wpc \notin {"report", "return", "exited"}
  PROVE  ~HasEmitted("done") /\ ~HasEmitted("error") /\ ToldOutcome = "none"
  BY DEF IInv, OutcomeInv, HasEmitted, IsOutcome, ToldOutcome

\* Before the inserts none is lost, and the thread is empty.
Early(w) == w \in {"provider", "history", "loop", "call", "range", "tools", "saveUser"}

LEMMA NothingStoredYet ==
  ASSUME IInv, Early(wpc) \/ Sending({"token", "status", "error"})
  PROVE  thread = << >> /\ ~InsertsOver /\ ~InsertLost
<1>1. wpc \notin {"report", "return", "exited", "saveReply"} /\ ~Sending({"done"})
  BY DEF Early, Sending
<1>2. thread = << >>
  BY <1>1 DEF IInv, OutcomeInv
<1> QED BY <1>1, <1>2, NotYetTold DEF InsertsOver, InsertLost

LEMMA ThreadInitial == Init => Thread!Init
<1> SUFFICES ASSUME Init PROVE Thread!Init
  OBVIOUS
<1>1. Emitted = << >> /\ thread = << >>
  BY EmptySeq, ConcatEmptySeq DEF Init, Emitted
<1>2. ~HasEmitted("done") /\ ~HasEmitted("error")
  BY <1>1 DEF HasEmitted
<1>3. ThreadPC = "new" /\ ~InsertLost /\ (fullResponse > 0) = FALSE
  BY <1>2 DEF Init, ThreadPC, InsertLost, InsertsOver, Sending
<1>4. ThreadRows = << >> /\ ToldOutcome = "none"
  BY <1>1, <1>2 DEF ThreadRows, ToldOutcome
<1>5. ThreadLost = {} /\ ForThis(fullResponse > 0) = ForThis(FALSE)
  BY <1>3 DEF ThreadLost
<1> QED BY <1>3, <1>4, <1>5 DEF Thread!Init, ForThis, ThreadRows, ThreadLost

(* Each action of the thread, from what it does to the request's view. *)
LEMMA ThreadSends ==
  ASSUME ThreadPC = "new", ThreadPC' = "read", ToldOutcome = "none",
         UNCHANGED <<thread, ToldOutcome, ThreadLost, HasReply>>
  PROVE  Thread!Send("request")
<1>1. ~Thread!OverForClient("request")
  BY ForThisAt DEF Thread!OverForClient
<1>2. {a \in {"request"} : Thread!OverForClient(a)} = {}
  BY <1>1
<1> QED BY <1>2, ForThisAt DEF Thread!Send, Thread!Goto, ThreadLost, HasReply, ForThis

\* The instance has the Cardinality of FiniteSets.
LEMMA ThreadCardinality == \A S : Thread!Cardinality(S) = Cardinality(S)
  BY DEF Thread!Cardinality, Cardinality

LEMMA ThreadReads ==
  ASSUME ThreadPC = "read", ThreadPC' = "answer", thread = << >>,
         UNCHANGED <<thread, ToldOutcome, ThreadLost, HasReply>>
  PROVE  Thread!Read("request")
<1>1. DOMAIN ThreadRows = {} /\ Len(ThreadRows) = 0
  BY DEF ThreadRows
<1>2. Thread!LastRows = {}
  BY <1>1 DEF Thread!LastRows, ThreadRows
<1>3. << >> \in Thread!InOrder({})
  <2>1. 1 .. Thread!Cardinality({}) = {}
    BY ThreadCardinality, FS_EmptySet
  <2>2. << >> \in [{} -> {}] /\ DOMAIN << >> = {} /\ {<< >>[k] : k \in DOMAIN << >>} = {}
    OBVIOUS
  <2> QED BY <2>1, <2>2 DEF Thread!InOrder
<1> QED BY <1>1, <1>2, <1>3, ForThisAt DEF Thread!Read, Thread!Goto, ThreadRows, ThreadLost, HasReply, ForThis

LEMMA ThreadAnswers ==
  ASSUME ThreadPC = "answer", ThreadPC' = "saveUser", HasReply' \in BOOLEAN,
         UNCHANGED <<thread, ToldOutcome, ThreadLost>>
  PROVE  Thread!Answer("request")
  BY ForThisAt DEF Thread!Answer, Thread!Goto, ThreadLost, HasReply, ForThis

LEMMA ThreadFails ==
  ASSUME ThreadPC \in {"read", "answer"}, ThreadPC' = "ended", ToldOutcome' = "error",
         UNCHANGED <<thread, ThreadLost, HasReply>>
  PROVE  Thread!Fail("request")
  BY ForThisAt DEF Thread!Fail, Thread!Goto, ThreadLost, HasReply, ForThis

LEMMA ThreadAnnounces ==
  ASSUME ThreadPC = "announce", ThreadPC' = "ended", ToldOutcome' = "done",
         UNCHANGED <<thread, ThreadLost, HasReply>>
  PROVE  Thread!Announce("request")
  BY ForThisAt DEF Thread!Announce, Thread!Goto, ThreadLost, HasReply, ForThis

\* What the worker stores is in the table as the thread's Insert puts it.
LEMMA ThreadRowsAppend ==
  ASSUME NEW row \in Row, thread \in Seq(Row), thread' = Append(thread, row)
  PROVE  ThreadRows' = Append(ThreadRows, [req |-> "request", role |-> row.role, at |-> 0])
<1>1. /\ thread' \in Seq(Row) /\ Len(thread') = Len(thread) + 1
      /\ \A k \in 1 .. Len(thread) : thread'[k] = thread[k]
      /\ thread'[Len(thread) + 1] = row
  BY AppendProperties
<1>2. DOMAIN thread = 1 .. Len(thread) /\ Len(thread) \in Nat /\ DOMAIN thread' = 1 .. Len(thread) + 1
  BY <1>1, LenProperties
<1> QED BY <1>1, <1>2 DEF ThreadRows

\* Neither of the first two rows of one exchange hides the other.
LEMMA SavedAfterInsert ==
  ASSUME NEW row \in Row, thread \in Seq(Row), thread' = Append(thread, row), NEW role
  PROVE  Saved(role)' <=> Saved(role) \/ row.role = role
<1>1. /\ thread' \in Seq(Row) /\ Len(thread') = Len(thread) + 1
      /\ \A k \in 1 .. Len(thread) : thread'[k] = thread[k]
      /\ thread'[Len(thread) + 1] = row
  BY AppendProperties
<1>2. DOMAIN thread = 1 .. Len(thread) /\ Len(thread) \in Nat /\ DOMAIN thread' = 1 .. Len(thread) + 1
  BY <1>1, LenProperties
<1> QED BY <1>1, <1>2 DEF Saved

\* Announcing is what SendEvent does of an outcome.
LEMMA ToldAfterSend ==
  ASSUME TypeOK, SendEvent, NEW name
  PROVE  HasEmitted(name)' <=> HasEmitted(name) \/ out.event = name
<1>1. /\ Len(Emitted') = Len(Emitted) + 1 /\ Emitted'[Len(Emitted) + 1] = out
      /\ \A k \in 1 .. Len(Emitted) : Emitted'[k] = Emitted[k]
  BY SendExtendsEmitted
<1>2. Len(Emitted) \in Nat
  BY EmittedType
<1> QED BY <1>1, <1>2 DEF HasEmitted

LEMMA ThreadSavesUser ==
  ASSUME ThreadPC = "saveUser", ThreadPC' = (IF HasReply THEN "saveReply" ELSE "announce"),
         UNCHANGED <<ToldOutcome, HasReply>>,
         \/ /\ ThreadRows' = Append(ThreadRows, [req |-> "request", role |-> "user", at |-> 0])
            /\ UNCHANGED ThreadLost
         \/ ThreadLost' = ThreadLost \cup {"request"} /\ UNCHANGED ThreadRows
  PROVE  Thread!SaveUser("request")
  BY ForThisAt DEF Thread!SaveUser, Thread!Insert, Thread!Goto, ThreadRows, ThreadLost, HasReply, ForThis

LEMMA ThreadSavesReply ==
  ASSUME ThreadPC = "saveReply", ThreadPC' = "announce",
         UNCHANGED <<ToldOutcome, HasReply>>,
         \/ /\ ThreadRows' = Append(ThreadRows, [req |-> "request", role |-> "assistant", at |-> 0])
            /\ UNCHANGED ThreadLost
         \/ ThreadLost' = ThreadLost \cup {"request"} /\ UNCHANGED ThreadRows
  PROVE  Thread!SaveReply("request")
  BY ForThisAt DEF Thread!SaveReply, Thread!Insert, Thread!Goto, ThreadRows, ThreadLost, HasReply, ForThis

LEMMA ThreadStep == IInv /\ [Next]_vars => [Thread!Next]_(Thread!threadVars)
<1> SUFFICES ASSUME IInv, [Next]_vars
             PROVE  (\E r \in {"request"} : Thread!RequestStep(r)) \/ UNCHANGED Thread!threadVars
  BY DEF Thread!Next
<1>r. ASSUME \/ Thread!Send("request") \/ Thread!Read("request") \/ Thread!Answer("request")
             \/ Thread!Fail("request") \/ Thread!Announce("request")
             \/ Thread!SaveUser("request") \/ Thread!SaveReply("request")
      PROVE  \E r \in {"request"} : Thread!RequestStep(r)
  BY <1>r DEF Thread!RequestStep
<1>t. TypeOK /\ thread \in Seq(Row) /\ round \in Nat /\ fullResponse \in Nat
      /\ round' \in Nat /\ fullResponse' \in Nat
  BY TypeStep DEF IInv, TypeOK
<1>c. ConsumeInv /\ OutcomeInv /\ ReplyInv
  BY DEF IInv
<1>s. ASSUME UNCHANGED <<wpc, out, round, fullResponse, thread, Emitted>>
      PROVE  UNCHANGED Thread!threadVars
  <2>1. UNCHANGED <<thread, ThreadPC, ToldOutcome, ThreadLost, HasReply>>
    BY <1>s DEF ThreadPC, ToldOutcome, ThreadLost, HasReply, HasEmitted, Saved, InsertLost,
                InsertsOver, Sending
  <2> QED BY <2>1, ThreadSame
<1>e. ASSUME Early(wpc), UNCHANGED <<thread, Emitted>>,
             Early(wpc') \/ (wpc' = "send" /\ out'.event # "done")
      PROVE  /\ thread = << >> /\ ToldOutcome = "none"
             /\ UNCHANGED <<thread, ToldOutcome, ThreadLost>>
  <2>1. thread = << >> /\ ~InsertLost /\ ToldOutcome = "none" /\ ~HasEmitted("done")
    BY <1>e, NothingStoredYet, NotYetTold DEF Early
  <2>2. UNCHANGED <<ToldOutcome>> /\ ~HasEmitted("done")'
    BY <1>e, <2>1 DEF ToldOutcome, HasEmitted
  <2>3. ~InsertLost'
    BY <1>e, <2>2 DEF InsertLost, InsertsOver, Sending, Early
  <2> QED BY <1>e, <2>1, <2>2, <2>3 DEF ThreadLost
<1>q. ASSUME UNCHANGED <<thread, ToldOutcome, ThreadLost, ThreadPC, fullResponse>>
      PROVE  UNCHANGED Thread!threadVars
  BY <1>q, ThreadSame DEF HasReply
<1>1. CASE StreamStep \/ ClientLeaves \/ Deadline \/ HandlerSelect \/ HandlerEnd \/ UNCHANGED vars
  BY <1>1, <1>s DEF StreamStep, ClientLeaves, Deadline, HandlerSelect, HandlerEnd, vars,
                    workerVars, eventVars, handlerVars, effectVars, Emitted
<1>2. CASE HandlerReceive
  BY <1>2, <1>s, <1>t, ReceiveKeepsEmitted DEF HandlerReceive, workerVars, effectVars
<1>3. CASE GetProvider
  <2>1. Early(wpc) /\ UNCHANGED <<thread, Emitted, fullResponse, round>> /\ round = 0
    BY <1>3, <1>c DEF GetProvider, Early, ConsumeInv, effectVars, Emitted, eventVars, handlerVars
  <2>2. Early(wpc') \/ (wpc' = "send" /\ out'.event = "error")
    BY <1>3 DEF GetProvider, Emit, Early
  <2>3. ThreadPC = "new" /\ ThreadPC' = "read"
    BY <1>3, <2>1 DEF GetProvider, Emit, ThreadPC, Sending
  <2>4. Thread!Send("request")
    BY <2>1, <2>2, <2>3, <1>e, ThreadSends DEF HasReply
  <2> QED BY <2>4, <1>r
<1>4. CASE LoadHistory \/ RangeEvent \/ RunTools
  <2>1. Early(wpc) /\ UNCHANGED <<thread, Emitted, fullResponse, round>>
    BY <1>4 DEF LoadHistory, RangeEvent, RunTools, Early, effectVars, Emitted, eventVars, handlerVars
  <2>2. /\ Early(wpc') \/ (wpc' = "send" /\ out'.event # "done")
        /\ wpc' \notin {"provider", "saveUser"}
    BY <1>4 DEF LoadHistory, RangeEvent, RunTools, Emit, Early
  <2>3. UNCHANGED ThreadPC
    BY <1>4, <2>1, <2>2 DEF ThreadPC, LoadHistory, RangeEvent, RunTools, Sending, Early
  <2> QED BY <2>1, <2>2, <2>3, <1>e, <1>q
<1>5. CASE LoopHead
  <2>1. Early(wpc) /\ UNCHANGED <<thread, Emitted, fullResponse, round>>
    BY <1>5 DEF LoopHead, Early, effectVars, Emitted, eventVars, handlerVars
  <2>2. Early(wpc') \/ (wpc' = "send" /\ out'.event = "error")
    BY <1>5 DEF LoopHead, Emit, Early
  <2>3. CASE wpc' = "saveUser"
    <3>1. ThreadPC = "answer" /\ ThreadPC' = "saveUser"
      BY <1>5, <2>3, MaxIterAssumption DEF LoopHead, Emit, ThreadPC, Sending
    <3>2. HasReply' \in BOOLEAN
      BY <1>t DEF HasReply
    <3>3. Thread!Answer("request")
      BY <2>1, <2>2, <3>1, <3>2, <1>e, ThreadAnswers
    <3> QED BY <3>3, <1>r
  <2>4. CASE wpc' # "saveUser"
    <3>1. UNCHANGED ThreadPC
      BY <1>5, <2>1, <2>4 DEF LoopHead, Emit, ThreadPC, Sending
    <3> QED BY <2>1, <2>2, <3>1, <1>e, <1>q
  <2> QED BY <2>3, <2>4
<1>6. CASE CallModel
  <2>1. Early(wpc) /\ UNCHANGED <<thread, Emitted, fullResponse>>
    BY <1>6 DEF CallModel, Early, effectVars, Emitted, eventVars, handlerVars
  <2>2. Early(wpc') \/ (wpc' = "send" /\ out'.event = "error")
    BY <1>6 DEF CallModel, Emit, Early
  <2>3. CASE round = 0 /\ round' = 1
    <3>1. ThreadPC = "read" /\ ThreadPC' = "answer"
      BY <1>6, <2>3 DEF CallModel, Emit, ThreadPC, Sending
    <3>2. Thread!Read("request")
      BY <2>1, <2>2, <3>1, <1>e, ThreadReads DEF HasReply
    <3> QED BY <3>2, <1>r
  <2>4. CASE ~(round = 0 /\ round' = 1)
    <3>1. UNCHANGED ThreadPC
      BY <1>6, <1>t, <2>1, <2>4 DEF CallModel, Emit, ThreadPC, Sending
    <3> QED BY <2>1, <2>2, <3>1, <1>e, <1>q
  <2> QED BY <2>3, <2>4
<1>7. CASE RangeEnd
  <2>1. Early(wpc) /\ UNCHANGED <<thread, Emitted, round>> /\ Early(wpc') /\ round > 0
    BY <1>7, <1>c DEF RangeEnd, ConsumeInv, Early, effectVars, Emitted, eventVars, handlerVars
  <2>2. CASE wpc' = "saveUser"
    <3>1. ThreadPC = "answer" /\ ThreadPC' = "saveUser"
      BY <1>7, <2>1, <2>2 DEF RangeEnd, ThreadPC, Sending
    <3>2. HasReply' \in BOOLEAN
      BY <1>t DEF HasReply
    <3>3. Thread!Answer("request")
      BY <2>1, <3>1, <3>2, <1>e, ThreadAnswers
    <3> QED BY <3>3, <1>r
  <2>3. CASE wpc' = "tools" /\ UNCHANGED fullResponse
    <3>1. UNCHANGED ThreadPC
      BY <1>7, <2>1, <2>3 DEF RangeEnd, ThreadPC, Sending
    <3> QED BY <2>1, <2>3, <3>1, <1>e, <1>q
  <2> QED BY <1>7, <2>2, <2>3 DEF RangeEnd
<1>8. CASE SaveUser
  <2>1. thread = << >> /\ ToldOutcome = "none" /\ ~InsertLost /\ ~HasEmitted("done")
    BY <1>8, NothingStoredYet, NotYetTold DEF SaveUser, Early
  <2>2. UNCHANGED <<Emitted, fullResponse>>
    BY <1>8 DEF SaveUser, Emitted, eventVars, handlerVars
  <2>3. UNCHANGED <<ToldOutcome, HasReply>> /\ ~HasEmitted("done")'
    BY <2>1, <2>2 DEF ToldOutcome, HasReply, HasEmitted
  <2>4. ThreadPC = "saveUser" /\ ThreadPC' = (IF HasReply THEN "saveReply" ELSE "announce")
    BY <1>8 DEF SaveUser, ThreadPC, HasReply, Emit, Sending
  <2>5. \/ wpc' = "saveReply"
        \/ ~(fullResponse' > 0) /\ wpc' = "send" /\ out'.event = "done"
    BY <1>8, <2>2 DEF SaveUser, Emit
  <2>6. InsertLost' <=> ~Saved("user")'
    BY <2>3, <2>5 DEF InsertLost, InsertsOver, Sending
  <2>7. CASE thread' = Append(thread, [role |-> "user", tokens |-> 0])
    <3>1. [role |-> "user", tokens |-> 0] \in Row
      BY DEF Row
    <3>2. Saved("user")'
      BY <3>1, <2>7, <1>t, SavedAfterInsert
    <3>3. UNCHANGED ThreadLost
      BY <2>1, <2>6, <3>2 DEF ThreadLost
    <3>4. ThreadRows' = Append(ThreadRows, [req |-> "request", role |-> "user", at |-> 0])
      BY <3>1, <2>7, <1>t, ThreadRowsAppend
    <3>5. Thread!SaveUser("request")
      BY <2>3, <2>4, <3>3, <3>4, ThreadSavesUser
    <3> QED BY <3>5, <1>r
  <2>8. CASE thread' = thread
    <3>1. ~Saved("user")'
      BY <2>1, <2>8 DEF Saved
    <3>2. ThreadLost' = ThreadLost \cup {"request"} /\ UNCHANGED ThreadRows
      BY <2>1, <2>6, <2>8, <3>1 DEF ThreadLost, ThreadRows
    <3>3. Thread!SaveUser("request")
      BY <2>3, <2>4, <3>2, ThreadSavesUser
    <3> QED BY <3>3, <1>r
  <2> QED BY <1>8, <2>7, <2>8 DEF SaveUser, Insert
<1>9. CASE SaveReply
  <2>1. /\ wpc = "saveReply" /\ wpc' = "send" /\ out'.event = "done"
        /\ UNCHANGED <<Emitted, fullResponse>>
    BY <1>9 DEF SaveReply, Emit, Emitted, eventVars, handlerVars
  <2>2. fullResponse > 0 /\ ToldOutcome = "none" /\ ~HasEmitted("done")
    BY <2>1, <1>c, NotYetTold DEF ReplyInv
  <2>3. UNCHANGED <<ToldOutcome, HasReply>> /\ ~HasEmitted("done")'
    BY <2>1, <2>2 DEF ToldOutcome, HasReply, HasEmitted
  <2>4. ThreadPC = "saveReply" /\ ThreadPC' = "announce"
    BY <2>1 DEF ThreadPC, Sending
  <2>5. ~Saved("assistant")
    <3>1. thread = << >> \/ (Len(thread) = 1 /\ thread[1].role = "user")
      BY <2>1, <1>c DEF OutcomeInv
    <3>2. DOMAIN thread = 1 .. Len(thread)
      BY <1>t, LenProperties
    <3>3. thread = << >> => ~Saved("assistant")
      BY DEF Saved
    <3>4. Len(thread) = 1 /\ thread[1].role = "user" => ~Saved("assistant")
      BY <3>2 DEF Saved
    <3> QED BY <3>1, <3>3, <3>4
  <2>6. InsertLost <=> ~Saved("user")
    BY <2>1, <2>2 DEF InsertLost, InsertsOver, Sending
  <2>7. InsertLost' <=> ~Saved("user")' \/ ~Saved("assistant")'
    BY <2>1, <2>2 DEF InsertLost, InsertsOver, Sending
  <2>8. CASE thread' = Append(thread, [role |-> "assistant", tokens |-> fullResponse])
    <3> DEFINE row == [role |-> "assistant", tokens |-> fullResponse]
    <3>1. row \in Row
      BY <1>t DEF Row
    <3>2. Saved("assistant")' /\ (Saved("user")' <=> Saved("user"))
      BY <3>1, <2>8, <1>t, SavedAfterInsert
    <3>3. UNCHANGED ThreadLost
      BY <2>6, <2>7, <3>2 DEF ThreadLost
    <3>4. ThreadRows' = Append(ThreadRows, [req |-> "request", role |-> "assistant", at |-> 0])
      BY <3>1, <2>8, <1>t, ThreadRowsAppend
    <3>5. Thread!SaveReply("request")
      BY <2>3, <2>4, <3>3, <3>4, ThreadSavesReply
    <3> QED BY <3>5, <1>r
  <2>9. CASE thread' = thread
    <3>1. ~Saved("assistant")'
      BY <2>5, <2>9 DEF Saved
    <3>2. ThreadLost' = ThreadLost \cup {"request"} /\ UNCHANGED ThreadRows
      BY <2>7, <2>9, <3>1 DEF ThreadLost, ThreadRows
    <3>3. Thread!SaveReply("request")
      BY <2>3, <2>4, <3>2, ThreadSavesReply
    <3> QED BY <3>3, <1>r
  <2> QED BY <1>9, <2>8, <2>9 DEF SaveReply, Insert
<1>10. CASE SendEvent
  <2>1. wpc = "send" /\ out' = NoEvent /\ UNCHANGED <<thread, fullResponse, round>>
    BY <1>10 DEF SendEvent, effectVars
  <2>2. ~HasEmitted("done") /\ ~HasEmitted("error") /\ ToldOutcome = "none"
    BY <2>1, NotYetTold
  <2>3. /\ HasEmitted("done")' <=> out.event = "done"
        /\ HasEmitted("error")' <=> out.event = "error"
    BY <2>2, <1>10, <1>t, ToldAfterSend
  <2>4. UNCHANGED HasReply /\ \A role : Saved(role)' <=> Saved(role)
    BY <2>1 DEF HasReply, Saved
  <2>5. CASE out.event \in {"token", "status"}
    <3>1. wpc' = "range" /\ UNCHANGED ToldOutcome
      BY <1>10, <2>2, <2>3, <2>5 DEF SendEvent, ToldOutcome
    <3>2. UNCHANGED <<ThreadPC, ThreadLost>>
      BY <2>1, <2>2, <2>3, <2>5, <3>1 DEF ThreadPC, ThreadLost, InsertLost, InsertsOver, Sending
    <3> QED BY <2>1, <3>1, <3>2, <1>q
  <2>6. CASE out.event = "error"
    <3>1. wpc' = "return" /\ ToldOutcome' = "error"
      BY <1>10, <2>3, <2>6 DEF SendEvent, ToldOutcome
    <3>2. ThreadPC \in {"read", "answer"} /\ ThreadPC' = "ended"
      BY <2>1, <2>6, <3>1 DEF ThreadPC, Sending
    <3>3. UNCHANGED ThreadLost
      BY <2>1, <2>2, <2>3, <2>6, <3>1 DEF ThreadLost, InsertLost, InsertsOver, Sending
    <3>4. Thread!Fail("request")
      BY <2>1, <2>4, <3>1, <3>2, <3>3, ThreadFails
    <3> QED BY <3>4, <1>r
  <2>7. CASE out.event = "done"
    <3>1. wpc' = "report" /\ ToldOutcome' = "done"
      BY <1>10, <2>3, <2>7 DEF SendEvent, ToldOutcome
    <3>2. ThreadPC = "announce" /\ ThreadPC' = "ended"
      BY <2>1, <2>7, <3>1 DEF ThreadPC, Sending
    <3>3. UNCHANGED ThreadLost
      BY <2>1, <2>3, <2>4, <2>7, <3>1 DEF ThreadLost, InsertLost, InsertsOver, Sending
    <3>4. Thread!Announce("request")
      BY <2>1, <2>4, <3>1, <3>2, <3>3, ThreadAnnounces
    <3> QED BY <3>4, <1>r
  <2> QED BY <1>10, <2>5, <2>6, <2>7 DEF SendEvent
<1>11. CASE Report \/ WorkerReturn
  <2>1. /\ wpc \in {"report", "return"} /\ wpc' \in {"return", "exited"}
        /\ UNCHANGED <<thread, fullResponse, Emitted>>
    BY <1>11 DEF Report, WorkerReturn, Emitted, eventVars, handlerVars, effectVars
  <2>2. UNCHANGED <<ThreadPC, ToldOutcome, ThreadLost>>
    BY <2>1 DEF ThreadPC, ToldOutcome, ThreadLost, HasEmitted, InsertLost, InsertsOver, Sending, Saved
  <2> QED BY <2>1, <2>2, <1>q
<1> QED BY <1>1, <1>2, <1>3, <1>4, <1>5, <1>6, <1>7, <1>8, <1>9, <1>10, <1>11
        DEF Next, WorkerStep, HandlerStep

(* The goroutines, channels and contexts of a request together do to the   *)
(* conversations table what ThreadHistory assumes of a request: its rows   *)
(* in order, a reply only if there is a text, an outcome only after both   *)
(* inserts, and a failed insert that changes nothing else.                 *)
THEOREM PipelineImplementsThread == Spec => ImplementsThread
<1>1. Init => Thread!Init
  BY ThreadInitial
<1>2. IInv /\ [Next]_vars => [Thread!Next]_(Thread!threadVars)
  BY ThreadStep
<1> QED BY <1>1, <1>2, Invariance, PTL DEF Spec, ImplementsThread, Thread!Spec

(***************************************************************************)
(* Termination: every step lowers the rank of what is left, and no rank    *)
(* can be lowered for ever.                                                *)
(***************************************************************************)
LEMMA RankFalls ==
  ASSUME TypeOK, IInv, [Next]_vars, ~UNCHANGED vars
  PROVE  LexLess(Rank', Rank)
<1> DEFINE s == Rank'
           t == Rank
<1>t. /\ ctxDone \in BOOLEAN /\ clientGone \in BOOLEAN /\ round \in Nat /\ produced \in Nat
      /\ pending \in Seq(StreamEvent) /\ streamCh \in Seq(StreamEvent)
      /\ eventCh \in Seq(SSEvent) /\ out \in SSEvent \cup {NoEvent}
      /\ MaxIter \in Nat /\ MaxParts \in Nat
  BY MaxIterAssumption, MaxPartsAssumption DEF TypeOK, ProviderTypeOK
<1>c. /\ t[1] = (IF ctxDone THEN 0 ELSE 1) /\ s[1] = (IF ctxDone' THEN 0 ELSE 1)
      /\ t[2] = (IF clientGone THEN 0 ELSE 1) /\ s[2] = (IF clientGone' THEN 0 ELSE 1)
      /\ t[3] = MaxIter - round /\ s[3] = MaxIter - round'
      /\ t[4] = WorkerStage /\ s[4] = WorkerStage'
      /\ t[5] = ProviderStage /\ s[5] = ProviderStage'
      /\ t[6] = MaxParts - produced /\ s[6] = MaxParts - produced'
      /\ t[7] = Len(pending) /\ s[7] = Len(pending')
      /\ t[8] = Len(streamCh) /\ s[8] = Len(streamCh')
      /\ t[9] = (IF wpc = "send" THEN 1 ELSE 0) /\ s[9] = (IF wpc' = "send" THEN 1 ELSE 0)
      /\ t[10] = Len(eventCh) /\ s[10] = Len(eventCh')
      /\ t[11] = HandlerStage /\ s[11] = HandlerStage'
      /\ Len(t) = 11
  BY DEF Rank
<1> HIDE DEF s, t
<1>k. ASSUME NEW k \in 1 .. 11, s[k] < t[k], \A m \in 1 .. (k - 1) : s[m] = t[m]
      PROVE  LexLess(Rank', Rank)
  BY <1>k, <1>c DEF LexLess, s, t
\* Components that stay, from the variables that stay.
<1>w. ASSUME UNCHANGED <<wpc, out>> PROVE s[4] = t[4] /\ s[9] = t[9]
  BY <1>w, <1>c DEF WorkerStage
<1>p. ASSUME UNCHANGED <<ppc, pending, produced>> PROVE s[5] = t[5] /\ s[6] = t[6] /\ s[7] = t[7]
  BY <1>p, <1>c DEF ProviderStage
<1>e. ASSUME UNCHANGED <<ctxDone, clientGone>> PROVE s[1] = t[1] /\ s[2] = t[2]
  BY <1>e, <1>c
<1>g. ASSUME UNCHANGED <<ctxDone, clientGone, round>>, WorkerStage' < WorkerStage
      PROVE  LexLess(Rank', Rank)
  <2>1. s[4] < t[4] /\ s[1] = t[1] /\ s[2] = t[2] /\ s[3] = t[3]
    BY <1>g, <1>c, <1>e
  <2> QED BY <2>1, <1>k
<1>1. CASE StreamStep
  <2>1. /\ UNCHANGED <<ctxDone, clientGone, round, wpc, out>>
        /\ s[1] = t[1] /\ s[2] = t[2] /\ s[3] = t[3] /\ s[4] = t[4]
    <3>1. UNCHANGED <<ctxDone, clientGone, round, wpc, out>>
      BY <1>1 DEF StreamStep, ProviderStep, ScanCancelled, ScanParts, ScanUsage, EndOfBody,
                  ProviderSend, ProviderReturn, workerVars
    <3> QED BY <3>1, <1>c, <1>e, <1>w
  <2>2. CASE ScanCancelled \/ ScanUsage \/ EndOfBody \/ ProviderReturn
    <3>1. ProviderStage' < ProviderStage
      BY <2>2 DEF ScanCancelled, ScanUsage, EndOfBody, ProviderReturn, FinishWith, ProviderStage
    <3>2. s[5] < t[5]
      BY <3>1, <1>c
    <3>3. \A m \in 1 .. (5 - 1) : s[m] = t[m]
      BY <2>1
    <3> QED BY <3>2, <3>3, <1>k
  <2>3. CASE ScanParts
    <3>1. UNCHANGED ProviderStage
      BY <2>3 DEF ScanParts, ProviderStage
    <3>2. PICK line \in Lines : produced' = produced + Len(line)
      BY <2>3 DEF ScanParts
    <3>3. /\ s[1] = t[1] /\ s[2] = t[2] /\ s[3] = t[3] /\ s[4] = t[4] /\ s[5] = t[5]
      BY <2>1, <3>1, <1>c
    <3>4. s[6] < t[6]
      <4>1. Len(line) \in {1, 2}
        BY <3>2, LinesType
      <4>2. produced \in Nat /\ MaxParts \in Nat
        BY <1>t
      <4>3. s[6] = MaxParts - produced' /\ t[6] = MaxParts - produced
        BY <1>c
      <4>4. PICK n \in {1, 2} : produced' = produced + n
        BY <3>2, <4>1
      <4> QED BY <4>2, <4>3, <4>4
    <3>5. \A m \in 1 .. (6 - 1) : s[m] = t[m]
      BY <3>3
    <3> QED BY <3>4, <3>5, <1>k
  <2>4. CASE ProviderSend
    <3>1. UNCHANGED ProviderStage /\ UNCHANGED produced
      BY <2>4 DEF ProviderSend, ProviderStage
    <3>2. Len(pending') < Len(pending)
      <4>1. pending # << >> /\ pending' = Tail(pending)
        BY <2>4 DEF ProviderSend
      <4> QED BY <4>1, <1>t, TakeType, LenProperties
    <3>3. /\ s[1] = t[1] /\ s[2] = t[2] /\ s[3] = t[3] /\ s[4] = t[4] /\ s[5] = t[5]
          /\ s[6] = t[6]
      BY <2>1, <3>1, <3>2, <1>c
    <3>4. s[7] < t[7]
      BY <2>1, <3>1, <3>2, <1>c
    <3>5. \A m \in 1 .. (7 - 1) : s[m] = t[m]
      BY <3>3
    <3> QED BY <3>4, <3>5, <1>k
  <2> QED BY <1>1, <2>2, <2>3, <2>4 DEF StreamStep, ProviderStep
<1>2. CASE CallModel /\ round' = round + 1
  <2>1. s[3] < t[3] /\ s[1] = t[1] /\ s[2] = t[2]
    BY <1>2, <1>t, <1>c, <1>e DEF CallModel
  <2> QED BY <2>1, <1>k
<1>3. CASE \/ GetProvider \/ LoadHistory \/ LoopHead \/ (CallModel /\ round' # round + 1)
           \/ RangeEnd \/ RunTools \/ SaveUser \/ SaveReply \/ Report \/ WorkerReturn
  <2>1. UNCHANGED <<ctxDone, clientGone, round>>
    BY <1>3 DEF GetProvider, LoadHistory, LoopHead, CallModel, RangeEnd, RunTools, SaveUser,
                SaveReply, Report, WorkerReturn
  <2>2. WorkerStage' < WorkerStage
    BY <1>3 DEF GetProvider, LoadHistory, LoopHead, CallModel, RangeEnd, RunTools, SaveUser,
                SaveReply, Report, WorkerReturn, Emit, WorkerStage, IsOutcome
  <2> QED BY <2>1, <2>2, <1>g
<1>4. CASE RangeEvent
  <2>1. UNCHANGED <<ctxDone, clientGone, round, ppc, pending, produced>> /\ wpc = "range"
    BY <1>4 DEF RangeEvent
  <2>2. CASE wpc' = "send" /\ out'.event = "error"
    <3>1. WorkerStage' < WorkerStage
      BY <2>1, <2>2 DEF WorkerStage, IsOutcome
    <3> QED BY <2>1, <3>1, <1>g
  <2>3. CASE UNCHANGED wpc \/ (wpc' = "send" /\ out'.event \in {"token", "status"})
    <3>1. UNCHANGED WorkerStage
      BY <2>1, <2>3 DEF WorkerStage, IsOutcome
    <3>2. Len(streamCh') < Len(streamCh)
      <4>1. streamCh # << >> /\ streamCh' = Tail(streamCh)
        BY <1>4 DEF RangeEvent
      <4> QED BY <4>1, <1>t, TakeType, LenProperties
    <3>3. /\ s[1] = t[1] /\ s[2] = t[2] /\ s[3] = t[3] /\ s[4] = t[4] /\ s[5] = t[5]
          /\ s[6] = t[6] /\ s[7] = t[7]
      BY <2>1, <3>1, <3>2, <1>c, <1>e, <1>p
    <3>4. s[8] < t[8]
      BY <2>1, <3>1, <3>2, <1>c, <1>e, <1>p
    <3>5. \A m \in 1 .. (8 - 1) : s[m] = t[m]
      BY <3>3
    <3> QED BY <3>4, <3>5, <1>k
  <2> QED BY <1>4, <2>2, <2>3 DEF RangeEvent, Emit
<1>5. CASE SendEvent
  <2>1. /\ UNCHANGED <<ctxDone, clientGone, round, ppc, pending, produced, streamCh>>
        /\ wpc = "send"
    BY <1>5 DEF SendEvent, providerVars
  <2>2. CASE out.event \in {"token", "status"} /\ wpc' = "range"
    <3>1. UNCHANGED WorkerStage
      BY <2>1, <2>2 DEF WorkerStage, IsOutcome
    <3>2. /\ s[1] = t[1] /\ s[2] = t[2] /\ s[3] = t[3] /\ s[4] = t[4] /\ s[5] = t[5]
          /\ s[6] = t[6] /\ s[7] = t[7] /\ s[8] = t[8]
      BY <2>1, <2>2, <3>1, <1>c, <1>e, <1>p
    <3>3. s[9] < t[9]
      BY <2>1, <2>2, <3>1, <1>c, <1>e, <1>p
    <3>4. \A m \in 1 .. (9 - 1) : s[m] = t[m]
      BY <3>2
    <3> QED BY <3>3, <3>4, <1>k
  <2>3. CASE out.event \in {"error", "done"} /\ wpc' \in {"return", "report"}
    <3>1. WorkerStage' < WorkerStage
      BY <2>1, <2>3 DEF WorkerStage, IsOutcome
    <3> QED BY <2>1, <3>1, <1>g
  <2> QED BY <1>5, <2>2, <2>3 DEF SendEvent
<1>6. CASE HandlerReceive
  <2>1. /\ UNCHANGED <<ctxDone, clientGone, round, wpc, out, ppc, pending, produced, streamCh>>
        /\ eventCh # << >> /\ eventCh' = Tail(eventCh)
    BY <1>6 DEF HandlerReceive, providerVars, workerVars
  <2>2. Len(eventCh') < Len(eventCh)
    BY <2>1, <1>t, TakeType, LenProperties
  <2>3. /\ s[1] = t[1] /\ s[2] = t[2] /\ s[3] = t[3] /\ s[4] = t[4] /\ s[5] = t[5]
        /\ s[6] = t[6] /\ s[7] = t[7] /\ s[8] = t[8] /\ s[9] = t[9]
    BY <2>1, <2>2, <1>c, <1>e, <1>p, <1>w
  <2>4. s[10] < t[10]
    BY <2>1, <2>2, <1>c, <1>e, <1>p, <1>w
  <2>5. \A m \in 1 .. (10 - 1) : s[m] = t[m]
    BY <2>3
  <2> QED BY <2>4, <2>5, <1>k
<1>7. CASE HandlerSelect \/ HandlerEnd
  <2>1. /\ UNCHANGED <<clientGone, round, wpc, out, ppc, pending, produced, streamCh, eventCh>>
        /\ ctxDone => ctxDone'
    BY <1>7, <1>t DEF HandlerSelect, HandlerEnd, providerVars, workerVars, eventVars
  <2>2. HandlerStage' < HandlerStage
    BY <1>7 DEF HandlerSelect, HandlerEnd, HandlerStage
  <2>3. CASE ~ctxDone /\ ctxDone'
    BY <2>3, <1>c, <1>k
  <2>4. CASE ctxDone \/ ~ctxDone'
    <3>1. s[1] = t[1]
      BY <2>1, <2>4, <1>c
    <3>2. /\ s[2] = t[2] /\ s[3] = t[3] /\ s[4] = t[4] /\ s[5] = t[5] /\ s[6] = t[6]
          /\ s[7] = t[7] /\ s[8] = t[8] /\ s[9] = t[9] /\ s[10] = t[10]
      BY <2>1, <1>c, <1>p, <1>w
    <3>3. /\ s[1] = t[1] /\ s[2] = t[2] /\ s[3] = t[3] /\ s[4] = t[4] /\ s[5] = t[5]
          /\ s[6] = t[6] /\ s[7] = t[7] /\ s[8] = t[8] /\ s[9] = t[9] /\ s[10] = t[10]
      BY <2>2, <3>1, <3>2, <1>c
    <3>4. s[11] < t[11]
      BY <2>2, <3>1, <3>2, <1>c
    <3>5. \A m \in 1 .. (11 - 1) : s[m] = t[m]
      BY <3>3
    <3> QED BY <3>4, <3>5, <1>k
  <2> QED BY <2>3, <2>4
<1>8. CASE ClientLeaves \/ Deadline
  <2>1. CASE ~ctxDone
    <3>1. s[1] < t[1]
      BY <1>8, <2>1, <1>c DEF ClientLeaves, Deadline
    <3> QED BY <3>1, <1>k
  <2>2. CASE ctxDone
    <3>1. s[1] = t[1] /\ s[2] < t[2]
      BY <1>8, <2>2, <1>c DEF ClientLeaves, Deadline
    <3> QED BY <3>1, <1>k
  <2> QED BY <2>1, <2>2
<1> QED BY <1>1, <1>2, <1>3, <1>4, <1>5, <1>6, <1>7, <1>8 DEF Next, WorkerStep, HandlerStep

(* Every step brings the request nearer its end: of the goroutines, of the *)
(* client that leaves and of the deadline that passes.                     *)
THEOREM ChatStepsCount == Spec => RequestRunsOut
<1>1. TypeOK /\ IInv /\ [Next]_vars => [LexLess(Rank', Rank)]_vars
  BY RankFalls
<1> QED BY <1>1, TypeCorrect, Invariance, PTL DEF Spec, RequestRunsOut

\* The ranks a request can have, and their order as a relation.
NatLess == OpToRel(<, Nat)
Ranks == [1 .. 11 -> Nat]
RankOrder == LexProductOrdering(NatLess, Nat, 11)
GoesDown == Rank \in Ranks /\ Rank' \in Ranks /\ <<Rank', Rank>> \in RankOrder

LEMMA RankType == IInv => Rank \in Ranks
<1> SUFFICES ASSUME IInv PROVE Rank \in Ranks
  OBVIOUS
<1>1. MaxIter - round \in Nat
  BY MaxIterAssumption DEF IInv, TypeOK, ConsumeInv
<1>2. WorkerStage \in Nat
  <2>1. wpc \in WPC
    BY DEF IInv, TypeOK
  <2>2. CASE wpc = "send"
    BY <2>2 DEF WorkerStage
  <2>3. CASE wpc # "send"
    BY <2>1, <2>3 DEF WPC, WorkerStage
  <2> QED BY <2>2, <2>3
<1>3. ProviderStage \in Nat /\ HandlerStage \in Nat
  BY DEF IInv, TypeOK, ProviderTypeOK, PPC, HPC, ProviderStage, HandlerStage
<1>4. MaxParts - produced \in Nat
  BY MaxPartsAssumption DEF IInv, TypeOK, ProviderTypeOK
<1>5. Len(pending) \in Nat /\ Len(streamCh) \in Nat /\ Len(eventCh) \in Nat
  BY LenProperties DEF IInv, TypeOK, ProviderTypeOK
<1>6. \A k \in 1 .. 11 : Rank[k] \in Nat
  <2> DEFINE r == Rank
  <2>1. r[1] \in Nat /\ r[2] \in Nat /\ r[3] \in Nat
    BY <1>1 DEF Rank
  <2>2. r[4] \in Nat /\ r[5] \in Nat /\ r[6] \in Nat
    BY <1>2, <1>3, <1>4 DEF Rank
  <2>3. r[7] \in Nat /\ r[8] \in Nat /\ r[9] \in Nat
    BY <1>5 DEF Rank
  <2>4. r[10] \in Nat /\ r[11] \in Nat
    BY <1>3, <1>5 DEF Rank
  <2> HIDE DEF r
  <2>5. ASSUME NEW k \in 1 .. 11 PROVE r[k] \in Nat
    <3>1. k \in {1, 2, 3, 4, 5, 6, 7, 8, 9, 10, 11}
      BY <2>5
    <3> QED BY <3>1, <2>1, <2>2, <2>3, <2>4
  <2> QED BY <2>5 DEF r
<1>7. Rank = [k \in 1 .. 11 |-> Rank[k]]
  BY DEF Rank
<1> QED BY <1>6, <1>7 DEF Ranks

(* The steps of a request run out: each of them goes down in an order in   *)
(* which nothing goes down for ever.  No fairness is assumed, and none of  *)
(* the bounds is fixed.                                                    *)
THEOREM ChatRequestsAreFinite ==
  /\ IsWellFoundedOn(RankOrder, Ranks)
  /\ Spec => [][GoesDown]_vars
<1>1. IsWellFoundedOn(RankOrder, Ranks)
  <2>1. IsWellFoundedOn(NatLess, Nat)
    BY NatLessThanWellFounded DEF NatLess
  <2> QED BY <2>1, WFLexProductOrdering DEF RankOrder, Ranks
<1> DEFINE Ranked == Rank \in Ranks
<1>2. Spec => []Ranked
  BY RankType, Invariance, PTL
<1>3. Ranked /\ Ranked' /\ [LexLess(Rank', Rank)]_vars => [GoesDown]_vars
  <2> SUFFICES ASSUME Rank \in Ranks, Rank' \in Ranks, LexLess(Rank', Rank)
               PROVE  <<Rank', Rank>> \in RankOrder
    BY DEF GoesDown
  <2>1. Len(Rank) = 11
    BY DEF Rank
  <2>2. PICK k \in 1 .. 11 : Rank'[k] < Rank[k] /\ \A m \in 1 .. (k - 1) : Rank'[m] = Rank[m]
    BY <2>1 DEF LexLess
  <2>3. <<Rank'[k], Rank[k]>> \in NatLess
    BY <2>2 DEF NatLess, OpToRel, Ranks
  <2> QED BY <2>2, <2>3 DEF RankOrder, LexProductOrdering, Ranks
<1>4. Spec => [][GoesDown]_vars
  BY <1>2, <1>3, ChatStepsCount, PTL DEF RequestRunsOut
<1> QED BY <1>1, <1>4
=============================================================================
