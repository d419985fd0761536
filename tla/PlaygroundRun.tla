---------------------------- MODULE PlaygroundRun ----------------------------
(***************************************************************************)
(* One playground request: the handler (StreamChat or Delegate), the run   *)
(* it starts (PlaygroundRunner.Run), and the runs of the agents that run   *)
(* delegates to, each a goroutine with an event channel of its own.  A run *)
(* waits for the one it started, so they form a chain: level 1 is the      *)
(* handler's run, level i + 1 the run level i is waiting for.              *)
(*                                                                         *)
(* The provider's stream is taken event by event as it comes: the loop     *)
(* that consumes it is ChatPipeline's, where the provider is modelled.     *)
(***************************************************************************)
EXTENDS Naturals, Sequences, LexRank

CONSTANTS
  EventCap,   \* capacity of a run's event channel (64 in the code)
  MaxIter,    \* reasoning iterations (10 in the code)
  MaxParts,   \* model bound: parts one model answer contains
  MaxDepth    \* model bound: the code has none on delegation

ASSUME RunAssumption ==
  /\ EventCap \in Nat \ {0}
  /\ MaxIter \in Nat
  /\ MaxParts \in Nat
  /\ MaxDepth \in Nat \ {0}

VARIABLES
  route,     \* which handler serves the request: "chat" or "delegate"
  hpc,       \* where the handler is
  answer,    \* the status it answers with: "none", "ok" or "failed"
  ctxDone,   \* the request context is over
  convLive,  \* the conversation the request writes to exists
  rows,      \* the roles of the messages the request added to it
  pc,        \* where each level's goroutine is
  ch,        \* each level's event channel; it is closed when pc is "exited"
  heard,     \* the last event taken from it
  iter,      \* iterations completed
  parts,     \* parts of the current answer received
  calls      \* tool calls of the current answer not dispatched yet

levelVars == <<pc, ch, heard, iter, parts, calls>>
requestVars == <<route, hpc, answer, ctxDone, convLive, rows>>
runVars == <<requestVars, levelVars>>

Level == 1 .. MaxDepth
Progress == {"token", "status"}
Outcome == {"done", "error"}
SSEvent == Progress \cup Outcome

\* "lookup": agent, provider and history; "drain": reading the channel of the
\* next level; "return": after the last send, before the deferred close.
PC == {"idle", "lookup", "loop", "call", "range", "dispatch", "drain",
       "saveUser", "saveReply", "done", "return", "exited"}
\* "write": StreamChat is in w.Write of the event it took; "returned": Delegate
\* has only its answer left to write, for which no run waits.
HPC == {"check", "select", "read", "write", "returned"}

TypeOK ==
  /\ route \in {"chat", "delegate"} /\ hpc \in HPC
  /\ answer \in {"none", "ok", "failed"}
  /\ ctxDone \in BOOLEAN /\ convLive \in BOOLEAN
  /\ rows \in Seq({"user", "assistant"})
  /\ pc \in [Level -> PC]
  /\ ch \in [Level -> Seq(SSEvent)]
  /\ \A i \in Level : Len(ch[i]) <= EventCap
  /\ heard \in [Level -> SSEvent \cup {"none"}]
  /\ iter \in [Level -> 0 .. MaxIter]
  /\ parts \in [Level -> 0 .. MaxParts]
  /\ calls \in [Level -> 0 .. MaxParts]

Init ==
  /\ route \in {"chat", "delegate"}
  /\ hpc = "check" /\ answer = "none"
  /\ ctxDone = FALSE /\ convLive = FALSE
  /\ rows = << >>
  /\ pc = [i \in Level |-> "idle"]
  /\ ch = [i \in Level |-> << >>]
  /\ heard = [i \in Level |-> "none"]
  /\ iter = [i \in Level |-> 0]
  /\ parts = [i \in Level |-> 0]
  /\ calls = [i \in Level |-> 0]

(***************************************************************************)
(* The goroutine of a level.  A send blocks until the channel has room, so *)
(* a step that sends is not enabled before.                                *)
(***************************************************************************)
Goto(i, l) == pc' = [pc EXCEPT ![i] = l]

Emit(i, e) ==
  /\ Len(ch[i]) < EventCap
  /\ ch' = [ch EXCEPT ![i] = Append(@, e)]

\* Only the run of StreamChat has a conversation.
HasConversation(i) == i = 1 /\ route = "chat"

\* An event that ends the run, whose last answer is not read again.
Finish(i, e) ==
  /\ Emit(i, e)
  /\ Goto(i, "return")
  /\ parts' = [parts EXCEPT ![i] = 0]
  /\ calls' = [calls EXCEPT ![i] = 0]
  /\ UNCHANGED <<requestVars, heard, iter>>

\* The agent, owned by the visitor and still there, its model, its history.
Lookup(i) ==
  /\ pc[i] = "lookup"
  /\ \/ Finish(i, "error")
     \/ Goto(i, "loop") /\ UNCHANGED <<requestVars, ch, heard, iter, parts, calls>>

\* Defect: after the last iteration the run falls out of the loop.
LoopHeadFallsThrough(i) ==
  /\ pc[i] = "loop"
  /\ IF iter[i] = MaxIter
     THEN Goto(i, "return") /\ UNCHANGED <<requestVars, ch, heard, iter, parts, calls>>
     ELSE IF ctxDone
     THEN Finish(i, "error")
     ELSE Goto(i, "call") /\ UNCHANGED <<requestVars, ch, heard, iter, parts, calls>>

LoopHead(i) ==
  /\ pc[i] = "loop"
  /\ IF iter[i] = MaxIter \/ ctxDone
     THEN Finish(i, "error")   \* "max iterations reached", "timeout"
     ELSE Goto(i, "call") /\ UNCHANGED <<requestVars, ch, heard, iter, parts, calls>>

CallModel(i) ==
  /\ pc[i] = "call"
  /\ \/ Finish(i, "error")
     \/ /\ Goto(i, "range")
        /\ parts' = [parts EXCEPT ![i] = 0]
        /\ calls' = [calls EXCEPT ![i] = 0]
        /\ UNCHANGED <<requestVars, ch, heard, iter>>

RangePart(i) ==
  /\ pc[i] = "range" /\ parts[i] < MaxParts
  /\ parts' = [parts EXCEPT ![i] = @ + 1]
  /\ \/ Emit(i, "token") /\ UNCHANGED calls
     \/ Emit(i, "status") /\ calls' = [calls EXCEPT ![i] = @ + 1]
  /\ UNCHANGED <<requestVars, pc, heard, iter>>

RangeError(i) == pc[i] = "range" /\ Finish(i, "error")

\* The stream is closed: tool calls to dispatch, or the final answer.
RangeEnd(i) ==
  /\ pc[i] = "range"
  /\ Goto(i, IF calls[i] > 0 THEN "dispatch"
             ELSE IF HasConversation(i) THEN "saveUser" ELSE "done")
  /\ UNCHANGED <<requestVars, ch, heard, iter, parts, calls>>

\* An HTTP tool, a refusal of its limiter, or an unknown tool: a text result.
DispatchTool(i) ==
  /\ pc[i] = "dispatch" /\ calls[i] > 0
  /\ calls' = [calls EXCEPT ![i] = @ - 1]
  /\ UNCHANGED <<requestVars, pc, ch, heard, iter, parts>>

\* A new run takes the level: a fresh channel, and its goroutine.
StartLevel(j, pcs, chs) ==
  /\ pc' = [pcs EXCEPT ![j] = "lookup"]
  /\ ch' = [chs EXCEPT ![j] = << >>]
  /\ heard' = [heard EXCEPT ![j] = "none"]
  /\ iter' = [iter EXCEPT ![j] = 0]

\* A delegate tool: a status event, then a run of the other agent.
DispatchDelegate(i) ==
  /\ pc[i] = "dispatch" /\ calls[i] > 0
  /\ i < MaxDepth
  /\ Len(ch[i]) < EventCap
  /\ StartLevel(i + 1, [pc EXCEPT ![i] = "drain"], [ch EXCEPT ![i] = Append(@, "status")])
  /\ UNCHANGED <<requestVars, parts, calls>>

\* Defect: an iteration that called tools is not counted.
DispatchEndUncounted(i) ==
  /\ pc[i] = "dispatch" /\ calls[i] = 0
  /\ Goto(i, "loop")
  /\ UNCHANGED <<requestVars, ch, heard, iter, parts, calls>>

\* The next answer is collected from nothing.
DispatchEnd(i) ==
  /\ pc[i] = "dispatch" /\ calls[i] = 0
  /\ iter' = [iter EXCEPT ![i] = @ + 1]
  /\ parts' = [parts EXCEPT ![i] = 0]
  /\ Goto(i, "loop")
  /\ UNCHANGED <<requestVars, ch, heard, calls>>

\* The head of level j's channel is taken.
Take(j) ==
  /\ ch[j] # << >>
  /\ ch' = [ch EXCEPT ![j] = Tail(@)]
  /\ heard' = [heard EXCEPT ![j] = Head(ch[j])]

Closed(j) == pc[j] = "exited" /\ ch[j] = << >>

\* The parent keeps the tokens and ignores every other event, errors too.
DrainTakes(i) ==
  /\ pc[i] = "drain"
  /\ Take(i + 1)
  /\ UNCHANGED <<requestVars, pc, iter, parts, calls>>

\* Defect: a parent whose client is gone does not read to the end.
DrainEndsWhenLeft(i) ==
  /\ pc[i] = "drain"
  /\ Closed(i + 1) \/ ctxDone
  /\ calls' = [calls EXCEPT ![i] = @ - 1]
  /\ Goto(i, "dispatch")
  /\ UNCHANGED <<requestVars, ch, heard, iter, parts>>

DrainEnds(i) ==
  /\ pc[i] = "drain"
  /\ Closed(i + 1)
  /\ calls' = [calls EXCEPT ![i] = @ - 1]
  /\ Goto(i, "dispatch")
  /\ UNCHANGED <<requestVars, ch, heard, iter, parts>>

\* AddMessage fails, unnoticed, when the conversation is gone.
AddMessage(role) == rows' = IF convLive THEN Append(rows, role) ELSE rows

SaveUser(i) ==
  /\ pc[i] = "saveUser"
  /\ AddMessage("user")
  /\ Goto(i, "saveReply")
  /\ UNCHANGED <<route, hpc, answer, ctxDone, convLive, ch, heard, iter, parts, calls>>

\* Defect: an empty answer is not stored, as in the orchestrator.
SaveReplyIfAny(i) ==
  /\ pc[i] = "saveReply"
  /\ IF parts[i] = 0 THEN UNCHANGED rows ELSE AddMessage("assistant")
  /\ Goto(i, "done")
  /\ UNCHANGED <<route, hpc, answer, ctxDone, convLive, ch, heard, iter, parts, calls>>

SaveReply(i) ==
  /\ pc[i] = "saveReply"
  /\ AddMessage("assistant")
  /\ Goto(i, "done")
  /\ UNCHANGED <<route, hpc, answer, ctxDone, convLive, ch, heard, iter, parts, calls>>

Done(i) == pc[i] = "done" /\ Finish(i, "done")

\* Defect: the channel is not closed (the defer is missing).
ReturnKeepsOpen(i) ==
  /\ pc[i] = "return"
  /\ Goto(i, "idle")
  /\ UNCHANGED <<requestVars, ch, heard, iter, parts, calls>>

\* executeAgent returned: the deferred close.
Return(i) ==
  /\ pc[i] = "return"
  /\ Goto(i, "exited")
  /\ UNCHANGED <<requestVars, ch, heard, iter, parts, calls>>

LevelStep(i) ==
  \/ Lookup(i) \/ LoopHead(i) \/ CallModel(i)
  \/ RangePart(i) \/ RangeError(i) \/ RangeEnd(i)
  \/ DispatchTool(i) \/ DispatchDelegate(i) \/ DispatchEnd(i)
  \/ DrainTakes(i) \/ DrainEnds(i)
  \/ SaveUser(i) \/ SaveReply(i) \/ Done(i) \/ Return(i)

(***************************************************************************)
(* The handler.  Its return cancels the request context.                   *)
(***************************************************************************)
HandlerReturns(a) ==
  /\ hpc' = "returned" /\ answer' = a
  /\ ctxDone' = TRUE

StartRun ==
  /\ StartLevel(1, pc, ch)
  /\ hpc' = "read"
  /\ UNCHANGED <<route, answer, ctxDone, rows, parts, calls>>

\* A bad body, an unknown agent, or no room for a conversation.
Refuse ==
  /\ hpc = "check"
  /\ HandlerReturns("failed")
  /\ UNCHANGED <<route, convLive, rows, levelVars>>

\* StreamChat found or created the conversation; gin's c.Stream comes next.
AcceptChat ==
  /\ hpc = "check" /\ route = "chat"
  /\ hpc' = "select" /\ convLive' = TRUE
  /\ UNCHANGED <<route, answer, ctxDone, rows, levelVars>>

AcceptDelegate ==
  /\ hpc = "check" /\ route = "delegate"
  /\ StartRun /\ UNCHANGED convLive

\* c.Stream looks at the connection before its one and only step.
SelectGone ==
  /\ hpc = "select" /\ ctxDone
  /\ HandlerReturns("none")
  /\ UNCHANGED <<route, convLive, rows, levelVars>>

SelectRun ==
  /\ hpc = "select" /\ ~ctxDone
  /\ StartRun /\ UNCHANGED convLive

\* Defect: the reader gives up as soon as its client is gone.
ReadEventWhileServed ==
  /\ hpc = "read"
  /\ \/ /\ ctxDone /\ HandlerReturns("none")
        /\ UNCHANGED <<route, convLive, rows, levelVars>>
     \/ /\ ~ctxDone /\ Take(1)
        /\ hpc' = IF route = "chat" THEN "write" ELSE "read"
        /\ UNCHANGED <<route, answer, ctxDone, convLive, rows, pc, iter, parts, calls>>

\* StreamChat writes every event, also when its client has left; Delegate
\* collects the tokens and answers at once when it finds an error.
ReadEvent ==
  /\ hpc = "read"
  /\ Take(1)
  /\ IF route = "delegate" /\ Head(ch[1]) = "error"
     THEN HandlerReturns("failed")
     ELSE /\ hpc' = IF route = "chat" THEN "write" ELSE "read"
          /\ UNCHANGED <<answer, ctxDone>>
  /\ UNCHANGED <<route, convLive, rows, pc, iter, parts, calls>>

\* The write was taken by the connection's buffers or has failed, which the
\* handler does not look at.
WriteReturns ==
  /\ hpc = "write"
  /\ hpc' = "read"
  /\ UNCHANGED <<route, answer, ctxDone, convLive, rows, levelVars>>

ReadEnd ==
  /\ hpc = "read"
  /\ Closed(1)
  /\ HandlerReturns("ok")
  /\ UNCHANGED <<route, convLive, rows, levelVars>>

HandlerStep ==
  \/ Refuse \/ AcceptChat \/ AcceptDelegate \/ SelectGone \/ SelectRun
  \/ ReadEvent \/ WriteReturns \/ ReadEnd

(***************************************************************************)
(* The environment.                                                        *)
(***************************************************************************)
ClientLeaves ==
  /\ ~ctxDone
  /\ ctxDone' = TRUE
  /\ UNCHANGED <<route, hpc, answer, convLive, rows, levelVars>>

\* Nobody renewed the conversation for its time to live: the store swept it.
ConversationExpires ==
  /\ convLive
  /\ convLive' = FALSE
  /\ UNCHANGED <<route, hpc, answer, ctxDone, rows, levelVars>>

Next ==
  \/ \E i \in Level : LevelStep(i)
  \/ HandlerStep \/ ClientLeaves \/ ConversationExpires

Spec == Init /\ [][Next]_runVars

\* A write to a client that is there but does not read may never return: the
\* server sets no write timeout and the request no deadline.
ClientStalls == hpc = "write" /\ ~ctxDone

Fairness ==
  /\ WF_runVars(HandlerStep /\ ~ClientStalls)
  /\ \A i \in Level : WF_runVars(LevelStep(i))

FairSpec == Spec /\ Fairness

(***************************************************************************)
(* Properties.                                                             *)
(***************************************************************************)
Running(i) == pc[i] \notin {"idle", "return", "exited"}

(* Whoever reads a run's channel hears exactly one outcome, as the last    *)
(* event before the channel closes.  Delegate returns at the first error   *)
(* and relies on it, as does its 200 when the channel closes.              *)
OneOutcomeLast ==
  \A i \in Level :
    /\ \A k \in 1 .. Len(ch[i]) : ch[i][k] \in Outcome => k = Len(ch[i])
    /\ heard[i] \in Outcome => ch[i] = << >> /\ ~Running(i)
    /\ Closed(i) => heard[i] \in Outcome

(* No goroutine outlives the request: when the handler has returned, the   *)
(* run it started can only close its channel, and every run that one       *)
(* delegated to has ended, also when the client left long before.          *)
NothingLeftRunning ==
  hpc = "returned" => \A i \in Level : ~Running(i)

(* A run is active only while every run above it waits for the next one:   *)
(* no level is started again, its channel replaced, while it is in use.    *)
DelegationNests ==
  \A i \in Level : pc[i] \notin {"idle", "exited"} =>
    \A j \in 1 .. (i - 1) : pc[j] = "drain"

(* What a conversation receives from a request: nothing when the request   *)
(* failed, and the whole exchange when it is done and the conversation was *)
(* not swept meanwhile, whatever its sub-runs did.                         *)
ExchangeWholeOrAbsent ==
  /\ heard[1] = "error" => rows = << >>
  /\ heard[1] = "done" /\ convLive => rows = <<"user", "assistant">>

(* A delegation answers 200 only for a run that reached its answer.        *)
DelegateAnswersOnlyDone ==
  route = "delegate" /\ hpc = "returned" => (answer = "ok" <=> heard[1] = "done")

Inactive(i) == pc[i] \in {"idle", "exited"}
AllEnded == hpc = "returned" /\ \A i \in Level : Inactive(i)

\* Where the code may have to wait: before it sends, wherever it may send
\* next, while its channel is full, and when it reads an empty one.
WaitsForRoom(i) ==
  /\ pc[i] \in {"lookup", "loop", "call", "range", "dispatch", "done"}
  /\ Len(ch[i]) = EventCap
WaitsForEvent(i) == pc[i] = "drain" /\ ch[i + 1] = << >> /\ pc[i + 1] # "exited"
HandlerWaits == hpc = "read" /\ ch[1] = << >> /\ pc[1] # "exited"

(* No chain of delegations, whether its client stayed or left, waits for   *)
(* itself: somebody reads every channel that is full.  A handler in the    *)
(* middle of a write waits for its client, not for the chain, and is not   *)
(* among the states this is about.                                         *)
NeverStuck ==
  /\ \A i \in Level : Inactive(i) \/ WaitsForRoom(i) \/ WaitsForEvent(i)
  /\ hpc = "returned" \/ HandlerWaits
  => AllEnded

(* Every request ends, with every goroutine it started, whether its client *)
(* reads on or leaves: no reader stops reading a channel somebody fills.   *)
(* A client that stays and stops reading is the only exception: the write  *)
(* to it holds the handler, and the runs below, for ever.                  *)
EverythingEnds == <>[]AllEnded \/ <>[]ClientStalls

(***************************************************************************)
(* What is left of a request: a lexicographic rank of natural numbers.     *)
(***************************************************************************)
HandlerStage == [check |-> 3, select |-> 2, read |-> 1, write |-> 1, returned |-> 0]
Stage == [lookup |-> 9, loop |-> 8, call |-> 7, range |-> 6, dispatch |-> 5, drain |-> 5,
          saveUser |-> 4, saveReply |-> 3, done |-> 2, return |-> 1, exited |-> 0, idle |-> 0]

RequestRank ==
  <<HandlerStage[hpc], IF ctxDone THEN 0 ELSE 1, IF convLive THEN 1 ELSE 0>>

\* A call whose run is being drained is half done.
CallsLeft(i) == IF pc[i] = "drain" THEN 2 * calls[i] - 1 ELSE 2 * calls[i]

\* An event that is being written is half delivered.
EventsLeft(i) ==
  IF i = 1 /\ hpc = "write" THEN 2 * Len(ch[i]) + 1 ELSE 2 * Len(ch[i])

LevelRank(i) ==
  <<MaxIter - iter[i], Stage[pc[i]], MaxParts - parts[i], CallsLeft(i), EventsLeft(i)>>

LevelsDescend ==
  \E i \in Level : LexLess(LevelRank(i)', LevelRank(i))
                  /\ \A j \in 1 .. (i - 1) : LevelRank(j)' = LevelRank(j)

(* No step of anybody is taken in vain: it brings the handler, or the      *)
(* first run of the chain that it changes, nearer its end, however many    *)
(* events, iterations and delegations it causes below.  So a request does  *)
(* finitely many steps, whatever its models answer.                        *)
StepsRunOut ==
  [][\/ LexLess(RequestRank', RequestRank)
     \/ RequestRank' = RequestRank /\ LevelsDescend]_runVars

(***************************************************************************)
(* The inductive invariant.                                                *)
(***************************************************************************)
\* The reader of level i's channel was told e, or is going to be.
Told(i, e) == heard[i] = e \/ \E k \in 1 .. Len(ch[i]) : ch[i][k] = e

\* A run sends its outcome in the step that ends it.
TellInv ==
  \A i \in Level :
    /\ Running(i) => \A e \in Outcome : ~Told(i, e)
    /\ pc[i] \in {"return", "exited"} => \E e \in Outcome : Told(i, e)
    /\ pc[i] = "idle" => ch[i] = << >> /\ heard[i] = "none"

\* What the counters allow at each position.
CountInv ==
  \A i \in Level :
    /\ Running(i) /\ pc[i] \notin {"lookup", "loop"} => iter[i] < MaxIter
    /\ calls[i] <= parts[i]
    /\ pc[i] = "drain" => calls[i] > 0 /\ i < MaxDepth

HandlerInv ==
  /\ hpc \in {"check", "select"} => \A i \in Level : pc[i] = "idle"
  /\ hpc = "returned" => ~Running(1)
  /\ route = "delegate" => ~convLive /\ hpc # "write" /\ (hpc = "read" => heard[1] # "error")

\* The position of the handler's run determines what it has stored.
RowsInv ==
  /\ pc[1] \notin {"saveReply", "done", "return", "exited"} => rows = << >>
  /\ pc[1] = "saveReply" /\ convLive => rows = <<"user">>
  /\ pc[1] = "done" /\ convLive => rows = <<"user", "assistant">>
  /\ Told(1, "error") => rows = << >>
  /\ Told(1, "done") /\ convLive => rows = <<"user", "assistant">>
  /\ \A i \in Level : pc[i] \in {"saveUser", "saveReply"} => HasConversation(i)

\* The active levels are the first ones, down to some depth.
ActiveTo(d) == \A i \in Level : Inactive(i) <=> i > d

\* Who reads a channel has started its run.
ChainInv ==
  /\ \E d \in 0 .. MaxDepth : ActiveTo(d)
  /\ hpc \in {"read", "write"} => pc[1] # "idle"
  /\ \A i \in Level : pc[i] = "drain" => pc[i + 1] # "idle"

RunInv ==
  /\ TypeOK /\ OneOutcomeLast /\ DelegationNests /\ DelegateAnswersOnlyDone
  /\ TellInv /\ CountInv /\ HandlerInv /\ RowsInv
=============================================================================
