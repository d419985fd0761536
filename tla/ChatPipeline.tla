---------------------------- MODULE ChatPipeline ----------------------------
(***************************************************************************)
(* One chat request: three goroutines, two bounded channels, one context.  *)
(*                                                                         *)
(*   provider  streamResponse of an llm provider        (module LLMStream) *)
(*      | streamCh                                                         *)
(*   worker    Orchestrator.executeLoop    (internal/service/orchestrator) *)
(*      | eventCh                                                          *)
(*   handler   ChatHandler.Stream inside gin's c.Stream (internal/handler) *)
(*                                                                         *)
(* The request context ends when the client leaves, when the LLM timeout   *)
(* passes, or when the handler returns; nothing else connects the three.   *)
(***************************************************************************)
EXTENDS LLMStream, FiniteSets, LexRank

CONSTANTS
  EventCap,  \* capacity of eventCh (64 in the code)
  MaxIter    \* maxReasoningIterations (10 in the code)

ASSUME EventCapAssumption == EventCap \in Nat \ {0}
ASSUME MaxIterAssumption == MaxIter \in Nat \ {0}

VARIABLES
  \* worker
  wpc,          \* where executeLoop is
  out,          \* the event it is sending on eventCh
  round,        \* streams opened so far (i, once the stream of i is open)
  hasToolCalls, \* the current answer asked for a tool
  content,      \* iterationContent: how many tokens it has
  fullResponse, \* the reply to persist: how many tokens, 0 is ""
  usage,        \* answers whose usage is in totalInputTokens, totalOutputTokens
  \* channel to the handler
  eventCh, eventClosed,
  \* handler and client
  hpc,          \* where the handler is
  received,     \* events the handler took and wrote to the connection
  clientGone,   \* the connection is lost: gin's CloseNotify fired
  \* outside effects
  thread,       \* rows this exchange inserted into conversations
  dbFailed,     \* an insert failed although the context was alive
  traces        \* what was handed to TelemetryService.ReportAsync

workerVars == <<wpc, out, round, hasToolCalls, content, fullResponse, usage>>
eventVars == <<eventCh, eventClosed>>
handlerVars == <<hpc, received>>
effectVars == <<thread, dbFailed, traces>>
vars == <<ctxDone, providerVars, workerVars, eventVars, handlerVars, clientGone,
          effectVars>>

EventName == {"token", "status", "error", "done"}
SSEvent == [event : EventName, round : Nat]
NoEvent == [event |-> "none", round |-> 0]
Row == [role : {"user", "assistant"}, tokens : Nat]

WPC == {"provider", "history", "loop", "call", "range", "tools", "saveUser",
        "saveReply", "send", "report", "return", "exited"}
HPC == {"select", "receive", "returned"}

(***************************************************************************)
(* State functions.                                                        *)
(***************************************************************************)
Emitted == received \o eventCh          \* every event sent, in order
IsOutcome(e) == e.event \in {"done", "error"}
HasEmitted(name) == \E k \in 1 .. Len(Emitted) : Emitted[k].event = name
EmittedAs(name, r) ==
  {k \in 1 .. Len(Emitted) : Emitted[k] = [event |-> name, round |-> r]}
TokensOfRound(r) == Cardinality(EmittedAs("token", r))
Saved(role) == \E k \in DOMAIN thread : thread[k].role = role

TypeOK ==
  /\ ProviderTypeOK
  /\ wpc \in WPC
  /\ out \in SSEvent \cup {NoEvent}
  /\ round \in Nat
  /\ hasToolCalls \in BOOLEAN
  /\ content \in Nat
  /\ fullResponse \in Nat
  /\ usage \in Nat
  /\ eventCh \in Seq(SSEvent)
  /\ eventClosed \in BOOLEAN
  /\ hpc \in HPC
  /\ received \in Seq(SSEvent)
  /\ clientGone \in BOOLEAN
  /\ thread \in Seq(Row)
  /\ dbFailed \in BOOLEAN
  /\ traces \in Seq(Nat)

Init ==
  /\ ProviderInit
  /\ ctxDone = FALSE
  /\ wpc = "provider"
  /\ out = NoEvent
  /\ round = 0
  /\ hasToolCalls = FALSE
  /\ content = 0 /\ fullResponse = 0 /\ usage = 0
  /\ eventCh = << >> /\ eventClosed = FALSE
  /\ hpc = "select"
  /\ received = << >>
  /\ clientGone = FALSE
  /\ thread = << >> /\ dbFailed = FALSE /\ traces = << >>

(***************************************************************************)
(* The worker.                                                             *)
(***************************************************************************)
\* Go on to  eventCh <- SSEvent{...}  (the send itself is SendEvent).
Emit(name) ==
  /\ out' = [event |-> name, round |-> round]
  /\ wpc' = "send"

\* fabric.GetProvider finds no provider: "model not available".
GetProvider ==
  /\ wpc = "provider"
  /\ \/ wpc' = "history" /\ UNCHANGED out
     \/ Emit("error")
  /\ UNCHANGED <<ctxDone, providerVars, round, hasToolCalls, content,
                 fullResponse, usage, eventVars, handlerVars, clientGone, effectVars>>

\* Defect: GetHistory is retried until it succeeds.
LoadHistoryRetries ==
  /\ wpc = "history"
  /\ ~ctxDone
  /\ wpc' = "loop"
  /\ UNCHANGED <<ctxDone, providerVars, out, round, hasToolCalls, content,
                 fullResponse, usage, eventVars, handlerVars, clientGone, effectVars>>

\* GetHistory, which database/sql refuses once the context is done.
LoadHistory ==
  /\ wpc = "history"
  /\ \/ ~ctxDone /\ wpc' = "loop" /\ UNCHANGED out
     \/ Emit("error")
  /\ UNCHANGED <<ctxDone, providerVars, round, hasToolCalls, content,
                 fullResponse, usage, eventVars, handlerVars, clientGone, effectVars>>

\* The head of the reasoning loop: the bound on i, then the context.
LoopHead ==
  /\ wpc = "loop"
  /\ \/ round = MaxIter /\ wpc' = "saveUser" /\ UNCHANGED out
     \/ round < MaxIter /\ ctxDone /\ Emit("error")
     \/ round < MaxIter /\ ~ctxDone /\ wpc' = "call" /\ UNCHANGED out
  /\ UNCHANGED <<ctxDone, providerVars, round, hasToolCalls, content,
                 fullResponse, usage, eventVars, handlerVars, clientGone, effectVars>>

\* Defect: iterationContent is declared outside the loop, never cleared.
CallModelKeepsContent ==
  /\ wpc = "call"
  /\ ~ctxDone
  /\ OpenStream
  /\ wpc' = "range"
  /\ round' = round + 1
  /\ hasToolCalls' = FALSE
  /\ UNCHANGED <<ctxDone, out, content, fullResponse, usage, eventVars,
                 handlerVars, clientGone, effectVars>>

\* Defect: an inference error is retried, and the attempt does not count.
CallModelRetries ==
  /\ wpc = "call"
  /\ \/ /\ ~ctxDone
        /\ OpenStream
        /\ wpc' = "range"
        /\ round' = round + 1
        /\ hasToolCalls' = FALSE
        /\ content' = 0
     \/ wpc' = "loop" /\ UNCHANGED <<providerVars, round, hasToolCalls, content>>
  /\ UNCHANGED <<ctxDone, out, fullResponse, usage, eventVars, handlerVars,
                 clientGone, effectVars>>

\* provider.ChatStream: "inference error", or a stream and cleared locals.
CallModel ==
  /\ wpc = "call"
  /\ \/ /\ ~ctxDone
        /\ OpenStream
        /\ wpc' = "range"
        /\ round' = round + 1
        /\ hasToolCalls' = FALSE
        /\ content' = 0
        /\ UNCHANGED out
     \/ /\ Emit("error")
        /\ UNCHANGED <<providerVars, round, hasToolCalls, content>>
  /\ UNCHANGED <<ctxDone, fullResponse, usage, eventVars, handlerVars,
                 clientGone, effectVars>>

\* Defect: the usage of an answer replaces that of the earlier ones.
RangeEventReplacesUsage ==
  /\ wpc = "range"
  /\ streamCh # << >>
  /\ streamCh' = Tail(streamCh)
  /\ \/ /\ Head(streamCh) = "token"
        /\ content' = content + 1
        /\ Emit("token")
        /\ UNCHANGED <<hasToolCalls, usage>>
     \/ /\ Head(streamCh) = "tool"
        /\ hasToolCalls' = TRUE
        /\ Emit("status")
        /\ UNCHANGED <<content, usage>>
     \/ /\ Head(streamCh) \in Done
        /\ usage' = (IF Head(streamCh) = "done" THEN 1 ELSE 0)
        /\ UNCHANGED <<wpc, out, hasToolCalls, content>>
     \/ /\ Head(streamCh) = "error"
        /\ Emit("error")
        /\ UNCHANGED <<hasToolCalls, content, usage>>
  /\ UNCHANGED <<provider, ctxDone, ppc, pending, produced, streamClosed, metered,
                 round, fullResponse, eventVars, handlerVars, clientGone, effectVars>>

\* for event := range streamCh, and the switch on the event's type: Done adds
\* its token counts to the totals, which changes nothing when they are zero.
RangeEvent ==
  /\ wpc = "range"
  /\ streamCh # << >>
  /\ streamCh' = Tail(streamCh)
  /\ \/ /\ Head(streamCh) = "token"
        /\ content' = content + 1
        /\ Emit("token")
        /\ UNCHANGED <<hasToolCalls, usage>>
     \/ /\ Head(streamCh) = "tool"
        /\ hasToolCalls' = TRUE
        /\ Emit("status")
        /\ UNCHANGED <<content, usage>>
     \/ /\ Head(streamCh) \in Done
        /\ usage' = usage + (IF Head(streamCh) = "done" THEN 1 ELSE 0)
        /\ UNCHANGED <<wpc, out, hasToolCalls, content>>
     \/ /\ Head(streamCh) = "error"
        /\ Emit("error")
        /\ UNCHANGED <<hasToolCalls, content, usage>>
  /\ UNCHANGED <<provider, ctxDone, ppc, pending, produced, streamClosed, metered,
                 round, fullResponse, eventVars, handlerVars, clientGone, effectVars>>

\* The range ends when the channel is closed and drained.
RangeEnd ==
  /\ wpc = "range"
  /\ streamCh = << >> /\ streamClosed
  /\ IF hasToolCalls
       THEN wpc' = "tools" /\ UNCHANGED fullResponse
       ELSE wpc' = "saveUser" /\ fullResponse' = content
  /\ UNCHANGED <<ctxDone, providerVars, out, round, hasToolCalls, content, usage,
                 eventVars, handlerVars, clientGone, effectVars>>

\* Every tool runs; a failure becomes the text of its result, never an exit.
RunTools ==
  /\ wpc = "tools"
  /\ wpc' = "loop"
  /\ UNCHANGED <<ctxDone, providerVars, out, round, hasToolCalls, content,
                 fullResponse, usage, eventVars, handlerVars, clientGone, effectVars>>

\* SaveMessage with the request's context; the error is only logged.
Insert(row) ==
  \/ ~ctxDone /\ thread' = Append(thread, row) /\ UNCHANGED dbFailed
  \/ ctxDone /\ UNCHANGED <<thread, dbFailed>>
  \/ ~ctxDone /\ dbFailed' = TRUE /\ UNCHANGED thread

\* Defect: the reply is stored without a look at whether it is "".
SaveUserThenReply ==
  /\ wpc = "saveUser"
  /\ Insert([role |-> "user", tokens |-> 0])
  /\ wpc' = "saveReply"
  /\ UNCHANGED <<ctxDone, providerVars, out, round, hasToolCalls, content, fullResponse,
                 usage, eventVars, handlerVars, clientGone, traces>>

SaveUser ==
  /\ wpc = "saveUser"
  /\ Insert([role |-> "user", tokens |-> 0])
  /\ IF fullResponse > 0
       THEN wpc' = "saveReply" /\ UNCHANGED out
       ELSE Emit("done")
  /\ UNCHANGED <<ctxDone, providerVars, round, hasToolCalls, content, fullResponse,
                 usage, eventVars, handlerVars, clientGone, traces>>

\* Defect: the second insert repeats the role of the first.
SaveReplyAsUser ==
  /\ wpc = "saveReply"
  /\ Insert([role |-> "user", tokens |-> fullResponse])
  /\ Emit("done")
  /\ UNCHANGED <<ctxDone, providerVars, round, hasToolCalls, content, fullResponse,
                 usage, eventVars, handlerVars, clientGone, traces>>

SaveReply ==
  /\ wpc = "saveReply"
  /\ Insert([role |-> "assistant", tokens |-> fullResponse])
  /\ Emit("done")
  /\ UNCHANGED <<ctxDone, providerVars, round, hasToolCalls, content, fullResponse,
                 usage, eventVars, handlerVars, clientGone, traces>>

\* What the two defects of SendEvent below share with it.
SendThenResume(resume) ==
  /\ wpc = "send"
  /\ Len(eventCh) < EventCap
  /\ eventCh' = Append(eventCh, out)
  /\ out' = NoEvent
  /\ wpc' = resume[out.event]
  /\ UNCHANGED <<ctxDone, providerVars, round, hasToolCalls, content, fullResponse,
                 usage, eventClosed, handlerVars, clientGone, effectVars>>

\* Defect: no return after an error event, the loop goes on.
SendEventGoesOnAfterError ==
  SendThenResume([token |-> "range", status |-> "range", error |-> "range", done |-> "report"])

\* Defect: a tool call breaks out of the range loop to run the tool at once.
SendEventRunsToolAtOnce ==
  SendThenResume([token |-> "range", status |-> "tools", error |-> "return", done |-> "report"])

\* eventCh <- event: blocks while the buffer is full, whatever the context.
SendEvent ==
  /\ wpc = "send"
  /\ Len(eventCh) < EventCap
  /\ eventCh' = Append(eventCh, out)
  /\ out' = NoEvent
  /\ \/ out.event \in {"token", "status"} /\ wpc' = "range"
     \/ out.event = "error" /\ wpc' = "return"
     \/ out.event = "done" /\ wpc' = "report"
  /\ UNCHANGED <<ctxDone, providerVars, round, hasToolCalls, content, fullResponse,
                 usage, eventClosed, handlerVars, clientGone, effectVars>>

\* telemetry.ReportAsync with the totals; it does not wait.
Report ==
  /\ wpc = "report"
  /\ traces' = Append(traces, usage)
  /\ wpc' = "return"
  /\ UNCHANGED <<ctxDone, providerVars, out, round, hasToolCalls, content,
                 fullResponse, usage, eventVars, handlerVars, clientGone,
                 thread, dbFailed>>

\* executeLoop returned: the deferred close(eventCh).
WorkerReturn ==
  /\ wpc = "return"
  /\ eventClosed' = TRUE
  /\ wpc' = "exited"
  /\ UNCHANGED <<ctxDone, providerVars, out, round, hasToolCalls, content,
                 fullResponse, usage, eventCh, handlerVars, clientGone, effectVars>>

WorkerStep ==
  \/ GetProvider \/ LoadHistory \/ LoopHead \/ CallModel \/ RangeEvent
  \/ RangeEnd \/ RunTools \/ SaveUser \/ SaveReply \/ SendEvent \/ Report
  \/ WorkerReturn

(***************************************************************************)
(* The handler: gin's Stream looks at the client, then runs one step.      *)
(***************************************************************************)
\* Defect: the handler also gives up when the context is done.
HandlerSelectOnContext ==
  /\ hpc = "select"
  /\ IF clientGone \/ ctxDone
       THEN hpc' = "returned" /\ ctxDone' = TRUE
       ELSE hpc' = "receive" /\ UNCHANGED ctxDone
  /\ UNCHANGED <<providerVars, workerVars, eventVars, received, clientGone, effectVars>>

\* The client is gone: Stream returns without draining eventCh, and the
\* deferred cancel() ends the context.
HandlerSelect ==
  /\ hpc = "select"
  /\ IF clientGone
       THEN hpc' = "returned" /\ ctxDone' = TRUE
       ELSE hpc' = "receive" /\ UNCHANGED ctxDone
  /\ UNCHANGED <<providerVars, workerVars, eventVars, received, clientGone, effectVars>>

\* One event: received, written, flushed.
HandlerReceive ==
  /\ hpc = "receive"
  /\ eventCh # << >>
  /\ received' = Append(received, Head(eventCh))
  /\ eventCh' = Tail(eventCh)
  /\ hpc' = "select"
  /\ UNCHANGED <<ctxDone, providerVars, workerVars, eventClosed, clientGone, effectVars>>

\* eventCh is closed: the step returns false, the handler returns.
HandlerEnd ==
  /\ hpc = "receive"
  /\ eventCh = << >> /\ eventClosed
  /\ hpc' = "returned"
  /\ ctxDone' = TRUE
  /\ UNCHANGED <<providerVars, workerVars, eventVars, received, clientGone, effectVars>>

HandlerStep == HandlerSelect \/ HandlerReceive \/ HandlerEnd

(***************************************************************************)
(* The environment.                                                        *)
(***************************************************************************)
\* net/http sees the connection fail: it cancels the request's context and
\* signals CloseNotify.
ClientLeaves ==
  /\ ~clientGone /\ hpc # "returned"
  /\ clientGone' = TRUE
  /\ ctxDone' = TRUE
  /\ UNCHANGED <<providerVars, workerVars, eventVars, handlerVars, effectVars>>

\* The timeout of LLMTimeoutSeconds passes.
Deadline ==
  /\ ~ctxDone
  /\ ctxDone' = TRUE
  /\ UNCHANGED <<providerVars, workerVars, eventVars, handlerVars, clientGone, effectVars>>

\* A step of the provider leaves everything but its own variables alone.
StreamStep ==
  /\ ProviderStep
  /\ UNCHANGED <<workerVars, eventVars, handlerVars, clientGone, effectVars>>

Next == StreamStep \/ WorkerStep \/ HandlerStep \/ ClientLeaves \/ Deadline

Fairness ==
  /\ WF_vars(StreamStep)
  /\ WF_vars(WorkerStep)
  /\ WF_vars(HandlerStep)
  /\ WF_vars(Deadline)

Spec == Init /\ [][Next]_vars
FairSpec == Spec /\ Fairness

(***************************************************************************)
(* Safety.                                                                 *)
(***************************************************************************)
(* An outcome is the last event ever sent.  Handlers that read only up to  *)
(* the first "error" (the playground's Delegate) rely on it.               *)
OutcomeIsLast ==
  \A k \in 1 .. Len(Emitted) : IsOutcome(Emitted[k]) => k = Len(Emitted)

(* A client that stayed until the handler returned was told how its        *)
(* request ended, by the last event it received.                           *)
ClientLearnsOutcome ==
  hpc = "returned" /\ ~clientGone =>
    received # << >> /\ IsOutcome(received[Len(received)])

(* What is stored as the assistant's reply is the text of the last answer, *)
(* all of which went out to the client as tokens, and no tool was asked    *)
(* for in that answer.                                                     *)
SavedReplyIsLastAnswer ==
  \A k \in 1 .. Len(thread) :
    thread[k].role = "assistant" =>
      /\ thread[k].tokens = TokensOfRound(round)
      /\ EmittedAs("status", round) = {}

(* A request announced as failed has stored nothing in the thread. *)
ErrorStoresNothing ==
  HasEmitted("error") => thread = << >>

(* A stream ends in exactly one terminal event, its last; while it is open *)
(* its terminal event is still to come or waiting for the worker.          *)
StreamEndsOnce ==
  \A k \in 1 .. Len(Coming) : Coming[k] \in Terminal => k = Len(Coming)

(* The worker never opens a stream, and never exits, while a provider      *)
(* goroutine could still block on a channel nobody reads.                  *)
NoOrphanStream ==
  wpc \in {"loop", "call", "tools", "saveUser", "saveReply", "report", "exited"} =>
    ppc \in {"idle", "last", "ended"} /\ pending = << >>

(* A run is reported at most once, with the usage its streams told: of     *)
(* every answer whose stream told it, once, over all rounds.  An answer    *)
(* whose stream ended without usage is in no report.                       *)
TraceCountsUsage ==
  /\ Len(traces) <= 1
  /\ traces # << >> => traces[1] = metered /\ metered <= round

\* Where each goroutine may have to wait: in a send on a full channel, or in
\* a receive from an empty one that is open.
ProviderWaits == pending # << >> /\ Len(streamCh) = StreamCap
WorkerWaits ==
  \/ wpc = "range" /\ streamCh = << >> /\ ~streamClosed
  \/ wpc = "send" /\ Len(eventCh) = EventCap
HandlerWaits == hpc = "receive" /\ eventCh = << >> /\ ~eventClosed

(* Nothing else keeps a goroutine: it can always move while it has not     *)
(* ended, whatever became of the context, the database and the provider.   *)
OnlyChannelsBlock ==
  /\ ~ ENABLED StreamStep => ProviderGone \/ ProviderWaits
  /\ ~ ENABLED WorkerStep => wpc = "exited" \/ WorkerWaits
  /\ ~ ENABLED HandlerStep => hpc = "returned" \/ HandlerWaits

(* The only way for the request to get stuck is a handler that went away   *)
(* with its client while the worker has more events than eventCh has room. *)
Ended == hpc = "returned" /\ wpc = "exited" /\ ProviderGone
Abandoned ==
  /\ clientGone /\ hpc = "returned"
  /\ wpc = "send" /\ Len(eventCh) = EventCap
NobodyMoves ==
  /\ ProviderGone \/ ProviderWaits
  /\ wpc = "exited" \/ WorkerWaits
  /\ hpc = "returned" \/ HandlerWaits
StuckOnlyWhenAbandoned == NobodyMoves => Ended \/ Abandoned

(***************************************************************************)
(* The contract this pipeline implements.                                  *)
(***************************************************************************)
Contract == INSTANCE ChatContract WITH
  announced <- [k \in DOMAIN Emitted |-> Emitted[k].event],
  delivered <- Len(received),
  stored <- [k \in DOMAIN thread |-> thread[k].role],
  closed <- eventClosed

ImplementsContract == Contract!ContractSpec

(***************************************************************************)
(* The inductive invariant behind the safety properties.                   *)
(***************************************************************************)
OnlyParts(s) == \A k \in 1 .. Len(s) : s[k] \in Part
EndsOnce(s) == \A k \in 1 .. Len(s) : s[k] \in Terminal <=> k = Len(s)

\* The goroutine's position tells what the stream still holds.
StreamInv ==
  /\ ppc \in {"idle", "scan", "ended"} => pending = << >>
  /\ ppc = "idle" => Coming = << >>
  /\ ppc = "send" => pending # << >>
  /\ ppc \in {"scan", "send"} => OnlyParts(Coming)
  /\ ppc \in {"last", "ended"} => EndsOnce(Coming)
  /\ streamClosed <=> ppc = "ended"

\* The terminal event of the current stream was taken from the channel.
TerminalTaken == ppc \in {"last", "ended"} /\ Coming = << >>

\* The usage of the current answer is still on its way to the worker.
UsageComing == IF Coming # << >> /\ Coming[Len(Coming)] = "done" THEN 1 ELSE 0

\* All usage told is in the totals or on its way, a stream tells it once, and
\* after the report no stream is left to tell any.
UsageInv ==
  /\ metered = usage + UsageComing
  /\ traces # << >> => traces[1] = metered
  /\ metered <= round
  /\ ppc \in {"scan", "send"} => metered < round

\* The worker's position tells whether it is done with the current stream.
Sending(names) == wpc = "send" /\ out.event \in names
BetweenStreams ==
  \/ wpc \in {"loop", "call", "tools", "saveUser", "saveReply", "report"}
  \/ Sending({"done"})

ConsumeInv ==
  /\ wpc \in {"provider", "history"} => ppc = "idle" /\ round = 0
  /\ round = 0 => ppc = "idle"
  /\ round <= MaxIter /\ (wpc = "call" => round < MaxIter)
  /\ wpc = "range" => round > 0
  /\ Sending({"token", "status"}) => round > 0 /\ ~TerminalTaken
  /\ BetweenStreams /\ round > 0 => TerminalTaken
  /\ (Sending({"error"}) \/ wpc \in {"return", "exited"}) /\ round > 0 => TerminalTaken

\* The worker's position tells what was announced and stored.
OutcomeInv ==
  /\ wpc = "send" <=> out # NoEvent
  /\ \A k \in 1 .. Len(Emitted) : IsOutcome(Emitted[k]) =>
       k = Len(Emitted) /\ wpc \in {"report", "return", "exited"}
  /\ wpc \in {"report", "return", "exited"} =>
       Emitted # << >> /\ IsOutcome(Emitted[Len(Emitted)])
  /\ wpc = "report" => Emitted[Len(Emitted)].event = "done"
  /\ traces # << >> => wpc \in {"return", "exited"} /\ Emitted[Len(Emitted)].event = "done"
  /\ Len(traces) <= 1
  /\ thread # << >> =>
       \/ wpc \in {"saveReply", "report"} \/ Sending({"done"})
       \/ wpc \in {"return", "exited"} /\ Emitted[Len(Emitted)].event = "done"
  /\ wpc = "saveReply" /\ thread # << >> => Len(thread) = 1 /\ thread[1].role = "user"

\* The channel is closed by the worker's exit; a handler whose client stayed
\* returns only after the last event.
CloseInv ==
  /\ eventClosed <=> wpc = "exited"
  /\ hpc = "returned" /\ ~clientGone => eventCh = << >> /\ eventClosed

\* The worker's count of the current answer is the count of what it sent.
ReplyInv ==
  /\ \A k \in 1 .. Len(Emitted) : Emitted[k].round <= round
  /\ wpc = "send" => out.round = round
  /\ wpc = "range" \/ Sending({"status"}) => content = TokensOfRound(round)
  /\ Sending({"token"}) => content = TokensOfRound(round) + 1
  /\ wpc = "range" \/ Sending({"token"}) => hasToolCalls \/ EmittedAs("status", round) = {}
  /\ Sending({"status"}) => hasToolCalls
  /\ fullResponse > 0 =>
       /\ wpc \in {"saveUser", "saveReply", "report", "return", "exited"} \/ Sending({"done"})
       /\ fullResponse = TokensOfRound(round)
       /\ EmittedAs("status", round) = {}
  /\ wpc = "saveReply" => fullResponse > 0
  /\ \A k \in 1 .. Len(thread) :
       thread[k].role = "assistant" => fullResponse > 0 /\ thread[k].tokens = fullResponse

\* No channel holds more than its capacity, and a round has a stream.
RoomInv ==
  /\ Len(streamCh) <= StreamCap /\ Len(eventCh) <= EventCap
  /\ round > 0 => ppc # "idle"

IInv == TypeOK /\ StreamInv /\ UsageInv /\ ConsumeInv /\ OutcomeInv /\ CloseInv /\ ReplyInv /\ RoomInv

(***************************************************************************)
(* The thread the request appends to: ThreadHistory for this one request,  *)
(* which leaves out the streaming.  The first stream opened stands for its *)
(* Read (nobody else inserts), the end of the reasoning loop for Answer.   *)
(***************************************************************************)
ForThis(value) == [r \in {"request"} |-> value]

ThreadPC ==
  CASE wpc = "provider" -> "new"
    [] wpc \in {"saveUser", "saveReply"} -> wpc
    [] Sending({"done"}) -> "announce"
    [] wpc \in {"report", "return", "exited"} -> "ended"
    [] OTHER -> IF round = 0 THEN "read" ELSE "answer"

ToldOutcome ==
  IF HasEmitted("done") THEN "done" ELSE IF HasEmitted("error") THEN "error" ELSE "none"

\* An insert that was tried and left no row.
InsertsOver == Sending({"done"}) \/ HasEmitted("done")
InsertLost ==
  \/ (wpc = "saveReply" \/ InsertsOver) /\ ~Saved("user")
  \/ InsertsOver /\ fullResponse > 0 /\ ~Saved("assistant")

Thread == INSTANCE ThreadHistory WITH
  Request <- {"request"}, Limit <- 20, MaxTime <- 0,
  table <- [k \in DOMAIN thread |-> [req |-> "request", role |-> thread[k].role, at |-> 0]],
  clock <- 0,
  pc <- ForThis(ThreadPC),
  reply <- ForThis(fullResponse > 0),
  history <- ForThis(<< >>), readAt <- ForThis(0), before <- ForThis({}),
  outcome <- ForThis(ToldOutcome),
  lost <- IF InsertLost THEN {"request"} ELSE {}

ImplementsThread == Thread!Spec

(***************************************************************************)
(* What is left of the request: a lexicographic rank of natural numbers.   *)
(***************************************************************************)
\* The sends of an answer's events belong to the range over its stream.
WorkerStage ==
  CASE wpc = "send" -> IF IsOutcome(out) THEN 4 ELSE 10
    [] OTHER -> [provider |-> 12, history |-> 11, range |-> 10, tools |-> 9, loop |-> 8,
                 call |-> 7, saveUser |-> 6, saveReply |-> 5, report |-> 3, return |-> 2,
                 exited |-> 1][wpc]
ProviderStage == [scan |-> 2, send |-> 2, last |-> 1, ended |-> 0, idle |-> 0][ppc]
HandlerStage == [select |-> 2, receive |-> 1, returned |-> 0][hpc]

Rank ==
  <<IF ctxDone THEN 0 ELSE 1, IF clientGone THEN 0 ELSE 1,
    MaxIter - round, WorkerStage,
    ProviderStage, MaxParts - produced, Len(pending), Len(streamCh),
    IF wpc = "send" THEN 1 ELSE 0, Len(eventCh), HandlerStage>>

(* Every step of a goroutine, and every turn of the environment, brings    *)
(* the request nearer its end: a part of an answer passes each channel     *)
(* once, a round is not repeated, an exit is not revoked.  What keeps a    *)
(* request alive for ever can only be that nobody moves.                   *)
RequestRunsOut == [][LexLess(Rank', Rank)]_vars

(***************************************************************************)
(* Liveness.                                                               *)
(***************************************************************************)
(* If the client stays, all three goroutines end. *)
ServedRequestEnds == []~clientGone => <>Ended

(* If the client leaves, the three goroutines end or the worker is stuck   *)
(* on the full channel: nothing keeps running.                             *)
AbandonedRequestSettles == clientGone ~> [](Ended \/ Abandoned)

(***************************************************************************)
(* What a document says of a request, and this code does not do.           *)
(***************************************************************************)
(* arquitectura_base.md:40, "Una vez que la conexion SSE se cierra         *)
(* (respuesta completada), Go guarda el nuevo intercambio": an exchange    *)
(* announced as done is stored unless the database fails.  The inserts use *)
(* the request's context, which may be over by then.                       *)
DoneIsStored ==
  HasEmitted("done") /\ ~dbFailed =>
    Saved("user") /\ (fullResponse > 0 => Saved("assistant"))
==============================================================================
