------------------------------ MODULE LLMStream ------------------------------
(***************************************************************************)
(* The producer half of one streamed model answer: the goroutine that      *)
(* GeminiProvider.ChatStream and GrokProvider.ChatStream start             *)
(* (internal/llm/gemini.go, internal/llm/grok.go).  It scans the HTTP      *)
(* response line by line and turns every line into events on a bounded Go  *)
(* channel, until the body ends, fails, or the request context is done.    *)
(*                                                                         *)
(* The module has no Next of its own: a consumer (ChatPipeline) EXTENDS    *)
(* it, opens a stream with OpenStream, takes from streamCh, and composes   *)
(* ProviderStep with its own steps.                                        *)
(***************************************************************************)
EXTENDS Naturals, Sequences

CONSTANTS
  StreamCap,   \* capacity of the stream channel (32 in the code)
  MaxParts     \* model bound: parts one response body contains

ASSUME StreamCapAssumption == StreamCap \in Nat \ {0}
ASSUME MaxPartsAssumption == MaxParts \in Nat

VARIABLES
  provider,      \* the provider of the requested model
  ctxDone,       \* the request context is cancelled or past its deadline
  ppc,           \* where the provider goroutine is
  pending,       \* events of the current line not yet put on the channel
  produced,      \* parts taken from the body so far
  streamCh,      \* the buffered Go channel of StreamEvents
  streamClosed,  \* close(ch) was called
  metered        \* history: answers whose stream told their usage

providerVars == <<provider, ppc, pending, produced, streamCh, streamClosed, metered>>

\* StreamEvent.Type (internal/llm/types.go).  EventDone is "done" with the
\* token counts of the answer, "unmetered" with counts of zero.
Part == {"token", "tool"}
Done == {"done", "unmetered"}
Terminal == Done \cup {"error"}
StreamEvent == Part \cup Terminal

\* A line of the body that decodes carries one part, or two.
Lines == { <<p>> : p \in Part } \cup { <<p, q>> : p \in Part, q \in Part }

\* "scan": in scanner.Scan(); "send": sending the parts of a line;
\* "last": sending its final events, after which it returns; "ended": it
\* returned and its deferred close(ch) ran; "idle": no stream was opened yet.
PPC == {"idle", "scan", "send", "last", "ended"}

ProviderTypeOK ==
  /\ provider \in {"gemini", "grok"}
  /\ ctxDone \in BOOLEAN
  /\ ppc \in PPC
  /\ pending \in Seq(StreamEvent)
  /\ produced \in 0 .. MaxParts
  /\ streamCh \in Seq(StreamEvent)
  /\ streamClosed \in BOOLEAN
  /\ metered \in Nat

ProviderInit ==
  /\ provider \in {"gemini", "grok"}
  /\ ppc = "idle"
  /\ pending = << >>
  /\ produced = 0
  /\ streamCh = << >>
  /\ streamClosed = FALSE
  /\ metered = 0

(* ChatStream succeeded: a fresh channel, and go streamResponse(...). *)
OpenStream ==
  /\ ppc' = "scan"
  /\ pending' = << >>
  /\ produced' = 0
  /\ streamCh' = << >>
  /\ streamClosed' = FALSE
  /\ UNCHANGED <<provider, metered>>

FinishWith(events) ==
  /\ pending' = events
  /\ ppc' = "last"

(* Scan returned a line, and the context check before it is used fires. *)
ScanCancelled ==
  /\ ppc = "scan"
  /\ ctxDone
  /\ FinishWith(<<"error">>)
  /\ UNCHANGED <<provider, ctxDone, produced, streamCh, streamClosed, metered>>

(* Scan returned a data line: its parts become events.  Lines without the  *)
(* data prefix or that do not decode are skipped without any effect.       *)
ScanParts ==
  /\ ppc = "scan"
  /\ ~ctxDone
  /\ \E line \in Lines :
       /\ produced + Len(line) <= MaxParts
       /\ pending' = line
       /\ produced' = produced + Len(line)
  /\ ppc' = "send"
  /\ UNCHANGED <<provider, ctxDone, streamCh, streamClosed, metered>>

(* Grok's final chunk carries the usage, and may carry parts as well: they *)
(* are sent, then Done, and the function returns without reading the rest. *)
ScanUsage ==
  /\ provider = "grok"
  /\ ppc = "scan"
  /\ ~ctxDone
  /\ \E line \in Lines \cup {<< >>} :
       /\ produced + Len(line) <= MaxParts
       /\ FinishWith(Append(line, "done"))
       /\ produced' = produced + Len(line)
  /\ metered' = metered + 1
  /\ UNCHANGED <<provider, ctxDone, streamCh, streamClosed>>

(* The loop ends and Done is sent: at [DONE], at the end of the body, and  *)
(* when the connection breaks, a line is too long for the scanner or the   *)
(* context aborts the read, as scanner.Err() is never asked.  Gemini's     *)
(* Done has the usage of the lines read so far, if one of them told any;   *)
(* Grok's has none, as the chunk with the usage was not reached.           *)
EndOfBody ==
  /\ ppc = "scan"
  /\ \/ /\ provider = "gemini"
        /\ FinishWith(<<"done">>)
        /\ metered' = metered + 1
     \/ /\ FinishWith(<<"unmetered">>)
        /\ UNCHANGED metered
  /\ UNCHANGED <<provider, ctxDone, produced, streamCh, streamClosed>>

(* One send on the channel; it blocks while the channel is full and looks  *)
(* at no context meanwhile.                                                *)
ProviderSend ==
  /\ ppc \in {"send", "last"}
  /\ pending # << >>
  /\ Len(streamCh) < StreamCap
  /\ streamCh' = Append(streamCh, Head(pending))
  /\ pending' = Tail(pending)
  /\ ppc' = IF ppc = "send" /\ Tail(pending) = << >> THEN "scan" ELSE ppc
  /\ UNCHANGED <<provider, ctxDone, produced, streamClosed, metered>>

\* Defect: the deferred close of the channel is missing.
ProviderReturnKeepsOpen ==
  /\ ppc = "last"
  /\ pending = << >>
  /\ ppc' = "ended"
  /\ UNCHANGED <<provider, ctxDone, pending, produced, streamCh, streamClosed, metered>>

(* The function returns: body.Close() and close(ch) run. *)
ProviderReturn ==
  /\ ppc = "last"
  /\ pending = << >>
  /\ streamClosed' = TRUE
  /\ ppc' = "ended"
  /\ UNCHANGED <<provider, ctxDone, pending, produced, streamCh, metered>>

ProviderStep ==
  \/ ScanCancelled \/ ScanParts \/ ScanUsage \/ EndOfBody
  \/ ProviderSend \/ ProviderReturn

\* What the consumer is still going to take from the stream, in order.
Coming == streamCh \o pending

\* No goroutine is left behind the channel: none was started, or it returned.
ProviderGone == ppc \in {"idle", "ended"}
==============================================================================
