# A TLA+ verification of go-gin-agent

The repository is a Go server: authenticated users stream chat answers of an
LLM over server-sent events (SSE), organizations manage prompts and agent
definitions in SQLite, and anonymous visitors build short-lived agents in a
"playground" held in memory. This directory holds TLA+ models of its concurrent
core, the TLC configurations that check them, and proofs checked by TLAPS.
Paths below are relative to `src/`.

## 1. Inventory

| Component | State it keeps | Operations | Talks to |
|---|---|---|---|
| Chat request pipeline (`internal/service/orchestrator.go`, `internal/handler/chat.go`) | per request: worker goroutine with its reply, tool-call and usage locals; `eventCh` (64); a context with deadline | `Run`, `executeLoop`, `persistExchange`, `ChatHandler.Stream` | provider over `streamCh`, thread history, telemetry, the client's connection |
| LLM providers (`internal/llm/gemini.go`, `grok.go`) | per answer: a goroutine over an HTTP body, `ch` (32) | `ChatStream`, `streamResponse` | the worker |
| LLM fabric (`internal/llm/fabric.go`) | provider and model maps, default | `RegisterProvider`, `RegisterModel`, `GetProvider` | written at start, read by every run |
| Thread history (`internal/store/conversation.go`) | table `conversations` | `SaveMessage`, `GetHistory` | several requests on one thread |
| Telemetry (`internal/service/telemetry.go`) | one goroutine per report | `ReportAsync` | outlives the request |
| Playground stores (`internal/store/playground`) | map of entries, index by visitor, a sweeping goroutine | `Create`/`GetOrCreate`, `Get`, `AddMessage`, `Delete`, `cleanup`, `Stop` | handlers and runner of all requests |
| Playground runner and handlers (`internal/agent/playground_runner.go`, `internal/handler/playground.go`) | worker per run, HTTP-tool limiter per visitor | `StreamChat`, `Delegate`, `CreateAgent`, `executeAgent`, `dispatchToolCall` | both stores, fabric, sub-runs |
| Agent runner (`internal/agent/runner.go`) | loaded agents | `LoadAgents`, `Run`, delegation | built in `main.go`, used by no route |
| Authentication (`internal/service/auth.go`, `internal/store/user.go`) | users, refresh tokens, invitations | `Register`, `Login`, `RefreshToken` | concurrent requests over one database |
| Prompt store (`internal/store/prompt.go`) | versions of prompts and agents, one active | `UpsertPrompt`, `DeletePrompt`, `UpsertAgent` | concurrent editors |
| Rate limiter (`internal/middleware/ratelimit.go`) | a token bucket per key | `getLimiter`, `ByTenant`, `ByIP` | all requests |
| Lifecycle (`cmd/server/main.go`) | server, signal, background goroutines | start, `Shutdown`, `Stop` | everything |
| Middleware, health, webhook, tools, configuration | none, or read-only | per-request functions | - |

What is hard here is concurrency, not computation:

* three goroutines and two bounded channels per chat request, joined by nothing
  but a context that the blocking sends never look at;
* failures half-way: a body that breaks off, an error after tokens went out, a
  deadline between the last token and the two inserts, the second insert
  failing after the first; a user created whose invitation is never marked;
* maps and indexes changed by request handlers and by a sweeping goroutine;
* statements of concurrent requests interleaving in the database (threads,
  refresh tokens, lockout counters, prompt versions, registrations);
* values read before a lock or between two calls and used after: the list of
  agents to load, a bucket that another request is just storing, a conversation
  that the sweep takes between two calls of the run it belongs to.

What makes the components correct: a stream ends once and its outcome is the
last thing the client hears; what is stored is what was streamed, and a failed
request stores nothing; no goroutine is left waiting on a channel nobody
serves; the usage a stream tells is counted once; index, map and quota of a store
agree, and expired entries go in time; a slug of the prompt store serves its
newest version or nothing, whoever edits it at the same time, and what is loaded
from it into memory is as new as the load promises.
`PROJECT.json` lists every hazard at its line, with the property that covers it.

## 2. Modules

| Module | Models | Kind |
|---|---|---|
| `LLMStream` | a provider's `streamResponse` goroutine and its channel | component, no Next of its own |
| `LexRank` | the lexicographic order on tuples of naturals | operator |
| `ChatPipeline` | EXTENDS `LLMStream`; worker, event channel, handler, client, deadline; INSTANCEs `ChatContract` and `ThreadHistory` as what it implements | composition, `Spec`, `FairSpec` |
| `ChatContract` | what one request promises, without goroutines or channels | abstract specification |
| `MCChatPipeline` | the instances of `ChatPipeline` for TLC | model checking |
| `ChatPipelineProofs` | the theorems about `ChatPipeline` | proofs |
| `PlaygroundStore` | `AgentStore` and `ConversationStore` | component |
| `MCPlaygroundStore` | instance with symmetric visitors and ids | model checking |
| `PlaygroundSharedProofs` | the theorems about `PlaygroundStore` and `PlaygroundChat` | proofs |
| `PlaygroundRun` | one playground request: handler, run, and the runs it delegates to | component, `Spec`, `FairSpec` |
| `MCPlaygroundRun` | its instances | model checking |
| `PlaygroundRunProofs` | the theorems about `PlaygroundRun` | proofs |
| `ThreadHistory` | the conversations table under several requests of one thread | component |
| `MCThreadHistory` | instance with three interchangeable requests | model checking |
| `ThreadHistoryProofs` | the theorems about `ThreadHistory` | proofs |
| `LoginLockout` | one account's row under several logins | component |
| `MCLoginLockout` | instance with interchangeable clients | model checking |
| `AccountProofs` | the theorems about `LoginLockout` and `Registration` | proofs |
| `TokenRotation` | the refresh tokens under several refresh requests | component |
| `MCTokenRotation` | instance with interchangeable clients and ids | model checking |
| `TokenRotationProofs` | the theorems about `TokenRotation` | proofs |
| `VersionedStore` | what the prompt store promises, without transactions | abstract specification |
| `PromptStore` | the handlers and statements of prompts and agents over SQLite | component |
| `MCPromptStore` | instance with four interchangeable requests | model checking |
| `PromptStoreProofs` | the theorems about `PromptStore` | proofs |
| `AgentRunner` | loading agents, and the runs that use them; INSTANCEs `VersionedStore` as its store | composition |
| `MCAgentRunner` | instance: two agents that may delegate to each other, upserts that name different prompts | model checking |
| `AgentRunnerProofs` | the theorems about `AgentRunner` | proofs |
| `PlaygroundChat` | EXTENDS `PlaygroundStore`; several playground requests over the conversation store and the HTTP-tool limiter | composition |
| `MCPlaygroundChat` | instance with symmetric requests, visitors and ids | model checking |
| `Registration` | rate limiter, `Register` and the server's life around it | composition |
| `MCRegistration` | instance: two invitations of one email | model checking |

Operators marked `Defect:` in a component are mutated forms of the definition
below them. No specification uses them; they document, for every checked
property, a plausible bug that TLC finds with it (`PROJECT.json`, "mutants").

### 2.1 The chat pipeline

One behaviour of `ChatPipeline!Spec` is one request.

* **Provider** (`ppc`). `provider` is chosen by `Init`, so that one run covers
  both. `scan` is the wait in `scanner.Scan()`; a line becomes one or two parts
  (`token` or `tool`, in any combination; the code caps neither, two is the
  model's cap) in `pending`, sent one at a time by `ProviderSend`.
  `ScanCancelled` is the context check after `Scan`. `EndOfBody` is the end of
  the body and a connection that breaks off alike: both end in a Done event,
  since the code never asks `scanner.Err()`. A Done event is `done` when it
  carries the answer's token counts and `unmetered` when they are zero: Gemini's
  is either, by whether a line with usage was read, Grok's at the end of the body
  is always `unmetered` (`grok.go:140-141`). `ScanUsage` exists for Grok only: its
  usage chunk ends the function before the end of the body, with `done`. `metered`
  is history, the answers whose stream told their usage. `last` sends the final
  events, `ended` is after the deferred `close`.
* **Worker** (`wpc`). One position per place where `executeLoop` reads shared
  state or blocks: `provider`, `history`, `loop` (bound and context), `call`
  (`ChatStream`), `range` (receive from `streamCh`), `tools`, `saveUser`,
  `saveReply`, `report`, `return`, `exited`. `send` is a blocking send of `out`
  on `eventCh`; `SendEvent` continues where the code does after that event.
  `content` and `fullResponse` are token counts, since only "empty or not" and
  "the same text" matter; `round` tags each event with the answer it came from
  and is otherwise the loop counter.
* **Handler** (`hpc`). gin's `c.Stream` selects on the client's connection
  (`HandlerSelect`) and runs a step that receives one event
  (`HandlerReceive`) or finds the channel closed (`HandlerEnd`). Returning runs
  the deferred `cancel()`, hence `ctxDone' = TRUE`.
* **Environment.** `ClientLeaves` cancels the request context and fires
  CloseNotify, as net/http does; `Deadline` is the timeout of
  `contextWithTimeout`. An insert fails when the context is over, or, recorded
  in `dbFailed`, for reasons of the database.

`ThreadHistory` (2.3) has many requests on one thread and no streaming;
`Thread` in `ChatPipeline` maps a request to one of its requests, and
`ImplementsThread` is its specification under that mapping. `ThreadPC` places
the goroutines: the whole reasoning loop is `answer`, a `done` that waits for
room is `announce`, what the worker does after its outcome is `ended`. The first
stream opened stands for the `Read`: a worker that waits to send an error before
it does not remember whether the history or the context failed, and as nobody
else inserts, the history is the same at both places. `InsertLost` is an insert
that was tried and left no row.

`Rank` is what is left of a request, most significant first: the events of the
environment that may still come, the iterations left, the worker's position
(the sends of an answer belong to the range over its stream), the provider's,
the parts of the body it has yet to scan, the parts in `pending`, the stream,
the worker's hand and the event channel, and the handler's position.
`RequestRunsOut` says that every step lowers it.

Left out: message assembly, tool results (a failing tool is text for the model,
never an exit), the text of the events, the numbers of tokens beyond whether an
answer told them, logging. `ChatHandler.Stream` always passes `Model: ""`, so
that route reaches the default provider, Gemini; Grok is reached through the same
interface by the agent and playground runners, and is checked here with the same
worker.

### 2.2 The playground stores

`AgentStore` and `ConversationStore` are the same machine with other names, so
one module models both. Each method is one action, as each holds the mutex
throughout. `entries` is the map, `index` is `byOwner`/`byVisitor` as a set
(nothing reads the order of a list, and a fresh uuid cannot be in it twice),
`now` is the clock and `nextSweep` the ticker. `AddMessage` belongs to
conversations only; `Get` renews without comparing times, so it revives an
entry that has expired and was not swept. Two `Stop`/`SweeperEnds` actions
reflect `select`, which may still take a pending tick after `stopCh` closes.

### 2.3 Threads

`ThreadHistory` is many requests on one thread where `ChatPipeline` is one: the
streaming is one step (`Answer`), and what remains is where a request reads or
writes the table. `table` holds the thread's rows in the order of their ids;
`clock` is SQLite's `CURRENT_TIMESTAMP`, so several rows share an instant. The
query orders by `created_at` alone: which of two such rows comes first is
SQLite's choice. `IndexBefore` models what it does with the index on
`(thread_id, created_at)`, scanned backwards: ties fall to the later id. The
clock is assumed never to go back. An insert may fail (`lost`), an error may
end a request before the inserts, and `Crash` stops the process between any
two steps; the table survives. `before[r]` is history: the requests whose
client already knew the outcome, or had lost the connection, when `r` was sent.

That a request with all its goroutines and contexts does nothing else to the
table is not assumed: `ChatPipeline` implements this module for one request
(2.1). The requests of a thread share no goroutine and no channel, only the
table, on which an insert or a query is a step of its own in both modules.

### 2.4 Playground requests

`PlaygroundRun` is one `StreamChat` or `Delegate` request. A run that calls the
delegate tool starts another run, with a goroutine and a channel of its own,
and waits for it; so the runs of a request form a chain, and `pc[i]`, `ch[i]`,
`heard[i]` are the goroutine, the channel and the last event taken of the i-th.
A delegated run passes through the same code as the handler's: `LevelStep(i)`
is `executeAgent` and `dispatchToolCall`, `StartLevel` is `Run`. Level i reads
channel i + 1 (`DrainTakes` keeps tokens and drops everything else, errors too);
the handler reads channel 1. A level that ended is started anew by the next
delegation of its parent.

Unlike `ChatHandler.Stream`, the step `StreamChat` gives to `c.Stream` drains
the whole run, so gin looks at the connection once, before it (`SelectGone`),
and a client that leaves only cancels the context. `Delegate` collects tokens
and returns at the first error, without draining further.

`StreamChat` writes each event it takes to the client: `hpc` is `write` until
`WriteReturns`. Nothing bounds that write: `main.go:195` sets the server's
`WriteTimeout` to 0, and the request has no deadline. A connection that is lost
makes it fail, which the handler ignores; a client that stays connected but does
not read may keep the handler there for ever (`ClientStalls`), and with it the
run, whose channel fills, and every run below that.

What the provider's goroutine does is `ChatPipeline`'s subject; here its events
are taken as they come. A send that waits for room is a step that is not
enabled, so `Emit` is merged with the step that produces the event. `MaxDepth`
is a bound of the model: the code has none on delegation, and two agents that
delegate to each other may go on until the context ends. At the deepest level
of the model a delegate call is not taken; every other tool result is. Counters
that the code sets anew before it reads them again are cleared when a run or a
round ends, which keeps states apart that are not different.
The conversation is reduced to the roles of the messages this request adds
(`rows`) and whether the store still has it (`convLive`).

`RequestRank` and `LevelRank(i)` are what is left of the request and of its i-th
run. A run that is started again has more left than before, but the run that
started it has less: `CallsLeft` halves a call into its start and its end. So
`StepsRunOut` looks at the first level a step changes, whatever lies below it.

### 2.5 Logins

`LoginLockout` is `AuthService.Login` on one account. A login reads the user's
row (`ReadUser`), compares the password, which takes long (`compare`), and then
executes statements that each change the row by themselves: the increment, the
lock, the reset. `Check` is the lockout check and the comparison together, as
nothing is read or written between them; whether the password was right is the
model's choice. What is decided is decided on the row that was read (`user`):
`IsLocked`, and in `AtThreshold` whether this failure is the one that locks.
The increment itself is done by the database, so none is lost. A statement may
fail, by itself or with its request's context, and then only a log line tells
(`WriteFails`). History: `strikes`, the wrong passwords since the last lock or
reset; `lost`, the statements that failed since; `older`, the requests that had
read the row before the last lock. An unknown or disabled account changes
nothing and is left out.

### 2.6 Refresh tokens

`TokenRotation` is `AuthService.RefreshToken`: a query (`Check`), the update
that revokes (`Revoke`), the query of the user (`LoadUser`) and the insert of
the new id (`SaveNew`), none in a transaction. The rows of `refresh_tokens` are
three sets: `issued`, `revoked`, `expired`. An id is a uuid, so `Issue` never
takes one twice. Any statement may fail: a failed query or insert ends the
request, a failed revocation is logged and the exchange goes on. `Expire` may
take any token at any time, which covers every expiry and every clock. Access
tokens are checked by their signature only, are kept nowhere, and are left out.
History: what happened to each token, `exchanged`, `dropped` (its exchange
failed after the revocation) and `lost` (its revocation failed).

### 2.7 Prompt and agent definitions

`PromptStore` is the definitions of one organization under several requests;
every SQL statement of a handler is a step. `rows[k]` is the committed table of
a slug in the order of insertion, `work` the table as the transaction that holds
the write lock sees it. `internal/store/sqlite.go` opens the database in WAL
mode, from which three facts are modelled as external: a transaction reads the
snapshot of its first statement; one transaction writes at a time; one that has
read and is no longer on the newest snapshot is refused when it starts to write
(`stale`). `UpsertPrompt` reads the highest version first, so its
`SelectMaxVersion` and `DeactivatePrompt` are the two ends of that window;
`UpsertAgent` writes first and has none. The prompt's maximum is a local
(`maxv`). Agents have no version column: their rows carry 0, and the position
stands for it. `OtherWrite` is any other store's commit to the same file, which
makes open snapshots old too. `Fail` is every 500: busy, refused, the index, a
context that is over. `Crash` is the end of the process, not of the machine: a
commit survives it, an open transaction does not. A client that is not answered
has `lost` its answer.

The abstract specification `VersionedStore` publishes a version and serves it in
one step. The mapping takes the committed rows for what was published and the
active ones for what is served.

### 2.8 The agent runner

`AgentRunner` uses `VersionedStore` as its store: its `Edit` is any step of it,
which `PromptStoreProofs` justifies. `LoadAgents` lists the definitions
(`List`), asks for the lock (`Lock`), and for each reads the prompt and puts the
entry in the map (`Register`, or `PassOver` when the query fails): the list is
older than the lock, the prompts are not. A definition names its prompt and its
sub-agents, and each upsert may name others (`PromptIn`, `SubsIn`, per editor);
`todo` holds the rows as they were listed, and the prompt is the one the *listed*
row names, in the version served at `Register`. `loaded` holds what an entry was
built from: the version of its definition, what that names, and the version of
the prompt. `floor` is history, cleared at `Unlock`, where nothing reads it any
more: what was served when the load listed. The runs of one caller form a stack (`frames`), the innermost
executing; `Delegate` pushes one, `EndRun` pops it. `CallTool` lets the model
name any slug, as the code compares the name with the agent's list of sub-agents
and not with the tools that were offered.

Left out: the events of a run, whose channel is always drained by
`dispatchToolCall` or the caller; the text of answers beyond being empty or not
(an error of a sub-run is dropped, its parent sees the text that came before).
`MaxDepth` and `MaxCalls` are bounds of the model: the code has neither, so two
agents that name each other delegate until the context ends. One organization:
the map's key is `agent_id` alone, so a second one would replace entries of the
first. `main.go` constructs the runner, but no route reaches it and nothing
calls `LoadAgents` yet, with one organization or two; the model says what the
runner does when they do.

### 2.9 Playground conversations

`PlaygroundChat` is several requests of the playground's visitors where
`PlaygroundRun` is one, over the conversation store itself: it EXTENDS
`PlaygroundStore`, calls its `Create`, `Get` and `AddMessage`, and runs beside its
sweep, its ticks and its end. `StreamChat` looks up the id its client names and
makes a new conversation if there is none. No code tells a client the id of its
conversation (`playground.go:134-169` sends token, status, error and done events
only) and no route reaches `GetConversation`, so the lookup never finds one:
every chat has a conversation of its own, its history is empty, and two runs never
touch the same one. What can go wrong is the time between the store calls of a
single run: `GetConversation` renews, then the model and its tools take as long
as they take, then the two rows are added, each on its own, with the error of a
conversation that is gone ignored and "done" sent all the same. `touched` and
`late` are history: the time of a request's last store call, and the requests that
let more than the time to live pass between two. `CallTool` is the HTTP tool's
limit per visitor, for runs of `StreamChat` and of `Delegate`, which have no
conversation: compare and replace under one lock; a refused call changes nothing
and is left out.

### 2.10 Registration

`Registration` composes what a request to `/auth/register` meets. The limiter of
its address (`ByIP`): `Load`, then `LoadOrStore` of a new bucket, then `Admit`
or `LimitRefuses`; buckets are named by the request that made them. A bucket of
x/time/rate, which is external, is a counter that `Refill` increments. Then
`Register`: `LookUp` of the newest valid invitation, `CreateUser`, `Mark`, with no
transaction around them; a failed mark is logged only. Around it the server:
`Signal` closes the listener, `Drained` is a `Shutdown` that waited for every
handler, `GiveUp` the end of its 30 seconds, after which the database is closed
under the handlers that remain; `Kill` stops it at any point. `Restart` begins
with empty buckets and the rows as they were. Invitations are numbered in the
order of `created_at`; no code calls `CreateInvitation`, so `Issue` is external.
`unmarked` is history: the invitations whose mark failed or never ran.

## 3. Runs

| Run | Shows |
|---|---|
| `chat` | both providers, channels of 2, bodies of up to 2 parts, 2 iterations: what is heard, stored, reported and left waiting, where goroutines may block, refinement of `ChatContract` and, for this request, of `ThreadHistory`; every step lowers the rank; `ServedRequestEnds` and `AbandonedRequestSettles` under fairness (173,048 states) |
| `chat_done_stored` | a statement of a document that the code does not keep; TLC gives the behaviour |
| `playground_store` | 2 visitors, 4 ids, quota 2, TTL 2, period 3, 7 instants: map and index agree, expired entries go in time and no others |
| `playground_run` | both handlers, chains of 3 runs, channels of 1, 2 iterations, answers of up to 2 parts; a client that leaves or stops reading and a conversation swept at any point; that runs never wait on each other, that every step lowers the rank, and `EverythingEnds` under fairness (393,484 states) |
| `playground_chat` | 2 requests of 2 visitors, 2 conversations, TTL 1, period 2, window 2, 6 instants: what becomes of an exchange whose run is slow, the spacing of HTTP tools (1,395,143 states) |
| `thread_history` | 3 requests, a window of 2 rows, 2 instants, crashes and failed inserts at any point: the window, follow-up requests, serial threads |
| `login_lockout` | 3 clients, a maximum of 3 attempts, locks of 1 instant out of 2, one failed statement per lock: the bound on wrong passwords, who lifts a lock |
| `token_rotation` | 2 clients, 4 ids, one token whose revocation fails once, any expiry: how often a token is exchanged, and that revoked ones are replaced |
| `token_one_use` | 2 clients, 3 ids, no failed statement: a statement of a comment and of the plan that the code does not keep; TLC gives the behaviour |
| `registration` | 3 requests from 2 addresses, 1 email with 2 invitations, buckets of 1 with one refill, 2 starts of the server: the limit, one user per invitation, what a restart leaves |
| `prompt_store` | 4 requests, one prompt and one agent, failures and crashes at any point: what was answered is stored, real-time order, refinement of `VersionedStore` |
| `agent_runner` | 3 upserts that name two prompts and different sub-agents, 2 loads, one caller, stacks of 2, answers of up to 2 calls: offered agents run, a lone load is fresh, a prompt is never replaced by an older version of it, only the caller's run stores (1,278,867 states) |

A run checks what a test would hardly reach. Type invariants and some consequences of what
the runs check (`QuotaHolds`, `DelegationNests`, `ErrorStoresNothing`) are
theorems (section 4), so no run lists them.

Bounds. Full channels are what matters about the capacities, and one or two
slots fill as 32 and 64 do. Two iterations give a round of tool calls followed
by an answer, and the exhausted loop; two parts give lines of one and of two,
and with its Done event an answer longer than a channel. For the stores, seven instants contain two sweeps
with a period longer than the time to live, so entries expire before, at and
after a sweep. TLC's own deadlock check is off in most runs: a request ends, and
so does the bounded clock, and a worker abandoned by its client does stop for
ever. Properties say instead where a request may stop. In `chat`,
`OnlyChannelsBlock` says that a goroutine that cannot move waits for room in a
channel, for an event, or has ended, and `StuckOnlyWhenAbandoned` that all three
are so at once only when all have ended or the client has left; in
`playground_run`, `NeverStuck` says that no chain of delegated runs comes to wait
on itself.

In `playground_store` visitors and ids are symmetric, as they are only compared;
so are the requests of `thread_history`. There, three requests give six rows, more
than the window holds, with two overlapping and a third that follows; two
instants give rows that share a timestamp and rows that do not.

In `playground_run` a channel of one slot makes every send wait for the event
before it, and three levels give a run that is both parent and sub-run; two
iterations of two parts restart a sub-run both within a round and in the next.
In `playground_chat` two requests are two runs of one visitor that call tools, or
of two visitors whose conversations age beside each other; requests never meet in
a conversation, so a third adds nothing. A time to live of one and a period of two
put an expiry before, at and after a sweep; six instants contain two sweeps, and a
run whose calls are one, two and more instants apart. A window of two has a tool
called inside it, at its end and after it.

In `login_lockout` three clients make a request that decides on an old row, one
that locks, and one that starts after the lock; a maximum of three lets two
failures share a stale row and a third still find the account open. In `token_rotation` four ids are what
it takes to break the bound of two clients: one to exchange and three new ones.
In `registration` three requests are two that race for the bucket of their
address or for the email, and one more, from the other address or after a
restart; two invitations let the racing requests find different ones. Clients,
requests, addresses and ids are symmetric; invitations are not, as they are
ordered.

In `prompt_store` four requests are two upserts that overlap, a third that makes
the snapshot of one of them old or deletes the prompt, and a read that follows.
Versions then reach 4. The server runs on there, as it can always crash and
restart. In `token_one_use` two clients and three ids are the two exchanges of one token.
In `agent_runner` three upserts publish an agent, its prompt and a newer version
of either between the steps of two loads, the newer definition of an agent naming
another prompt and other sub-agents. With three, only one of two prompts that an
agent changes between has a version; the theorem on `PromptsNeverOlder` has any
number of upserts. A stack of two has a caller's run and a sub-run, and a second
call after it returns; `AgentRunnerProofs` covers stacks of every depth.

Fairness (`playground_run`). Weak fairness of each level's next step, and of the
handler's except in a write to a client that is still there (`ClientStalls`),
which nothing obliges to return. These requests have no deadline, but every call
to a provider has the timeout of its HTTP client, and a run makes at most ten, so
a step waiting for a provider is taken in the end. `EverythingEnds` says that the
request and all its runs end, or that it is such a write that holds them. A
client that leaves is no exception: the write fails and the handler drains on.
Termination of the whole also needs the depth of delegation to be finite, which
the model assumes and the code does not enforce.

Fairness (`chat`). Weak fairness of each goroutine's
next step is what the Go scheduler gives a runnable goroutine; the waits on the
network (`scan`, `call`) end because the deadline cancels the request and
aborts the read, which is why the deadline is fair. The default configuration
has a timeout of 120 s; with a timeout of 0 the handler sets none and only the
HTTP client's limits remain. No fairness is assumed for the client. A client
that stays but stops reading would block the handler's write, as the server has
no write timeout; `HandlerReceive` takes the write together with the receive, and
such a client counts as one that leaves. The worker is left in the same place by
both, waiting for room in `eventCh`; the handler is not, as it never returns.

Two findings have a run of their own. "done" may be announced for an exchange
that was not stored, because the inserts use the request's context
(`chat_done_stored`; `arquitectura_base.md:40` says it is stored). And a refresh
token may be exchanged by two overlapping requests, each getting a pair of its
own, because it is checked and revoked in two statements (`token_one_use`; the
comment at `auth.go:172` and `implementation_plan.md:169` say one-time use).

What else the models show of the code, with the property that delimits it:

* A worker whose client left blocks for ever on a full `eventCh`, whatever its
  context says. `StuckOnlyWhenAbandoned` and `AbandonedRequestSettles` say that
  this is the only way.
* A body that breaks off is stored as a complete reply (`EndOfBody`), as
  `SavedReplyIsLastAnswer` compares with what was streamed, not with what the
  provider meant to send.
* A run that fails after a first answer reports none of its usage: only the exit
  at `orchestrator.go:177` sends a trace. Nor is the usage of an answer reported
  whose stream did not tell it: Grok's, when its body ends, says `[DONE]` or breaks
  before the chunk with the usage, is a Done event with zero tokens
  (`grok.go:140-141`), and Gemini's if no line had any. `arquitectura_base.md:58`
  has the exact tokens in the trace, `infra.md:64` an exact cost per token.
  `TraceCountsUsage` says what is in the report: what the streams told, once.
* Two requests of one thread interleave their inserts, and the next request's
  history reads question, question, answer, answer; `SerialExchangesWhole` says
  when it is whole: when the client sends one request at a time.
* How often overlapping requests and failed revocations may have a refresh token
  exchanged is what `ExchangesBounded` says.
* A client of the playground's chat that stays and stops reading holds the
  handler, the run and its sub-runs for ever; `EverythingEnds` says that nothing
  else does.
* A playground run that is slower than its conversation's time to live loses the
  exchange, or its answer only, when a sweep falls in between, and its client is
  told "done"; `KeptUnlessSlow` says that no other run does.
* An account may take `MaxLoginAttempts` wrong passwords and stay open when two
  logins overlap, as each decides on the counter it read (`auth.go:125`);
  `WrongPasswordsBounded` says how far that goes.
* Two loads that overlap may bring back an older definition of an agent, since
  the list is read before the lock, and with it the prompt that the older
  definition names; `LoneLoadIsFresh` and `PromptsNeverOlder` say what still holds.
* An invitation may stay valid after its user was created; it makes no second
  user, as the email is unique (`SpentUnlessLost`, `UsedMeansRegistered`).

## 4. Proofs

Everything below holds for every value of the constants that satisfies the
named assumptions (positive capacities, at least one iteration, any body
length, either provider; any quota and TTL, a positive period).

**Chat pipeline** (`ChatPipelineProofs`). No safety property is inductive: that
an outcome is last, for instance, depends on what the stream may still hold,
which depends on where the provider is. `IInv` conjoins

* `TypeOK`;
* `StreamInv`: the provider's position determines what the stream can contain
  (only parts while it scans, exactly one terminal event at the end afterwards);
* `ConsumeInv`: the worker's position determines whether the terminal event of
  the current stream was taken;
* `UsageInv`: the usage that streams have told is in the totals or in the `done`
  event still on its way, and a report was made when nothing was on its way;
* `OutcomeInv`: the worker's position determines whether an outcome was sent and
  what may be stored;
* `CloseInv`: `eventCh` is closed exactly when the worker has exited, and a
  handler with a client returns only after draining it;
* `ReplyInv`: the local token count is the number of tokens of this round sent;
* `RoomInv`: no channel holds more than its capacity, and a round has a stream.

`Invariance` proves it inductive, one step per action; a receive by the handler
moves an event from `eventCh` to `received` and leaves `Emitted`, their
concatenation, unchanged. From it follow `TypeCorrect`,
`OutcomeLast`, `OutcomeDelivered`, `FailedStoresNothing`, `StreamsEndOnce`,
`StreamsNotOrphaned`, `UsageCounted` and `ReplyStoredAsStreamed`.
`OnlyAbandonedGetStuck` argues backwards from the waits: a handler that waits has
found `eventCh` empty, so the worker cannot wait for room in it; a worker that
waits for `streamCh` found that empty and open, so the provider has room there.
With a client there, some goroutine moves unless all have ended.
`PipelineImplementsContract` proves the refinement: each event sent announces,
each receive delivers, each insert stores, the deferred close closes, and every
other step stutters. `PipelineImplementsThread` proves the other one: the first
stream opened reads, the end of the loop answers or fails, the two inserts save
or are lost, the event sent announces; that nothing was told before is
`OutcomeInv`, that a reply is saved only for a text `ReplyInv`. `ThreadStep` has
one case per action, each citing the lemma of the `ThreadHistory` action it is.

`ChatStepsCount` proves `RequestRunsOut`, with one step per action in
`RankFalls`, and `ChatRequestsAreFinite` that the order the rank goes down in is
well-founded, from the library's theorem on lexicographic products: a request
takes finitely many steps, for any capacities, iterations and body lengths,
and no fairness is needed for that. `MaxParts` bounds a body; it stands for the
HTTP client's limits, as the code counts no parts. Together with `OnlyAbandonedGetStuck`
this is most of `ServedRequestEnds`: the steps run out, and where they run out
everybody has ended or the client has left.

**Playground stores** (`PlaygroundSharedProofs`). `StoreInv` strengthens
`IndexExact` with finiteness and size of the index (the code checks the quota
against the index; `QuotaHolds` speaks of the map) and `GoneInTime` with
`TimesInv`: no live entry expired more than a period before the next tick.
Creation, renewal and removal are three lemmas that the actions cite.
`StoreTypeCorrect`, `IndexAgreesWithMap`, `QuotaRespected`, `ExpiredEntriesGo`,
and the action properties `FreshEntriesKept` (a step that takes an entry which
has not expired is a `Delete` of that entry) and `RenewalExtends` follow.

**Playground conversations** (`PlaygroundSharedProofs`), for any requests,
visitors, ids, quota, time to live, period and window; `NoneIsApart` keeps the
value for "none" out of the visitors, ids and times. `ChatInv` conjoins the
store's own invariant with `ChatTypeOK` and three parts. `OwnInv`: no two requests
have the same conversation, and it expires a time to live after its request's last
store call, unless it is gone, which it can only be when that much time has
passed. `RowsInv`: the position of a request determines what it has added
(`RowsOf`), and one that was never late has added all. `ToolInv`: the kept time of
the last tool call is the latest. `ChatsUseTheStore` proves that every step of
this module is a step of the store or leaves it alone, so the store's theorems
hold here; the rest follows from `ChatInvariance`: `ChatTypeCorrect`,
`ExchangesKeptUnlessSlow` and `ToolCallsSpaced`.

**Threads** (`ThreadHistoryProofs`), for any set of requests, any window of at
least one row, any number of crashes. `ThreadInv` adds to the three properties
`ClockInv` (later rows are not older), `RowsInv` (which positions a worker with
rows, or a request in another's past, can be in) and `PairInv` (in a serial
thread the question of the answer about to be stored is the last row).
`IndexIsInsertion` shows that the index orders as insertion does, and
`LastRowsAreRecent` that the query therefore selects a suffix of the table.
`ThreadTypeCorrect`, `HistoryRecent`, `FollowUpsSeeExchanges` and
`SerialThreadsWhole` follow. `MaxTime` bounds the model's clock; the theorems
hold for each of its values.

**Playground requests** (`PlaygroundRunProofs`), for chains of any length,
channels of any capacity, any number of iterations. `RunInv` adds to the
properties `TellInv` (a run that is under way has told no outcome, one that has
ended has), `CountInv` (what the counters allow at each position), `HandlerInv`
(a returned handler has no run under way) and `RowsInv` (the position of the
handler's run determines what it has stored). `DelegationNests` says of a run
that *all* runs above it wait, not only its parent: the step that lets a parent
go on then needs no induction along the chain, which the prover does not have.
`FinishKeeps` and `MoveKeeps` are the two ways a run takes a step, with or
without its outcome, and the actions cite them; `TakeKeeps` serves both the
handler and a waiting parent. `RunTypeCorrect`, `OutcomeOnceAndLast`,
`RunsNest`, `NoGoroutineLeft`, `ExchangesWholeOrAbsent` and `DelegateAnswers`
follow. `RunsNeverStuck` adds `ChainInv` to `RunInv`: the active runs are the
first levels of the chain, down to some depth, and who reads a channel has
started its run. That a deepest active run exists is thus kept from step to step,
as finding it by going down the chain would take an induction. The deepest run
waits for no other; if it waits for room, its reader finds an event.
`EveryStepCounts` proves `StepsRunOut` from lemmas that say what a step of a
level does to its rank and that it leaves those above alone, and
`RequestsAreFinite` that the ranks of a chain, a product of products, are
well-founded: for every depth that a chain may have, delegation ends, without
fairness. In the rank an event that is being written counts as half delivered
(`EventsLeft`). With `RunsNeverStuck` this is the argument for `EverythingEnds`: a
request whose steps have run out has ended, or is in the middle of a write, which
is why `NeverStuck` does not speak of that position.

**Logins** (`AccountProofs`), for any finite set of clients, any maximum, any
duration. `WrongPasswordsBounded` alone is not inductive. `CountInv` adds the
requests that read the row below the threshold and have not failed yet
(`Below`): each takes the place of a failure still to come, and no request joins
them once the counter, which misses only the failed statements, has reached the
maximum less one. `KnownInv` says that while a lock is in force a request that
is not older is idle or holds the row with the lock in it, so that it will be
refused. `LoginTypeCorrect`, `LockoutNotOutrun` and `LocksLiftedByOlder` follow.

**Registration** (`AccountProofs`), for any requests, addresses and emails, a
bucket of at least one, any number of invitations, numbered by time, and of
restarts. `RegistrationInv` conjoins `RegistrationTypeOK` and `SpentUnlessLost`
with `BucketInv` (the stored bucket of an address is never replaced while a process
runs, every request that is about to ask holds that one, and what it let through
and still has is covered by its size and the refills), `UserInv` (a request that
has created its user is the only one of that email, and the user is made from
its invitation) and `EndInv` (a server that closed without giving up has answered
everybody, so closing the database cuts no `Mark`). `RegistrationTypeCorrect`,
`AddressesLimited`, `OneUserPerInvitation` and `InvitationsSpent` follow.

**Refresh tokens** (`TokenRotationProofs`), for any finite set of clients and any
ids. `PastInv` counts the requests that got past the revocation of a token
(`Past`: those it was exchanged for, those dropped, those in between): before
one revocation succeeded they are exactly the failed ones, and afterwards only
the requests already in `Revoking` can still join, each of them a client. That is
the bound there is: one exchange per token, which `OneTimeUse` states, is violated.
`RotationTypeCorrect`, `ExchangesAreBounded` and `RevokedAreReplaced` follow.

**Prompt and agent definitions** (`PromptStoreProofs`), for any set of requests
and slugs. `StoreInv` conjoins `TypeOK` with `LockInv` (only the holder of the lock
sees tables that are not the committed ones, and what it sees is what its
statements so far made of them), `SnapshotInv` (a maximum that may still be used
is the newest version), `VersionInv` (the i-th row of a prompt is version i, and only the
last row is active), `HiddenInv` (only a delete leaves a slug without an active
row), `RowInv` (rows and committed upserts correspond) and `FloorInv` (what was
acknowledged before a request arrived is still there). `SnapshotInv` is where the
refusal of old snapshots is needed. `StoreInvariant` proves it inductive;
`PromptTypeCorrect`, `UpsertsStored`, `EffectsInRealTime` and
`StoreImplementsVersionedStore` follow: a commit maps to `Publish`, a delete to
`Retire` (which stutters when nothing is served), every other step stutters.

**Agent runner** (`AgentRunnerProofs`), for any agents, editors, loads, callers
and bounds. `RunnerInv` is `TypeOK` with `LoadInv` and `RunInv`. `LoadInv` has the store's own
invariant; that the definition and the prompt of an entry are not newer than what
is published, the prompt under the name the entry has; that a load that counts as
alone is the only one under way; and that the entries such a load has registered
are the definitions that were served when it began, with their prompts not older,
and the listed ones it has yet to register will be. Nothing is assumed of the
prompts that upserts name. `RunInv`
says that what is offered stays loaded, that every run of a stack but the
innermost waits in its dispatch, and what a run at each position has stored.
The steps of loads and of runs are two families: a load step leaves `RunInv`
alone but for the growth of the map, a run step all of `LoadInv`. `RunnerInvariant` is the inductive
invariant; `RunnerTypeCorrect`, `OfferedAgentsRun`, `LoneLoadsAreFresh`, `OnlyTopRunStores` and
`PromptsOnlyGetNewer` follow.

Only model-checked: the liveness properties, and `OnlyChannelsBlock`, which is
stated with ENABLED; both are beyond the prover. What of them needs no fairness
is proved. `StuckOnlyWhenAbandoned` and `NeverStuck` name the waits themselves;
`RequestRunsOut` and `StepsRunOut` with the two well-founded orders say that
nothing goes on for ever. What is left to TLC is that these are all the waits
there are, which `OnlyChannelsBlock` checks for the pipeline and `EverythingEnds`
implies for the playground's runs, and that fairness then takes the steps that
can be taken.

## 5. What is left

Modelled and checked, in this order: the request every user makes
(`ChatPipeline`, `ChatContract`), the shared in-memory state
(`PlaygroundStore`), the playground's requests (`PlaygroundRun`,
`PlaygroundChat`), accounts (`LoginLockout`, `TokenRotation`, `Registration`),
threads (`ThreadHistory`), definitions and what runs on them (`PromptStore`,
`VersionedStore`, `AgentRunner`).

Left: the composition of `AgentRunner` with the stream of `LLMStream`, should a
route ever use that runner.

## 6. Not modelled

* Stateless middleware (headers, token decoding, logging), health and webhook
  handlers, configuration, and all formatting: none of them keeps state that two
  steps could disagree about.
* Opening the database and its migrations, the construction of services and
  routes in `main.go`, filling `Fabric`: sequential code that ends before the
  listener starts. The registry of `Fabric` is only read afterwards.
* The HTTP clients of the tools and of telemetry: one call each whose failure
  becomes a text or a log line. The telemetry goroutine may be cut by the end of
  the process, and nothing waits for it.
* Methods and handlers no code calls: `CleanupExpiredTokens`,
  `CreateInvitation`, `CountByVisitor`, `PlaygroundHandler.GetConversation`,
  `ListProviders`, `ListModels`, `ExecuteWithConfig`.
* A second organization in the agent runner (2.8).
