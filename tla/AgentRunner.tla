----------------------------- MODULE AgentRunner -----------------------------
(***************************************************************************)
(* internal/agent/runner.go: agent definitions loaded from the prompt      *)
(* store into memory, and the runs that use them.  Editors publish new     *)
(* versions at any time, loads overlap each other and the runs; a run that *)
(* delegates starts a run of the sub-agent and waits for it, so the runs   *)
(* of one caller form a stack.  The store is VersionedStore, the contract  *)
(* that PromptStore implements.                                            *)
(***************************************************************************)
EXTENDS Naturals, Sequences, FiniteSets

CONSTANTS
  Slug,       \* agent ids and prompt ids, numbered in the order of ORDER BY
  Editor,     \* the upserts that may be made
  PromptIn,   \* the prompt the definition in an upsert names
  SubsIn,     \* the sub-agents it names
  Load,       \* calls of LoadAgents
  Run,        \* calls of Run by the rest of the program
  MaxIter,    \* MaxIterations of every agent
  MaxCalls,   \* bound: tool calls in one answer
  MaxDepth,   \* bound: runs on a stack
  Free        \* nobody holds the write lock

ASSUME SlugsNumbered == Slug \subseteq Nat
ASSUME UpsertsNameSlugs == PromptIn \in [Editor -> Slug] /\ SubsIn \in [Editor -> SUBSET Slug]
ASSUME FreeIsNoLoad == Free \notin Load
ASSUME BoundsAreNumbers == MaxIter \in Nat /\ MaxCalls \in Nat /\ MaxDepth \in Nat

AgentKey  == {"agent"} \X Slug
PromptKey == {"prompt"} \X Slug

VARIABLES
  published, serving,  \* the store
  loaded,              \* r.agents: per id what it was built from, def 0 if absent
  mu,                  \* the load that holds r.mu, or Free
  lpc, todo,           \* per load: where it is, and the definitions it has yet to register
  floor, alone,        \* history: what was served when it began, till it ends; those that
                       \* met no other
  frames,              \* per caller, its stack of runs
  saved,               \* per caller, the roles of the messages inserted for it
  outcome              \* per caller, the final event it was sent, or "none"

storeVars == <<published, serving>>
loadVars  == <<loaded, mu, lpc, todo, floor, alone>>
runVars   == <<frames, saved, outcome>>
vars      == <<storeVars, loadVars, runVars>>

Store == INSTANCE VersionedStore WITH
  Key <- AgentKey \cup PromptKey, Retirable <- PromptKey, Author <- Editor

\* GetActivePrompt and ListAgents see the version that is served, if any.
Active(k)     == IF serving[k] = {} THEN 0 ELSE CHOOSE v \in serving[k] : TRUE
ActivePrompt(s) == Active(<<"prompt", s>>)
ActiveAgent(s)  == Active(<<"agent", s>>)

FramePC == {"resolve", "setup", "offer", "loop", "dispatch", "saveUser", "saveReply"}
Frame == [pc : FramePC, agent : Slug, subs : SUBSET Slug, offered : SUBSET Slug,
          via : {"caller", "offer", "name"}, iter : Nat, calls : Seq(Slug), reply : {"none", "text"}]

\* A row of agents: its version, the prompt it names and the sub-agents; and
\* an agent built from it, with the version of the prompt.
Definition == [def : Nat, names : Slug, subs : SUBSET Slug]
Agent      == [def : Nat, names : Slug, subs : SUBSET Slug, prompt : Nat]
Versions   == [def : Nat, prompt : Nat]

TypeOK ==
  /\ loaded \in [Slug -> Agent]
  /\ mu \in Load \cup {Free}
  /\ lpc \in [Load -> {"idle", "listed", "loading", "finished"}]
  /\ DOMAIN todo = Load
  /\ \A l \in Load : DOMAIN todo[l] \subseteq Slug /\ todo[l] \in [DOMAIN todo[l] -> Definition]
  /\ floor \in [Load -> [Slug -> Versions]]
  /\ alone \subseteq Load
  /\ \A l \in Load : mu = l <=> lpc[l] = "loading"
  /\ frames \in [Run -> Seq(Frame)]
  /\ saved \in [Run -> Seq({"user", "assistant"})]
  /\ outcome \in [Run -> {"none", "error", "done"}]
  /\ \A t \in Run : outcome[t] # "none" => frames[t] = <<>>

Nothing    == [s \in Slug |-> [def |-> 0, prompt |-> 0]]
NoAgent(s) == [def |-> 0, names |-> s, subs |-> {}, prompt |-> 0]

Init ==
  /\ Store!VSInit
  /\ loaded = [s \in Slug |-> NoAgent(s)]
  /\ mu = Free
  /\ lpc = [l \in Load |-> "idle"]
  /\ todo = [l \in Load |-> <<>>]
  /\ floor = [l \in Load |-> Nothing]
  /\ alone = Load
  /\ frames = [t \in Run |-> <<>>]
  /\ saved = [t \in Run |-> <<>>]
  /\ outcome = [t \in Run |-> "none"]

\* Other requests edit the definitions.
Edit ==
  /\ Store!VSNext
  /\ serving' # serving
  /\ UNCHANGED <<loadVars, runVars>>
------------------------------------------------------------------------------
(* LoadAgents. *)

Loading(l) == lpc[l] \in {"listed", "loading"}
Listed     == {s \in Slug : ActiveAgent(s) # 0}

\* The active definition of an agent says what the upsert that published it
\* says, which may name other prompts than the ones before it.
ActiveDefinition(s) ==
  LET v == ActiveAgent(s)
      e == published[<<"agent", s>>][v].by
  IN  [def |-> v, names |-> PromptIn[e], subs |-> SubsIn[e]]

InForce == [s \in Slug |->
  [def    |-> ActiveAgent(s),
   prompt |-> IF s \in Listed THEN ActivePrompt(ActiveDefinition(s).names) ELSE 0]]

\* The query, made before the lock is asked for.
List(l) ==
  /\ lpc[l] = "idle"
  /\ lpc' = [lpc EXCEPT ![l] = "listed"]
  /\ todo' = [todo EXCEPT ![l] = [s \in Listed |-> ActiveDefinition(s)]]
  /\ floor' = [floor EXCEPT ![l] = InForce]
  /\ LET others == {m \in Load \ {l} : Loading(m)}
     IN  alone' = IF others = {} THEN alone ELSE alone \ (others \cup {l})
  /\ UNCHANGED <<storeVars, loaded, mu, runVars>>

\* The query fails: nothing is loaded.
ListFails(l) ==
  /\ lpc[l] = "idle"
  /\ lpc' = [lpc EXCEPT ![l] = "finished"]
  /\ UNCHANGED <<storeVars, loaded, mu, todo, floor, alone, runVars>>

\* Defect: every load begins with an empty map.
LockAndClear(l) ==
  /\ lpc[l] = "listed" /\ mu = Free
  /\ mu' = l
  /\ lpc' = [lpc EXCEPT ![l] = "loading"]
  /\ loaded' = [s \in Slug |-> NoAgent(s)]
  /\ UNCHANGED <<storeVars, todo, floor, alone, runVars>>

Lock(l) ==
  /\ lpc[l] = "listed" /\ mu = Free
  /\ mu' = l
  /\ lpc' = [lpc EXCEPT ![l] = "loading"]
  /\ UNCHANGED <<storeVars, loaded, todo, floor, alone, runVars>>

NextOf(l) == CHOOSE s \in DOMAIN todo[l] : \A m \in DOMAIN todo[l] : s <= m

\* The agent that a definition makes, its prompt in the given version.
Built(d, v) == [def |-> d.def, names |-> d.names, subs |-> d.subs, prompt |-> v]

Rest(l) == [s \in DOMAIN todo[l] \ {NextOf(l)} |-> todo[l][s]]

\* Defect: an id that is in the map keeps its entry.
RegisterOnce(l) ==
  /\ lpc[l] = "loading" /\ DOMAIN todo[l] # {}
  /\ LET s == NextOf(l)
     IN  loaded' = [loaded EXCEPT ![s] = IF @.def # 0 THEN @
                      ELSE Built(todo[l][s], ActivePrompt(todo[l][s].names))]
  /\ todo' = [todo EXCEPT ![l] = Rest(l)]
  /\ UNCHANGED <<storeVars, mu, lpc, floor, alone, runVars>>

\* Defect: the prompt was read with the list, before the lock.
RegisterListed(l) ==
  /\ lpc[l] = "loading" /\ DOMAIN todo[l] # {}
  /\ LET s == NextOf(l)
     IN  loaded' = [loaded EXCEPT ![s] = Built(todo[l][s], floor[l][s].prompt)]
  /\ todo' = [todo EXCEPT ![l] = Rest(l)]
  /\ UNCHANGED <<storeVars, mu, lpc, floor, alone, runVars>>

\* One round of the loop: a query for the prompt, then the entry in the map.
Register(l) ==
  /\ lpc[l] = "loading" /\ DOMAIN todo[l] # {}
  /\ LET s == NextOf(l)
     IN  loaded' = [loaded EXCEPT ![s] = Built(todo[l][s], ActivePrompt(todo[l][s].names))]
  /\ todo' = [todo EXCEPT ![l] = Rest(l)]
  /\ UNCHANGED <<storeVars, mu, lpc, floor, alone, runVars>>

\* The query fails: this agent is passed over.
PassOver(l) ==
  /\ lpc[l] = "loading" /\ DOMAIN todo[l] # {}
  /\ todo' = [todo EXCEPT ![l] = Rest(l)]
  /\ alone' = alone \ {l}
  /\ UNCHANGED <<storeVars, loaded, mu, lpc, floor, runVars>>

Unlock(l) ==
  /\ lpc[l] = "loading" /\ DOMAIN todo[l] = {}
  /\ mu' = Free
  /\ lpc' = [lpc EXCEPT ![l] = "finished"]
  /\ floor' = [floor EXCEPT ![l] = Nothing]
  /\ UNCHANGED <<storeVars, loaded, todo, alone, runVars>>

LoadStep(l) == \/ List(l) \/ ListFails(l) \/ Lock(l) \/ Register(l) \/ PassOver(l) \/ Unlock(l)
------------------------------------------------------------------------------
(* Runs. *)

Depth(t)   == Len(frames[t])
Top(t)     == frames[t][Depth(t)]
TopSet(t, f) == frames' = [frames EXCEPT ![t][Depth(t)] = f]

NewRun(s, via) ==
  [pc |-> "resolve", agent |-> s, subs |-> {}, offered |-> {}, via |-> via,
   iter |-> 0, calls |-> <<>>, reply |-> "none"]

Start(t, s) ==
  /\ frames[t] = <<>> /\ outcome[t] = "none"
  /\ frames' = [frames EXCEPT ![t] = <<NewRun(s, "caller")>>]
  /\ UNCHANGED <<storeVars, loadVars, saved, outcome>>

At(t, p) == frames[t] # <<>> /\ Top(t).pc = p

\* A run is over: its caller is told, or the run above goes on with its calls.
\* What it streamed is its result there, and an error is not told from it.
EndRun(t, last) ==
  /\ frames' = [frames EXCEPT ![t] = SubSeq(@, 1, Depth(t) - 1)]
  /\ outcome' = IF Depth(t) = 1 THEN [outcome EXCEPT ![t] = last] ELSE outcome

Errs(t) == EndRun(t, "error") /\ UNCHANGED <<storeVars, loadVars, saved>>

\* GetAgent, under the read lock: the agent is not changed once it is in the
\* map, a load puts another in its place.
ResolveLoaded(t) ==
  /\ At(t, "resolve") /\ mu = Free /\ loaded[Top(t).agent].def # 0
  /\ TopSet(t, [Top(t) EXCEPT !.pc = "setup", !.subs = loaded[Top(t).agent].subs])
  /\ UNCHANGED <<storeVars, loadVars, saved, outcome>>

\* The fallback: a prompt of that id makes an agent without sub-agents.
ResolvePrompt(t) ==
  /\ At(t, "resolve") /\ mu = Free /\ loaded[Top(t).agent].def = 0
  /\ ActivePrompt(Top(t).agent) # 0
  /\ TopSet(t, [Top(t) EXCEPT !.pc = "setup"])
  /\ UNCHANGED <<storeVars, loadVars, saved, outcome>>

\* Neither, or the query fails.
NotFound(t) ==
  /\ At(t, "resolve") /\ mu = Free /\ loaded[Top(t).agent].def = 0
  /\ Errs(t)

\* GetProvider and GetHistory.
SetUp(t) ==
  /\ At(t, "setup")
  /\ TopSet(t, [Top(t) EXCEPT !.pc = "offer"])
  /\ UNCHANGED <<storeVars, loadVars, saved, outcome>>

SetUpFails(t) == At(t, "setup") /\ Errs(t)

InMap == {s \in Slug : loaded[s].def # 0}

\* buildAgentTools offers the sub-agents that are loaded by now.
Offer(t) ==
  /\ At(t, "offer") /\ mu = Free
  /\ TopSet(t, [Top(t) EXCEPT !.pc = "loop", !.offered = Top(t).subs \cap InMap])
  /\ UNCHANGED <<storeVars, loadVars, saved, outcome>>

\* Defect: a sub-agent's run stores its exchange too.
FinishAndStore(t, f) == TopSet(t, [f EXCEPT !.pc = "saveUser"]) /\ UNCHANGED outcome

\* A caller's run goes on to store the exchange, any other is over.
Finish(t, f) ==
  IF Depth(t) = 1 THEN TopSet(t, [f EXCEPT !.pc = "saveUser"]) /\ UNCHANGED outcome
  ELSE EndRun(t, "done")

\* The iterations are used up: the reply stays empty.
Exhausted(t) ==
  /\ At(t, "loop") /\ Top(t).iter = MaxIter
  /\ Finish(t, Top(t))
  /\ UNCHANGED <<storeVars, loadVars, saved>>

\* The context is over, ChatStream fails, or the stream ends in an error.
LoopErrs(t) == At(t, "loop") /\ Top(t).iter < MaxIter /\ Errs(t)

\* The model answers with a text, perhaps an empty one.
Answer(t) ==
  /\ At(t, "loop") /\ Top(t).iter < MaxIter
  /\ \E b \in {"none", "text"} : Finish(t, [Top(t) EXCEPT !.reply = b])
  /\ UNCHANGED <<storeVars, loadVars, saved>>

\* It calls a tool, of any name: the code compares the name with the agent's
\* sub-agents, not with what was offered.
CallTool(t) ==
  /\ At(t, "loop") /\ Top(t).iter < MaxIter
  /\ \E n \in 1 .. MaxCalls : \E calls \in [1 .. n -> Slug] :
       TopSet(t, [Top(t) EXCEPT !.pc = "dispatch", !.calls = calls])
  /\ UNCHANGED <<storeVars, loadVars, saved, outcome>>

NextCall(f) == [f EXCEPT !.calls = Tail(@)]

Delegate(t) ==
  /\ At(t, "dispatch") /\ Top(t).calls # <<>> /\ Head(Top(t).calls) \in Top(t).subs
  /\ Depth(t) < MaxDepth
  /\ LET s == Head(Top(t).calls)
     IN  frames' = [frames EXCEPT ![t] =
           Append([@ EXCEPT ![Depth(t)] = NextCall(Top(t))],
                  NewRun(s, IF s \in Top(t).offered THEN "offer" ELSE "name"))]
  /\ UNCHANGED <<storeVars, loadVars, saved, outcome>>

\* A tool of the registry, or none of that name: its result is a text.
Execute(t) ==
  /\ At(t, "dispatch") /\ Top(t).calls # <<>> /\ Head(Top(t).calls) \notin Top(t).subs
  /\ TopSet(t, NextCall(Top(t)))
  /\ UNCHANGED <<storeVars, loadVars, saved, outcome>>

Iterate(t) ==
  /\ At(t, "dispatch") /\ Top(t).calls = <<>>
  /\ TopSet(t, [Top(t) EXCEPT !.pc = "loop", !.iter = @ + 1])
  /\ UNCHANGED <<storeVars, loadVars, saved, outcome>>

Insert(t, role) == saved' = [saved EXCEPT ![t] = Append(@, role)] \/ UNCHANGED saved

\* persistExchange: a failed insert is only logged.
SaveUser(t) ==
  /\ At(t, "saveUser")
  /\ Insert(t, "user")
  /\ TopSet(t, [Top(t) EXCEPT !.pc = "saveReply"])
  /\ UNCHANGED <<storeVars, loadVars, outcome>>

SaveReply(t) ==
  /\ At(t, "saveReply")
  /\ IF Top(t).reply = "text" THEN Insert(t, "assistant") ELSE UNCHANGED saved
  /\ EndRun(t, "done")
  /\ UNCHANGED <<storeVars, loadVars>>

RunStep(t) ==
  \/ ResolveLoaded(t) \/ ResolvePrompt(t) \/ NotFound(t) \/ SetUp(t) \/ SetUpFails(t) \/ Offer(t)
  \/ Exhausted(t) \/ LoopErrs(t) \/ Answer(t) \/ CallTool(t)
  \/ Delegate(t) \/ Execute(t) \/ Iterate(t) \/ SaveUser(t) \/ SaveReply(t)

Next == \/ Edit
        \/ \E l \in Load : LoadStep(l)
        \/ \E t \in Run, s \in Slug : Start(t, s)
        \/ \E t \in Run : RunStep(t)

Spec == Init /\ [][Next]_vars
------------------------------------------------------------------------------
(* Properties. *)

\* A sub-agent that was offered to the model can be run when the model calls
\* it, however many loads come in between.
OfferedCanRun ==
  \A t \in Run : \A i \in DOMAIN frames[t] :
    /\ frames[t][i].offered \subseteq InMap
    /\ frames[t][i].via = "offer" => frames[t][i].agent \in InMap

\* A load that met no other load, and no failing query, leaves the definitions
\* behind that were served when it began, with their prompts in no older
\* version, save a prompt deleted since.
LoneLoadIsFresh ==
  \A l \in Load :
    /\ lpc[l] = "loading" /\ l \in alone /\ DOMAIN todo[l] = {}
    => \A s \in Slug : floor[l][s].def # 0 =>
         /\ loaded[s].def = floor[l][s].def
         /\ loaded[s].prompt >= floor[l][s].prompt \/ loaded[s].prompt = 0

\* Loads that overlap may bring back an older definition, since the list is
\* read before the lock, and with it the prompt that one names.  But of one
\* prompt an agent never gets an older version than it has: that is read under
\* the lock.
PromptsNeverOlder ==
  [][\A s \in Slug :
       loaded'[s].prompt # 0 /\ loaded'[s].names = loaded[s].names
       => loaded'[s].prompt >= loaded[s].prompt]_vars

\* Only the caller's run stores, after its last answer: the question, then the
\* reply if there is one; a run that ends in an error has stored nothing.
StoredByTopRun ==
  \A t \in Run :
    /\ saved[t] \in {<<>>, <<"user">>, <<"assistant">>, <<"user", "assistant">>}
    /\ saved[t] # <<>> =>
         outcome[t] = "done" \/ (Depth(t) = 1 /\ Top(t).pc = "saveReply")
==============================================================================
