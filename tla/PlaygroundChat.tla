---------------------------- MODULE PlaygroundChat ----------------------------
(***************************************************************************)
(* The requests of the playground's visitors as users of what they share:  *)
(* the conversation store (PlaygroundStore) with its clock and its sweep,  *)
(* and the limiter of HTTP tools.  No route tells a client the id of a     *)
(* conversation, so the one it may name is never found: every chat request *)
(* gets a conversation of its own, and only its run uses it until it is    *)
(* swept.  The store calls of a run are apart in time, and the sweep may   *)
(* come in between.  The loop inside a run is PlaygroundRun's.             *)
(***************************************************************************)
EXTENDS PlaygroundStore, Sequences

CONSTANTS
  Req,      \* requests to StreamChat and to Delegate
  Window,   \* the window of the HTTP tools (10 s in the code)
  None      \* no visitor, no conversation, no call yet

ASSUME NoneIsApart == None \notin Visitor \cup Id /\ None \notin Nat
ASSUME WindowIsTime == Window \in Nat

VARIABLES
  pc, visitor, conv, \* per request: where it is, whose it is, its conversation
  msgs,      \* per id: the Messages added to the conversation while it lived
  lastCall,  \* visitorHTTPRateLimiter.lastCall
  touched,   \* history: when the request last called the store
  late,      \* history: requests that let more than TTL pass between two calls
  calls      \* history, per visitor: when the limiter let an HTTP tool through

runVars  == <<pc, visitor, conv>>
toolVars == <<lastCall, calls>>
timeVars == <<touched, late>>
chatVars == <<storeVars, runVars, msgs, timeVars, toolVars>>

ChatStep == {"idle", "run", "loop", "saveUser", "saveReply", "done", "failed"}

ChatTypeOK ==
  /\ TypeOK
  /\ pc \in [Req -> ChatStep]
  /\ visitor \in [Req -> Visitor \cup {None}]
  /\ conv \in [Req -> Id \cup {None}]
  /\ msgs \in [Id -> Seq({"user", "assistant"})]
  /\ touched \in [Req -> Nat] /\ late \subseteq Req
  /\ lastCall \in [Visitor -> Nat \cup {None}]
  /\ calls \in [Visitor -> Seq(Nat)]

ChatInit ==
  /\ Init
  /\ pc = [r \in Req |-> "idle"]
  /\ visitor = [r \in Req |-> None]
  /\ conv = [r \in Req |-> None]
  /\ msgs = [c \in Id |-> << >>]
  /\ touched = [r \in Req |-> 0] /\ late = {}
  /\ lastCall = [v \in Visitor |-> None]
  /\ calls = [v \in Visitor |-> << >>]

Goto(r, p) == pc' = [pc EXCEPT ![r] = p]

\* The request calls the store now.
Touch(r) ==
  /\ touched' = [touched EXCEPT ![r] = now]
  /\ late' = IF now > touched[r] + TTL THEN late \cup {r} ELSE late
------------------------------------------------------------------------------
(* The handlers. *)

\* The agent a request names is unknown or has expired, or, for a chat, the
\* visitor's conversations are at the quota.
Refuse(r) ==
  /\ pc[r] = "idle"
  /\ Goto(r, "failed")
  /\ UNCHANGED <<storeVars, visitor, conv, msgs, timeVars, toolVars>>

\* StreamChat: a conversation the client names is not found; GetOrCreate makes
\* a new one.
StreamChat(r, v) ==
  /\ pc[r] = "idle"
  /\ Create(v)
  /\ \E c \in Id \ issued :
       /\ c \in issued'
       /\ conv' = [conv EXCEPT ![r] = c]
  /\ visitor' = [visitor EXCEPT ![r] = v]
  /\ touched' = [touched EXCEPT ![r] = now]
  /\ Goto(r, "run")
  /\ UNCHANGED <<msgs, late, toolVars>>

\* Delegate: a run without a conversation.
Delegate(r, v) ==
  /\ pc[r] = "idle"
  /\ visitor' = [visitor EXCEPT ![r] = v]
  /\ Goto(r, "loop")
  /\ UNCHANGED <<storeVars, conv, msgs, timeVars, toolVars>>
------------------------------------------------------------------------------
(* executeAgent. *)

\* Its agent or model is not found; in the loop, the context is over, the
\* provider fails, or the iterations are used up.
RunFails(r) ==
  /\ pc[r] \in {"run", "loop"}
  /\ Goto(r, "failed")
  /\ UNCHANGED <<storeVars, visitor, conv, msgs, timeVars, toolVars>>

\* Defect: the conversation is read without renewing it.
GetConversationUnrenewed(r) ==
  /\ pc[r] = "run"
  /\ UNCHANGED storeVars
  /\ Touch(r)
  /\ Goto(r, "loop")
  /\ UNCHANGED <<visitor, conv, msgs, toolVars>>

\* convStore.Get renews the conversation; it has no messages yet.  When it is
\* gone already the run goes on all the same.
GetConversation(r) ==
  /\ pc[r] = "run"
  /\ IF conv[r] \in Live THEN Get(conv[r], visitor[r]) ELSE UNCHANGED storeVars
  /\ Touch(r)
  /\ Goto(r, "loop")
  /\ UNCHANGED <<visitor, conv, msgs, toolVars>>

\* Defect: the time of a later call is not kept.
CallToolKeepsFirst(r) ==
  LET v == visitor[r] IN
  /\ pc[r] = "loop"
  /\ lastCall[v] # None => now - lastCall[v] >= Window
  /\ lastCall' = IF lastCall[v] = None THEN [lastCall EXCEPT ![v] = now] ELSE lastCall
  /\ calls' = [calls EXCEPT ![v] = Append(@, now)]
  /\ UNCHANGED <<storeVars, runVars, msgs, timeVars>>

\* executeHTTPTool, of this run or of one it delegated to; a call that the
\* limiter refuses changes nothing.
CallTool(r) ==
  LET v == visitor[r] IN
  /\ pc[r] = "loop"
  /\ lastCall[v] # None => now - lastCall[v] >= Window
  /\ lastCall' = [lastCall EXCEPT ![v] = now]
  /\ calls' = [calls EXCEPT ![v] = Append(@, now)]
  /\ UNCHANGED <<storeVars, runVars, msgs, timeVars>>

\* The model answers; a run without a conversation has nothing to save.
Answer(r) ==
  /\ pc[r] = "loop"
  /\ Goto(r, IF conv[r] = None THEN "done" ELSE "saveUser")
  /\ UNCHANGED <<storeVars, visitor, conv, msgs, timeVars, toolVars>>

\* The error of a conversation that is gone is not looked at.
AddRow(r, role) ==
  IF conv[r] \in Live
    THEN AddMessage(conv[r]) /\ msgs' = [msgs EXCEPT ![conv[r]] = Append(@, role)]
    ELSE UNCHANGED <<storeVars, msgs>>

SaveUser(r) ==
  /\ pc[r] = "saveUser"
  /\ AddRow(r, "user")
  /\ Touch(r)
  /\ Goto(r, "saveReply")
  /\ UNCHANGED <<visitor, conv, toolVars>>

\* "done" goes to the client next, whether the rows were added or not.
SaveReply(r) ==
  /\ pc[r] = "saveReply"
  /\ AddRow(r, "assistant")
  /\ Touch(r)
  /\ Goto(r, "done")
  /\ UNCHANGED <<visitor, conv, toolVars>>
------------------------------------------------------------------------------
Step(r) ==
  \/ Refuse(r)
  \/ \E v \in Visitor : StreamChat(r, v) \/ Delegate(r, v)
  \/ RunFails(r) \/ GetConversation(r) \/ CallTool(r) \/ Answer(r)
  \/ SaveUser(r) \/ SaveReply(r)

StoreStep ==
  /\ Sweep \/ Stop \/ SweeperEnds \/ Tick
  /\ UNCHANGED <<runVars, msgs, timeVars, toolVars>>

ChatNext == StoreStep \/ \E r \in Req : Step(r)

ChatSpec == ChatInit /\ [][ChatNext]_chatVars
------------------------------------------------------------------------------
(* Properties. *)

Exchange == <<"user", "assistant">>

(* An answered chat has its exchange in its conversation, unless the run   *)
(* let more than the time to live pass between two of its store calls,     *)
(* wherever the sweeps fell: then the exchange, or its second half, is     *)
(* lost, although the client is told "done".  An answer is never kept      *)
(* without its question.                                                   *)
KeptUnlessSlow ==
  \A r \in Req : pc[r] = "done" /\ conv[r] # None =>
    /\ msgs[conv[r]] \in {<< >>, <<"user">>, Exchange}
    /\ r \notin late => msgs[conv[r]] = Exchange

(* The HTTP tools of a visitor are called a window apart, whichever of his *)
(* runs call them.                                                         *)
ToolsSpaced ==
  \A v \in Visitor : \A i, j \in DOMAIN calls[v] :
    i < j => calls[v][j] - calls[v][i] >= Window
------------------------------------------------------------------------------
(* The inductive invariant. *)

\* A conversation is one request's, and lives for a TTL after its last call.
OwnInv ==
  /\ \A r \in Req : conv[r] # None => conv[r] \in issued
  /\ \A r, q \in Req : conv[r] # None /\ conv[r] = conv[q] => r = q
  /\ \A r \in Req : pc[r] = "idle" => conv[r] = None
  /\ \A r \in Req : pc[r] \in {"run", "saveUser", "saveReply"} => conv[r] # None
  /\ \A r \in Req : conv[r] # None =>
       IF conv[r] \in Live
         THEN entries[conv[r]] = [owner |-> visitor[r], expires |-> touched[r] + TTL]
         ELSE r \in late \/ now > touched[r] + TTL
  /\ \A r \in Req : pc[r] = "loop" \/ conv[r] # None => visitor[r] \in Visitor

\* What a run has added by its position.
RowsOf(r) ==
  LET rows == msgs[conv[r]] IN
  /\ pc[r] \in {"run", "loop", "saveUser", "failed"} => rows = << >>
  /\ pc[r] = "saveReply" =>
       /\ rows = <<"user">> \/ (rows = << >> /\ conv[r] \notin Live)
       /\ r \notin late => rows = <<"user">>
  /\ pc[r] = "done" =>
       /\ rows \in {<< >>, <<"user">>, Exchange}
       /\ r \notin late => rows = Exchange

RowsInv ==
  /\ \A c \in Id : c \notin issued => msgs[c] = << >>
  /\ \A r \in Req : conv[r] # None => RowsOf(r)

ToolInv ==
  /\ \A v \in Visitor :
       /\ \A i \in DOMAIN calls[v] : lastCall[v] \in Nat /\ calls[v][i] <= lastCall[v]
       /\ lastCall[v] # None => lastCall[v] <= now
  /\ ToolsSpaced

ChatInv == StoreInv /\ ChatTypeOK /\ OwnInv /\ RowsInv /\ ToolInv
==============================================================================
