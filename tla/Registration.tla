----------------------------- MODULE Registration -----------------------------
(***************************************************************************)
(* POST /auth/register from the listener to the answer: the rate limiter   *)
(* of the client's address (internal/middleware/ratelimit.go), then        *)
(* AuthService.Register, three statements with no transaction around them, *)
(* in a server that is stopped, killed and started again                   *)
(* (cmd/server/main.go).  The rows outlive the process, the buckets do     *)
(* not.                                                                    *)
(***************************************************************************)
EXTENDS Naturals

CONSTANTS
  Req,         \* requests to the /auth routes
  Address,     \* client addresses
  Email,
  Invitation,  \* invitations, numbered in the order of created_at
  EmailOf,     \* the address each was issued to
  Burst,       \* a bucket's size, AuthRateLimitRPM
  MaxTicks,    \* bound: refills of one token while a process runs
  MaxStarts,   \* bound: starts of the server
  None

ASSUME InvitationsNumbered == Invitation \subseteq Nat \ {0} /\ EmailOf \in [Invitation -> Email]
ASSUME NoneIsNothing == None \notin Req /\ None \notin Invitation
ASSUME BurstIsPositive == Burst \in Nat \ {0}

VARIABLES
  phase,     \* the server: serving, draining, closed (the database is), down
  forced,    \* it was killed, or gave up waiting after 30 seconds
  starts,    \* how often it was started
  bucket,    \* RateLimiter.limiters: per address, the request whose limiter is stored
  tokens,    \* per limiter, by the request that made it
  ticks,     \* refills since the server started
  admitted,  \* history: requests let through since then
  issued, expired, spent, \* invitations: rows, those over, those with used = 1
  users,     \* per email, the invitation its user was made from, or None
  unmarked,  \* history: marking failed, or the process ended before it
  stage, from, email, limiter, inv \* per request

serverVars == <<phase, forced, starts>>
limitVars  == <<bucket, tokens, ticks, admitted>>
inviteVars == <<issued, expired, spent>>
rowVars    == <<inviteVars, users, unmarked>>
localVars  == <<from, email, limiter, inv>>
registrationVars == <<serverVars, limitVars, rowVars, stage, localVars>>

InFlight == {"load", "store", "allow", "lookup", "create", "mark"}

RegistrationTypeOK ==
  /\ phase \in {"serving", "draining", "closed", "down"} /\ forced \in BOOLEAN
  /\ starts \in Nat
  /\ bucket \in [Address -> Req \cup {None}]
  /\ tokens \in [Req -> 0 .. Burst]
  /\ ticks \in Nat /\ admitted \in [Address -> Nat]
  /\ spent \subseteq issued /\ expired \subseteq issued /\ issued \subseteq Invitation
  /\ unmarked \subseteq issued
  /\ users \in [Email -> issued \cup {None}]
  /\ stage \in [Req -> InFlight \cup {"idle", "created", "refused", "cut"}]
  /\ from \in [Req -> Address \cup {None}] /\ email \in [Req -> Email \cup {None}]
  /\ limiter \in [Req -> Req \cup {None}] /\ inv \in [Req -> Invitation \cup {None}]
  /\ \A r \in Req :
       /\ stage[r] # "idle" => from[r] \in Address /\ email[r] \in Email
       /\ stage[r] = "allow" => limiter[r] # None
       /\ stage[r] \in {"create", "mark", "created"} => inv[r] \in issued

RegistrationInit ==
  /\ phase = "serving" /\ forced = FALSE /\ starts = 1
  /\ bucket = [a \in Address |-> None]
  /\ tokens = [r \in Req |-> Burst]
  /\ ticks = 0
  /\ admitted = [a \in Address |-> 0]
  /\ issued = {} /\ expired = {} /\ spent = {}
  /\ users = [e \in Email |-> None]
  /\ unmarked = {}
  /\ stage = [r \in Req |-> "idle"]
  /\ from = [r \in Req |-> None] /\ email = [r \in Req |-> None]
  /\ limiter = [r \in Req |-> None] /\ inv = [r \in Req |-> None]

Advance(r, p) == stage' = [stage EXCEPT ![r] = p]
------------------------------------------------------------------------------
(* The limiter. *)

Arrive(r) ==
  /\ phase = "serving" /\ stage[r] = "idle"
  /\ Advance(r, "load")
  /\ \E a \in Address : from' = [from EXCEPT ![r] = a]
  /\ \E e \in Email : email' = [email EXCEPT ![r] = e]
  /\ UNCHANGED <<serverVars, limitVars, rowVars, limiter, inv>>

\* limiters.Load.
Load(r) ==
  /\ stage[r] = "load"
  /\ LET b == bucket[from[r]]
     IN  IF b = None THEN Advance(r, "store") /\ UNCHANGED limiter
         ELSE Advance(r, "allow") /\ limiter' = [limiter EXCEPT ![r] = b]
  /\ UNCHANGED <<serverVars, limitVars, rowVars, from, email, inv>>

\* Defect: limiters.Store, which replaces what another request has stored.
StoreOwn(r) ==
  /\ stage[r] = "store" /\ Advance(r, "allow")
  /\ bucket' = [bucket EXCEPT ![from[r]] = r]
  /\ limiter' = [limiter EXCEPT ![r] = r]
  /\ UNCHANGED <<serverVars, tokens, ticks, admitted, rowVars, from, email, inv>>

\* limiters.LoadOrStore of a full bucket.
LoadOrStore(r) ==
  /\ stage[r] = "store" /\ Advance(r, "allow")
  /\ bucket' = [bucket EXCEPT ![from[r]] = IF @ = None THEN r ELSE @]
  /\ limiter' = [limiter EXCEPT ![r] = bucket'[from[r]]]
  /\ UNCHANGED <<serverVars, tokens, ticks, admitted, rowVars, from, email, inv>>

\* limiter.Allow; the request goes on to Register, with a valid password.
Admit(r) ==
  /\ stage[r] = "allow" /\ tokens[limiter[r]] > 0
  /\ tokens' = [tokens EXCEPT ![limiter[r]] = @ - 1]
  /\ admitted' = [admitted EXCEPT ![from[r]] = @ + 1]
  /\ Advance(r, "lookup")
  /\ UNCHANGED <<serverVars, bucket, ticks, rowVars, localVars>>

Refuse(r) == Advance(r, "refused") /\ UNCHANGED <<serverVars, limitVars, rowVars, localVars>>

LimitRefuses(r) == stage[r] = "allow" /\ tokens[limiter[r]] = 0 /\ Refuse(r)

\* Another route of the group, or a password refused: nothing is stored.
OtherAnswer(r) == stage[r] = "lookup" /\ Refuse(r)

\* Every bucket gains a token, up to its size.
Refill ==
  /\ phase # "down" /\ ticks < MaxTicks
  /\ ticks' = ticks + 1
  /\ tokens' = [b \in Req |-> IF tokens[b] < Burst THEN tokens[b] + 1 ELSE Burst]
  /\ UNCHANGED <<serverVars, bucket, admitted, rowVars, stage, localVars>>
------------------------------------------------------------------------------
(* AuthService.Register. *)

Valid(e) == {i \in issued \ (spent \cup expired) : EmailOf[i] = e}

DbOpen == phase \in {"serving", "draining"}

\* ORDER BY created_at DESC LIMIT 1.
IsNewest(i, S) == i \in S /\ \A j \in S : j <= i

\* GetValidInvitation, then bcrypt.
LookUp(r) ==
  /\ stage[r] = "lookup" /\ DbOpen
  /\ \E i \in issued : IsNewest(i, Valid(email[r])) /\ inv' = [inv EXCEPT ![r] = i]
  /\ Advance(r, "create")
  /\ UNCHANGED <<serverVars, limitVars, rowVars, from, email, limiter>>

\* CreateUser: users.email is UNIQUE.
CreateUser(r) ==
  /\ stage[r] = "create" /\ DbOpen /\ users[email[r]] = None
  /\ users' = [users EXCEPT ![email[r]] = inv[r]]
  /\ Advance(r, "mark")
  /\ UNCHANGED <<serverVars, limitVars, inviteVars, unmarked, localVars>>

\* The statement fails, as it must when there is a user or the database is
\* closed.
CreateFails(r) == stage[r] = "create" /\ Refuse(r)

\* Defect: marks what is valid by now, by email.
MarkNewest(r) ==
  /\ stage[r] = "mark" /\ DbOpen
  /\ spent' = spent \cup {i \in issued : IsNewest(i, Valid(email[r]))}
  /\ Advance(r, "created")
  /\ UNCHANGED <<serverVars, limitVars, issued, expired, users, unmarked, localVars>>

\* MarkInvitationUsed.
Mark(r) ==
  /\ stage[r] = "mark" /\ DbOpen
  /\ spent' = spent \cup {inv[r]}
  /\ Advance(r, "created")
  /\ UNCHANGED <<serverVars, limitVars, issued, expired, users, unmarked, localVars>>

\* It fails, which is only logged.  A database closed under a request is an
\* excuse only if the server gave up waiting for it.
MarkFails(r) ==
  /\ stage[r] = "mark"
  /\ unmarked' = IF DbOpen \/ forced THEN unmarked \cup {inv[r]} ELSE unmarked
  /\ Advance(r, "created")
  /\ UNCHANGED <<serverVars, limitVars, inviteVars, users, localVars>>

Step(r) ==
  \/ Arrive(r) \/ Load(r) \/ LoadOrStore(r) \/ Admit(r) \/ LimitRefuses(r)
  \/ OtherAnswer(r) \/ LookUp(r) \/ CreateUser(r) \/ CreateFails(r) \/ Mark(r) \/ MarkFails(r)
------------------------------------------------------------------------------
(* The server, and who issues invitations. *)

\* A signal: Shutdown closes the listener.
Signal ==
  /\ phase = "serving" /\ phase' = "draining"
  /\ UNCHANGED <<forced, starts, limitVars, rowVars, stage, localVars>>

Answered == \A r \in Req : stage[r] \notin InFlight

\* Defect: the server is closed without waiting.
DrainedAtOnce ==
  /\ phase = "draining" /\ phase' = "closed"
  /\ UNCHANGED <<forced, starts, limitVars, rowVars, stage, localVars>>

\* Shutdown returns when every handler has; main returns and db.Close runs.
Drained ==
  /\ phase = "draining" /\ Answered /\ phase' = "closed"
  /\ UNCHANGED <<forced, starts, limitVars, rowVars, stage, localVars>>

\* Or it gives up after 30 seconds, and the handlers go on.
GiveUp ==
  /\ phase = "draining" /\ phase' = "closed" /\ forced' = TRUE
  /\ UNCHANGED <<starts, limitVars, rowVars, stage, localVars>>

\* The process ends, and what is under way with it.
End(abrupt) ==
  /\ phase' = "down"
  /\ stage' = [r \in Req |-> IF stage[r] \in InFlight THEN "cut" ELSE stage[r]]
  /\ unmarked' = IF abrupt THEN unmarked \cup {inv[r] : r \in {q \in Req : stage[q] = "mark"}}
                 ELSE unmarked
  /\ UNCHANGED <<starts, limitVars, inviteVars, users, localVars>>

Exit == phase = "closed" /\ End(forced) /\ UNCHANGED forced

Kill == phase # "down" /\ End(TRUE) /\ forced' = TRUE

Restart ==
  /\ phase = "down" /\ starts < MaxStarts
  /\ phase' = "serving" /\ forced' = FALSE /\ starts' = starts + 1
  /\ bucket' = [a \in Address |-> None]
  /\ tokens' = [r \in Req |-> Burst]
  /\ ticks' = 0 /\ admitted' = [a \in Address |-> 0]
  /\ UNCHANGED <<rowVars, stage, localVars>>

Issue(i) ==
  /\ i \notin issued /\ \A j \in issued : EmailOf[j] = EmailOf[i] => j < i
  /\ issued' = issued \cup {i}
  /\ UNCHANGED <<serverVars, limitVars, expired, spent, users, unmarked, stage, localVars>>

Expire(i) ==
  /\ i \in issued \ expired
  /\ expired' = expired \cup {i}
  /\ UNCHANGED <<serverVars, limitVars, issued, spent, users, unmarked, stage, localVars>>

RegistrationNext ==
  \/ \E r \in Req : Step(r)
  \/ \E i \in Invitation : Issue(i) \/ Expire(i)
  \/ Refill \/ Signal \/ Drained \/ GiveUp \/ Exit \/ Kill \/ Restart

RegistrationSpec == RegistrationInit /\ [][RegistrationNext]_registrationVars
------------------------------------------------------------------------------
(* Properties. *)

\* However an address's first requests race for its bucket, it is let through
\* at most a burst and one request per refill.
AdmittedBounded == \A a \in Address : admitted[a] <= Burst + ticks

\* An invitation is marked used, and an account answered as created, only for
\* the one user that was made from it.
UsedMeansRegistered ==
  /\ \A i \in spent : users[EmailOf[i]] = i
  /\ \A r \in Req : stage[r] = "created" => users[email[r]] = inv[r]
  /\ \A r, q \in Req : stage[r] = "created" /\ stage[q] = "created" /\ email[r] = email[q] => r = q

\* The invitation a user was made from ends up used, through restarts too,
\* unless marking failed or the process ended before it: an orderly shutdown
\* is no such end.
SpentUnlessLost ==
  \A e \in Email : users[e] # None =>
    \/ users[e] \in spent \cup unmarked
    \/ \E r \in Req : stage[r] = "mark" /\ inv[r] = users[e]

(* The inductive invariant. *)

\* Every request let through was charged to the one bucket of its address.
BucketInv ==
  /\ \A a \in Address :
       IF bucket[a] = None THEN admitted[a] = 0
       ELSE admitted[a] + tokens[bucket[a]] <= Burst + ticks
  /\ \A r \in Req : stage[r] = "allow" => limiter[r] = bucket[from[r]]

\* Requests that have created their user.
HasUser(r) == stage[r] \in {"mark", "created"}

UserInv ==
  /\ \A i \in spent : users[EmailOf[i]] = i
  /\ \A r \in Req : stage[r] = "create" \/ HasUser(r) => EmailOf[inv[r]] = email[r]
  /\ \A r \in Req : HasUser(r) => users[email[r]] = inv[r]
  /\ \A r, q \in Req : HasUser(r) /\ HasUser(q) /\ email[r] = email[q] => r = q

\* A server that closed in order has answered everybody, as has one that is down.
EndInv == phase = "down" \/ (phase = "closed" /\ ~forced) => Answered

RegistrationInv == RegistrationTypeOK /\ BucketInv /\ UserInv /\ EndInv /\ SpentUnlessLost
==============================================================================
