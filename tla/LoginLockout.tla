----------------------------- MODULE LoginLockout -----------------------------
(***************************************************************************)
(* AuthService.Login on one account: several requests at a time, each a    *)
(* read of the user's row, a password comparison that takes long, and then *)
(* statements that each change the row by themselves.  What a request      *)
(* decides, it decides on the row it read at the start.                    *)
(*                                                                         *)
(* A client here is a connection that sends one request after the other.   *)
(* Requests for an unknown or disabled account change nothing and are left *)
(* out; the token pair of a successful login is TokenRotation's.           *)
(***************************************************************************)
EXTENDS Naturals, FiniteSets

CONSTANTS
  Client,             \* the requests that may be under way at once
  MaxLoginAttempts,   \* the threshold (5 by default)
  LockoutDuration,    \* how long a lock lasts (15 minutes by default)
  MaxTime,            \* model bound: the last instant of the clock
  MaxLost             \* model bound: failed writes since the last lock or reset

ASSUME LockoutAssumption ==
  /\ IsFiniteSet(Client) /\ Client # {}
  /\ MaxLoginAttempts \in Nat \ {0}
  /\ LockoutDuration \in Nat \ {0}
  /\ MaxTime \in Nat /\ MaxLost \in Nat

VARIABLES
  now,                \* the server's clock
  failedAttempts,     \* users.failed_login_attempts
  lockedUntil,        \* users.locked_until, 0 for NULL
  pc,                 \* where each client's request is
  user,               \* the row the request read: attempts and lock
  until,              \* the end of the lock it is about to set
  strikes,            \* history: wrong passwords since the last lock or reset
  lost,               \* history: failed writes since then
  older               \* history: requests that read the row before the last lock

accountVars == <<failedAttempts, lockedUntil, strikes, lost>>
requestVars == <<pc, user, until>>
loginVars == <<now, accountVars, requestVars, older>>

\* "compare": the row is read; the other positions are before a statement.
PC == {"idle", "compare", "increment", "lock", "reset"}

TypeOK ==
  /\ now \in 0 .. MaxTime
  /\ failedAttempts \in Nat /\ lockedUntil \in Nat
  /\ pc \in [Client -> PC]
  /\ user \in [Client -> [attempts : Nat, lockedUntil : Nat]]
  /\ until \in [Client -> Nat]
  /\ strikes \in Nat /\ lost \in Nat
  /\ older \in SUBSET Client

Nobody == [attempts |-> 0, lockedUntil |-> 0]

Init ==
  /\ now = 0
  /\ failedAttempts = 0 /\ lockedUntil = 0
  /\ pc = [c \in Client |-> "idle"]
  /\ user = [c \in Client |-> Nobody]
  /\ until = [c \in Client |-> 0]
  /\ strikes = 0 /\ lost = 0
  /\ older = {}

(***************************************************************************)
(* The statements of a request.                                            *)
(***************************************************************************)
Goto(c, l) == pc' = [pc EXCEPT ![c] = l]

\* The request is answered; what it read is gone.
Answer(c) ==
  /\ Goto(c, "idle")
  /\ user' = [user EXCEPT ![c] = Nobody]
  /\ until' = [until EXCEPT ![c] = 0]
  /\ older' = older \ {c}

\* The statement reports an error, or its request was cancelled: only a log line.
WriteFails ==
  /\ lost < MaxLost
  /\ lost' = lost + 1
  /\ UNCHANGED <<failedAttempts, lockedUntil>>

ReadUser(c) ==
  /\ pc[c] = "idle"
  /\ Goto(c, "compare")
  /\ user' = [user EXCEPT ![c] = [attempts |-> failedAttempts, lockedUntil |-> lockedUntil]]
  /\ UNCHANGED <<now, accountVars, until, older>>

IsLocked(u) == now < u.lockedUntil

\* Defect: the lock is not looked at.
CheckPasswordOnly(c) ==
  /\ pc[c] = "compare"
  /\ \/ Goto(c, "increment")
     \/ Goto(c, "reset")
  /\ UNCHANGED <<now, accountVars, user, until, older>>

\* 429 for a locked account; else the password decides.
Check(c) ==
  /\ pc[c] = "compare"
  /\ \/ IsLocked(user[c]) /\ Answer(c)
     \/ ~IsLocked(user[c]) /\ Goto(c, "increment") /\ UNCHANGED <<user, until, older>>
     \/ ~IsLocked(user[c]) /\ Goto(c, "reset") /\ UNCHANGED <<user, until, older>>
  /\ UNCHANGED <<now, accountVars>>

\* Whether this failure is the one that locks: the row read, and this attempt.
AtThreshold(c) == user[c].attempts + 1 >= MaxLoginAttempts

\* After the counter: the lock if this was the last attempt, else the answer.
LockOrAnswer(c) ==
  IF AtThreshold(c)
  THEN /\ Goto(c, "lock")
       /\ until' = [until EXCEPT ![c] = now + LockoutDuration]
       /\ UNCHANGED <<user, older>>
  ELSE Answer(c)

\* Defect: the counter is written back from the row that was read.
IncrementFromRead(c) ==
  /\ pc[c] = "increment"
  /\ strikes' = strikes + 1
  /\ \/ /\ failedAttempts' = user[c].attempts + 1
        /\ UNCHANGED <<lockedUntil, lost>>
     \/ WriteFails
  /\ LockOrAnswer(c)
  /\ UNCHANGED now

\* A wrong password.  The counter is incremented by the database.
Increment(c) ==
  /\ pc[c] = "increment"
  /\ strikes' = strikes + 1
  /\ \/ /\ failedAttempts' = failedAttempts + 1
        /\ UNCHANGED <<lockedUntil, lost>>
     \/ WriteFails
  /\ LockOrAnswer(c)
  /\ UNCHANGED now

Others(c) == {d \in Client \ {c} : pc[d] # "idle"}

LockUser(c) ==
  /\ pc[c] = "lock"
  /\ \/ /\ lockedUntil' = until[c]
        /\ strikes' = 0 /\ lost' = 0
        /\ older' = Others(c)
        /\ UNCHANGED failedAttempts
     \/ WriteFails /\ UNCHANGED strikes /\ older' = older \ {c}
  /\ Goto(c, "idle")
  /\ user' = [user EXCEPT ![c] = Nobody]
  /\ until' = [until EXCEPT ![c] = 0]
  /\ UNCHANGED now

\* The right password.
ResetAttempts(c) ==
  /\ pc[c] = "reset"
  /\ \/ /\ failedAttempts' = 0 /\ lockedUntil' = 0
        /\ strikes' = 0 /\ lost' = 0
     \/ UNCHANGED accountVars
  /\ Answer(c)
  /\ UNCHANGED now

LoginStep(c) ==
  \/ ReadUser(c) \/ Check(c) \/ Increment(c) \/ LockUser(c) \/ ResetAttempts(c)

Tick ==
  /\ now < MaxTime
  /\ now' = now + 1
  /\ UNCHANGED <<accountVars, requestVars, older>>

Next == (\E c \in Client : LoginStep(c)) \/ Tick

Spec == Init /\ [][Next]_loginVars

(***************************************************************************)
(* Properties.                                                             *)
(***************************************************************************)
\* Requests that have counted their failure and are about to lock.
Locking == {c \in Client : pc[c] = "lock"}

(* The lockout cannot be outrun: between two locks or resets an account    *)
(* takes at most MaxLoginAttempts wrong passwords, one more for each       *)
(* request that may be under way beside the first (they read the counter   *)
(* before it grew), for each request on its way to the lock, and for each  *)
(* statement that failed.                                                  *)
WrongPasswordsBounded ==
  strikes + 2 <= MaxLoginAttempts + Cardinality(Client) + Cardinality(Locking) + lost

(* A lock in force is lifted only by a login that had read the row before  *)
(* the lock was set: whoever starts afterwards finds it and changes        *)
(* nothing.                                                                *)
LiftedByOlderOnly ==
  [][\A c \in Client :
       now < lockedUntil /\ pc[c] = "reset" /\ lockedUntil' = 0 => c \in older]_loginVars

(***************************************************************************)
(* The inductive invariant.                                                *)
(***************************************************************************)
\* Requests whose row was below the threshold and may still add a failure.
Below ==
  {c \in Client : pc[c] \in {"compare", "increment"} /\ ~AtThreshold(c)}

\* A request below the threshold takes the place of a failure still to come.
CountInv ==
  /\ strikes <= failedAttempts + lost
  /\ strikes + Cardinality(Below) + 2 <=
       MaxLoginAttempts + Cardinality(Client) + Cardinality(Locking) + lost

\* While a lock is in force a request that is not older knows of it.
KnownInv ==
  /\ \A c \in Client : pc[c] = "idle" => c \notin older
  /\ now < lockedUntil => \A c \in Client \ older :
       /\ pc[c] = "compare" => user[c].lockedUntil = lockedUntil
       /\ pc[c] \in {"idle", "compare"}

LoginInv == TypeOK /\ CountInv /\ KnownInv
=============================================================================
