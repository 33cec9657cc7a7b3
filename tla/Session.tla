------------------------------ MODULE Session ------------------------------
(***************************************************************************)
(* session.Session (lib/session/client.go): every client of the one funded *)
(* KTMB account takes its token from a Redis cache, and only on a miss and *)
(* under a Redis lock logs in to KTMB, because a login kills the session   *)
(* before it.  One action per Redis or KTMB call.                          *)
(*                                                                         *)
(* A token is the number of the login that issued it.                      *)
(***************************************************************************)
EXTENDS Integers

CONSTANTS
  Clients,       \* the processes that call Login
  NoClient,      \* the lock key is absent
  MaxLogins,     \* bound: logins KTMB answers
  MaxKills,      \* bound: sessions KTMB ends by itself
  MaxFaults,     \* bound: failed calls, lost replies, crashes
  LeaseExpires   \* TRUE when a lock holder may stall past the 90 s lease

ASSUME SessionAssumption ==
  /\ NoClient \notin Clients
  /\ MaxLogins \in Nat /\ MaxKills \in Nat /\ MaxFaults \in Nat
  /\ LeaseExpires \in BOOLEAN

VARIABLES
  login,    \* Redis: the cached token
  lock,     \* Redis: owner of the login lock
  live,     \* KTMB: the token it accepts
  issued,   \* KTMB: logins answered so far
  kills,    \* sessions ended by KTMB so far
  faults,   \* faults so far
  pc,       \* where a client is in Login or Invalidate
  token     \* the token a client works with

sessionVars == <<login, lock, live, issued, kills, faults, pc, token>>
redisVars == <<login, lock>>
ktmbVars == <<live, issued, kills>>

NoToken == 0
Token == 1..MaxLogins

\* Between taking the lock and giving it back.
Critical == {"locked", "calling", "answered", "releasing"}
SessionPc == {"idle", "waiting", "peeking", "holding", "deleting"} \union Critical

SessionInit ==
  /\ login = NoToken /\ lock = NoClient
  /\ live = NoToken /\ issued = 0
  /\ kills = 0 /\ faults = 0
  /\ pc = [c \in Clients |-> "idle"]
  /\ token = [c \in Clients |-> NoToken]

Goto(c, at) == pc' = [pc EXCEPT ![c] = at]

Take(c, t) == token' = [token EXCEPT ![c] = t]

Fault == faults < MaxFaults /\ faults' = faults + 1

-----------------------------------------------------------------------------
(* Login.                                                                  *)

\* cached: the token when there is one, else go on at `miss`.
Cached(c, found, miss) ==
  /\ IF login # NoToken THEN Take(c, login) /\ Goto(c, found)
                        ELSE Goto(c, miss) /\ UNCHANGED token
  /\ UNCHANGED <<redisVars, ktmbVars, faults>>

Ask(c, from) == pc[c] = from /\ Cached(c, "holding", "waiting")

\* SET NX.
TryLock(c) ==
  /\ pc[c] = "waiting"
  /\ IF lock = NoClient THEN lock' = c /\ Goto(c, "locked")
                        ELSE Goto(c, "peeking") /\ UNCHANGED lock
  /\ UNCHANGED <<login, ktmbVars, faults, token>>

\* The lock is another's: look at the cache and try again 100 ms later.
Peek(c) == pc[c] = "peeking" /\ Cached(c, "holding", "waiting")

RecheckSkipped(c) ==
  /\ pc[c] = "locked"
  /\ Goto(c, "calling")
  /\ UNCHANGED <<redisVars, ktmbVars, faults, token>>

\* A waiter may have filled the cache just before we got the lock.
Recheck(c) == pc[c] = "locked" /\ Cached(c, "releasing", "calling")

\* KTMB opens a session and ends the one before; its answer may get lost.
KtmbLogin(c) ==
  /\ pc[c] = "calling"
  /\ issued < MaxLogins
  /\ issued' = issued + 1
  /\ live' = issued'
  /\ \/ Take(c, issued') /\ Goto(c, "answered") /\ UNCHANGED faults
     \/ Fault /\ Goto(c, "releasing") /\ UNCHANGED token
  /\ UNCHANGED <<redisVars, kills>>

\* Set; when only its reply is lost, Login fails though the token is cached.
StoreToken(c) ==
  /\ pc[c] = "answered"
  /\ login' = token[c]
  /\ \/ UNCHANGED <<token, faults>>
     \/ Fault /\ Take(c, NoToken)
  /\ Goto(c, "releasing")
  /\ UNCHANGED <<lock, ktmbVars>>

\* The deferred releaseLock deletes the key only when we still own it, and
\* a failure of it is only logged.
ReleaseLock(c) ==
  /\ pc[c] = "releasing"
  /\ \/ lock' = (IF lock = c THEN NoClient ELSE lock) /\ UNCHANGED faults
     \/ Fault /\ UNCHANGED lock
  /\ Goto(c, IF token[c] = NoToken THEN "idle" ELSE "holding")
  /\ UNCHANGED <<login, ktmbVars, token>>

-----------------------------------------------------------------------------
(* Invalidate, called by a client whose token KTMB has rejected.           *)

\* Get: nothing to do unless the rejected token is still the cached one.
InvalidateRead(c) ==
  /\ pc[c] = "holding" /\ token[c] # live
  /\ Goto(c, IF login = token[c] THEN "deleting" ELSE "idle")
  /\ Take(c, IF login = token[c] THEN token[c] ELSE NoToken)
  /\ UNCHANGED <<redisVars, ktmbVars, faults>>

\* The compare-and-delete script, against the value just read.
InvalidateDelete(c) ==
  /\ pc[c] = "deleting"
  /\ login' = (IF login = token[c] THEN NoToken ELSE login)
  /\ Goto(c, "idle") /\ Take(c, NoToken)
  /\ UNCHANGED <<lock, ktmbVars, faults>>

-----------------------------------------------------------------------------
(* What may go wrong.                                                      *)

\* A call returns an error: inside the lock the deferred release still runs.
Fail(c) ==
  /\ pc[c] \notin {"idle", "releasing"}
  /\ Fault
  /\ Goto(c, IF pc[c] \in Critical THEN "releasing" ELSE "idle")
  /\ Take(c, NoToken)
  /\ UNCHANGED <<redisVars, ktmbVars>>

\* The process dies; a lock it held stays until the lease runs out.
Crash(c) ==
  /\ pc[c] # "idle"
  /\ Fault
  /\ Goto(c, "idle") /\ Take(c, NoToken)
  /\ UNCHANGED <<redisVars, ktmbVars>>

(* The lease runs out on an owner that died, or, when LeaseExpires, on one *)
(* that stalled: KTMB calls give up after 60 s (ktmb/http.go), before it.  *)
LeaseEnd ==
  /\ lock # NoClient
  /\ \/ pc[lock] \notin Critical /\ UNCHANGED faults
     \/ LeaseExpires /\ pc[lock] \in Critical /\ Fault
  /\ lock' = NoClient
  /\ UNCHANGED <<login, ktmbVars, pc, token>>

\* KTMB ends the session on its side.
Kill ==
  /\ live # NoToken /\ kills < MaxKills
  /\ kills' = kills + 1 /\ live' = NoToken
  /\ UNCHANGED <<redisVars, issued, faults, pc, token>>

LoginStep(c) ==
  TryLock(c) \/ Peek(c) \/ Recheck(c) \/ KtmbLogin(c) \/ StoreToken(c) \/ ReleaseLock(c)
=============================================================================
