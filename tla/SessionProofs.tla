---------------------------- MODULE SessionProofs ----------------------------
(***************************************************************************)
(* What holds of SharedSession for any clients, Jobs and bounds, while no  *)
(* lock holder stalls past the lease: one login at a time, and no healthy  *)
(* session is thrown away.                                                 *)
(***************************************************************************)
EXTENDS SharedSession, TLAPS

Kept == UNCHANGED <<storeVars, prints, job>>

-----------------------------------------------------------------------------
(* Types.  The signals are tokens because a Job only signals what it       *)
(* loaded, and a client only works with a token once it has one.           *)

HasToken == {"holding", "rotating", "deleting", "comparing", "answered"}

TypeInv ==
  /\ TypeOK
  /\ \A c \in Clients : pc[c] \in HasToken => token[c] \in Token
  /\ \A j \in Jobs : job[j].pc \in {"probing", "signalling"} => job[j].token \in Token

-----------------------------------------------------------------------------
(* The invariant behind the login lock and the death signals.              *)

Mutex == \A c \in Clients : pc[c] \in Critical => lock = c

\* Who is about to log in, or has, still owns an empty cache.
Missed == \A c \in Clients : pc[c] \in {"calling", "answered"} => login = NoToken

InFlight == \E c \in Clients : pc[c] = "answered"

Fresh == \A c \in Clients : pc[c] = "answered" => token[c] = issued

\* A token somebody may have seen: not the one of a login under way.
Older(t) == t <= issued /\ (InFlight => t < issued)

Published ==
  /\ Older(login) /\ Older(userData)
  /\ \A t \in signals \union prints : Older(t)
  /\ \A j \in Jobs : Older(job[j].token)
  /\ \A c \in Clients : pc[c] # "answered" => Older(token[c])

LiveIsLast == live \in {NoToken, issued}

\* What is reported dead, or about to be deleted, KTMB will never accept.
Reported ==
  /\ \A t \in signals \union prints : t # live
  /\ \A c \in Clients : pc[c] \in {"deleting", "comparing"} => token[c] # live
  /\ \A j \in Jobs : job[j].pc = "signalling" => job[j].token # live

\* One session may be running; all the others are owed.
Running == live # NoToken /\ (login = live \/ InFlight)
Owed == issued <= kills + faults + (IF Running THEN 1 ELSE 0)

Stale == pc[Spawner] = "removing" => login \notin prints

LockInv == Mutex /\ Missed /\ Fresh /\ LiveIsLast
SessionInv == LockInv /\ Published /\ Reported /\ Owed /\ Stale

(* Every step is one of these. *)
LEMMA Steps ==
  ASSUME Next
  PROVE  \/ \E c \in Clients : Ask(c, IF c = Spawner THEN "asking" ELSE "idle") /\ Kept
         \/ \E c \in Clients : TryLock(c) /\ Kept
         \/ \E c \in Clients : Peek(c) /\ Kept
         \/ \E c \in Clients : Recheck(c) /\ Kept
         \/ \E c \in Clients : KtmbLogin(c) /\ Kept
         \/ \E c \in Clients : StoreToken(c) /\ Kept
         \/ \E c \in Clients : ReleaseLock(c) /\ Kept
         \/ \E c \in Clients : Done(c) /\ Kept
         \/ \E c \in Clients : InvalidateRead(c) /\ Kept
         \/ \E c \in Clients : InvalidateDelete(c) /\ Kept
         \/ \E c \in Clients : Fail(c) /\ Kept
         \/ \E c \in Clients : Crash(c) /\ Kept
         \/ LeaseEnd /\ Kept
         \/ Kill /\ Kept
         \/ ReadSignals
         \/ ReadLogin
         \/ RemoveStale
         \/ CompareAndDelete
         \/ Ensure
         \/ EnricherStep
         \/ \E j \in Jobs : LoadJob(j)
         \/ \E j \in Jobs : Rejected(j)
         \/ \E j \in Jobs : Signal(j)
         \/ \E j \in Jobs : EndJob(j)
         \/ ExpireSignals
BY DEF Next, SessionNext, ClientStep, LoginStep, Invalidate, SpawnerStep, JobStep, Kept

\* Types and held tokens, action by action.
LEMMA TypeStep == TypeInv /\ [Next]_vars => TypeInv'
<1> SUFFICES ASSUME TypeInv, [Next]_vars PROVE TypeInv'
  OBVIOUS
<1> USE SessionAssumption, SharedSessionAssumption DEF Goto, Take, Cached, Fault,
     SetJob, NoJob, sessionVars, redisVars, ktmbVars, storeVars, Kept
<1> USE DEF TypeInv, TypeOK, HasToken, Pc, SessionPc, Critical, Token, NoToken, JobState
<1>1. ASSUME NEW c \in Clients, NEW from \in {"idle", "asking"}, Ask(c, from), Kept
     PROVE TypeInv'
  BY <1>1 DEF Ask
<1>2. ASSUME NEW c \in Clients, TryLock(c), Kept PROVE TypeInv'
  BY <1>2 DEF TryLock
<1>3. ASSUME NEW c \in Clients, Peek(c), Kept PROVE TypeInv'
  BY <1>3 DEF Peek
<1>4. ASSUME NEW c \in Clients, Recheck(c), Kept PROVE TypeInv'
  BY <1>4 DEF Recheck
<1>5. ASSUME NEW c \in Clients, KtmbLogin(c), Kept PROVE TypeInv'
  BY <1>5 DEF KtmbLogin
<1>6. ASSUME NEW c \in Clients, StoreToken(c), Kept PROVE TypeInv'
  BY <1>6 DEF StoreToken
<1>7. ASSUME NEW c \in Clients, ReleaseLock(c), Kept PROVE TypeInv'
  BY <1>7 DEF ReleaseLock
<1>8. ASSUME NEW c \in Clients, Done(c), Kept PROVE TypeInv'
  BY <1>8 DEF Done
<1>9. ASSUME NEW c \in Clients, InvalidateRead(c), Kept PROVE TypeInv'
  BY <1>9 DEF InvalidateRead
<1>10. ASSUME NEW c \in Clients, InvalidateDelete(c), Kept PROVE TypeInv'
  BY <1>10 DEF InvalidateDelete
<1>11. ASSUME NEW c \in Clients, Fail(c), Kept PROVE TypeInv'
  BY <1>11 DEF Fail
<1>12. ASSUME NEW c \in Clients, Crash(c), Kept PROVE TypeInv'
  BY <1>12 DEF Crash
<1>13. ASSUME LeaseEnd, Kept PROVE TypeInv'
  BY <1>13 DEF LeaseEnd
<1>14. ASSUME Kill, Kept PROVE TypeInv'
  BY <1>14 DEF Kill
<1>15. ASSUME ReadSignals PROVE TypeInv'
  BY <1>15 DEF ReadSignals
<1>16. ASSUME ReadLogin PROVE TypeInv'
  BY <1>16 DEF ReadLogin
<1>17. ASSUME RemoveStale PROVE TypeInv'
  BY <1>17 DEF RemoveStale
<1>18. ASSUME CompareAndDelete PROVE TypeInv'
  BY <1>18 DEF CompareAndDelete
<1>19. ASSUME Ensure PROVE TypeInv'
  BY <1>19 DEF Ensure
<1>20. ASSUME NEW from \in {"holding", "rotating"}, NEW to \in {"rotating", "idle"},
     EnricherWrite(from, to) PROVE TypeInv'
  BY <1>20 DEF EnricherWrite
<1>21. ASSUME NEW j \in Jobs, LoadJob(j) PROVE TypeInv'
  BY <1>21 DEF LoadJob
<1>22. ASSUME NEW j \in Jobs, Rejected(j) PROVE TypeInv'
  BY <1>22 DEF Rejected
<1>23. ASSUME NEW j \in Jobs, Signal(j) PROVE TypeInv'
  <2>1. job[j].token \in Token /\ job' = [job EXCEPT ![j] = [pc |-> "none", token |->
       NoToken]]
    BY <1>23 DEF Signal
  <2>2. signals' \subseteq Token
    BY <1>23, <2>1 DEF Signal
  <2>3. faults' \in 0..MaxFaults
    BY <1>23 DEF Signal
  <2>4. job' \in [Jobs -> JobState]
    BY <2>1
  <2> QED
    BY <1>23, <2>1, <2>2, <2>3, <2>4 DEF Signal
<1>24. ASSUME NEW j \in Jobs, EndJob(j) PROVE TypeInv'
  BY <1>24 DEF EndJob
<1>25. ASSUME ExpireSignals PROVE TypeInv'
  BY <1>25 DEF ExpireSignals
<1>26. CASE UNCHANGED vars
  BY <1>26 DEF vars, sessionVars
<1> QED
  BY Steps, <1>1, <1>2, <1>3, <1>4, <1>5, <1>6, <1>7, <1>8, <1>9, <1>10, <1>11, <1>12,
     <1>13, <1>14, <1>15, <1>16, <1>17, <1>18, <1>19, <1>20, <1>21, <1>22, <1>23, <1>24,
     <1>25, <1>26 DEF EnricherStep, WriteTopUp, WriteRotated

\* The induction hypothesis, with no lock holder outliving its lease.
SessionHyp == LeaseExpires = FALSE /\ TypeInv /\ SessionInv

\* The lock and the death signals, action by action.
LEMMA SessionStep == SessionHyp /\ [Next]_vars => SessionInv'
<1> SUFFICES ASSUME SessionHyp, [Next]_vars PROVE SessionInv'
  OBVIOUS
<1> USE SessionAssumption, SharedSessionAssumption DEF Goto, Take, Cached, Fault,
     SetJob, NoJob, sessionVars, redisVars, ktmbVars, storeVars, Kept
<1> USE DEF SessionHyp, SessionInv, LockInv, TypeInv, TypeOK, HasToken, Critical,
     NoToken, Token, Mutex, Missed, Fresh, LiveIsLast, Published, Older, InFlight,
     Reported, Owed, Running, Stale
<1>1. ASSUME NEW c \in Clients, NEW from \in {"idle", "asking"}, Ask(c, from), Kept
     PROVE SessionInv'
  BY <1>1 DEF Ask
<1>2. ASSUME NEW c \in Clients, TryLock(c), Kept PROVE SessionInv'
  BY <1>2 DEF TryLock
<1>3. ASSUME NEW c \in Clients, Peek(c), Kept PROVE SessionInv'
  BY <1>3 DEF Peek
<1>4. ASSUME NEW c \in Clients, Recheck(c), Kept PROVE SessionInv'
  BY <1>4 DEF Recheck
<1>5. ASSUME NEW c \in Clients, KtmbLogin(c), Kept PROVE SessionInv'
  <2>1. Published'
    <3>1. issued' = issued + 1 /\ issued \in Nat
      BY <1>5 DEF KtmbLogin
    <3>2. \A t \in Token \union {NoToken} : Older(t) => Older(t)'
      BY <3>1
    <3>3. ASSUME NEW d \in Clients, pc'[d] # "answered" PROVE Older(token[d])'
      <4>1. pc[d] # "answered" /\ token'[d] = token[d] /\ token[d] \in Token \union
           {NoToken}
        BY <1>5, <3>3 DEF KtmbLogin
      <4> QED
        BY <3>2, <4>1
    <3>4. UNCHANGED <<login, userData, signals, prints, job>>
      BY <1>5 DEF KtmbLogin
    <3>5. \A i \in Jobs : job[i].token \in Token \union {NoToken}
      BY DEF JobState
    <3>6. Older(login)' /\ Older(userData)' /\ \A t \in signals' \union prints' :
         Older(t)'
      BY <3>2, <3>4
    <3>7. \A i \in Jobs : Older(job[i].token)'
      BY <3>2, <3>4, <3>5
    <3> QED
      BY <3>3, <3>6, <3>7
  <2>2. LockInv'
    BY <1>5, <2>1 DEF KtmbLogin
  <2>3. Reported'
    BY <1>5, <2>1 DEF KtmbLogin
  <2>4. Owed'
    BY <1>5, <2>1 DEF KtmbLogin
  <2>5. Stale'
    BY <1>5, <2>1 DEF KtmbLogin
  <2> QED
    BY <2>1, <2>2, <2>3, <2>4, <2>5
<1>6. ASSUME NEW c \in Clients, StoreToken(c), Kept PROVE SessionInv'
  BY <1>6 DEF StoreToken
<1>7. ASSUME NEW c \in Clients, ReleaseLock(c), Kept PROVE SessionInv'
  BY <1>7 DEF ReleaseLock
<1>8. ASSUME NEW c \in Clients, Done(c), Kept PROVE SessionInv'
  BY <1>8 DEF Done
<1>9. ASSUME NEW c \in Clients, InvalidateRead(c), Kept PROVE SessionInv'
  BY <1>9 DEF InvalidateRead
<1>10. ASSUME NEW c \in Clients, InvalidateDelete(c), Kept PROVE SessionInv'
  BY <1>10 DEF InvalidateDelete
<1>11. ASSUME NEW c \in Clients, Fail(c), Kept PROVE SessionInv'
  BY <1>11 DEF Fail
<1>12. ASSUME NEW c \in Clients, Crash(c), Kept PROVE SessionInv'
  BY <1>12 DEF Crash
<1>13. ASSUME LeaseEnd, Kept PROVE SessionInv'
  BY <1>13 DEF LeaseEnd
<1>14. ASSUME Kill, Kept PROVE SessionInv'
  BY <1>14 DEF Kill
<1>15. ASSUME ReadSignals PROVE SessionInv'
  BY <1>15 DEF ReadSignals
<1>16. ASSUME ReadLogin PROVE SessionInv'
  BY <1>16 DEF ReadLogin
<1>17. ASSUME RemoveStale PROVE SessionInv'
  BY <1>17 DEF RemoveStale
<1>18. ASSUME CompareAndDelete PROVE SessionInv'
  <2>1. Published'
    <3>1. InFlight' = InFlight /\ issued' = issued /\ issued \in Nat
      BY <1>18 DEF CompareAndDelete
    <3>2. Older(NoToken)
      BY <3>1
    <3>3. \A c \in Clients : pc'[c] # "answered" => Older(token'[c])
      BY <1>18, <3>2 DEF CompareAndDelete
    <3>4. Older(login') /\ Older(userData') /\ \A t \in signals' \union prints' :
         Older(t)
      BY <1>18, <3>2 DEF CompareAndDelete
    <3> QED
      BY <1>18, <3>1, <3>3, <3>4 DEF CompareAndDelete
  <2>2. LockInv'
    BY <1>18, <2>1 DEF CompareAndDelete
  <2>3. Reported'
    BY <1>18, <2>1 DEF CompareAndDelete
  <2>4. Owed'
    BY <1>18, <2>1 DEF CompareAndDelete
  <2>5. Stale'
    BY <1>18, <2>1 DEF CompareAndDelete
  <2> QED
    BY <2>1, <2>2, <2>3, <2>4, <2>5
<1>19. ASSUME Ensure PROVE SessionInv'
  BY <1>19 DEF Ensure
<1>20. ASSUME NEW from \in {"holding", "rotating"}, NEW to \in {"rotating", "idle"},
     EnricherWrite(from, to) PROVE SessionInv'
  BY <1>20 DEF EnricherWrite
<1>21. ASSUME NEW j \in Jobs, LoadJob(j) PROVE SessionInv'
  BY <1>21 DEF LoadJob
<1>22. ASSUME NEW j \in Jobs, Rejected(j) PROVE SessionInv'
  BY <1>22 DEF Rejected
<1>23. ASSUME NEW j \in Jobs, Signal(j) PROVE SessionInv'
  <2>1. Published'
    <3>1. InFlight' = InFlight /\ issued' = issued /\ issued \in Nat
      BY <1>23 DEF Signal
    <3>2. Older(NoToken)
      BY <3>1
    <3>3. \A t \in signals' \union prints' : Older(t)
      BY <1>23 DEF Signal
    <3>4. \A i \in Jobs : Older(job'[i].token)
      BY <1>23, <3>2 DEF Signal
    <3> QED
      BY <1>23, <3>1, <3>3, <3>4 DEF Signal
  <2>2. LockInv'
    BY <1>23, <2>1 DEF Signal
  <2>3. Reported'
    BY <1>23, <2>1 DEF Signal
  <2>4. Owed'
    BY <1>23, <2>1 DEF Signal
  <2>5. Stale'
    BY <1>23, <2>1 DEF Signal
  <2> QED
    BY <2>1, <2>2, <2>3, <2>4, <2>5
<1>24. ASSUME NEW j \in Jobs, EndJob(j) PROVE SessionInv'
  <2>1. Published'
    BY <1>24 DEF EndJob
  <2>2. LockInv' /\ Reported' /\ Owed' /\ Stale'
    BY <1>24 DEF EndJob
  <2> QED
    BY <2>1, <2>2
<1>25. ASSUME ExpireSignals PROVE SessionInv'
  <2>1. Published'
    BY <1>25 DEF ExpireSignals
  <2>2. LockInv' /\ Reported' /\ Owed' /\ Stale'
    BY <1>25 DEF ExpireSignals
  <2> QED
    BY <2>1, <2>2
<1>26. CASE UNCHANGED vars
  BY <1>26 DEF vars, sessionVars
<1> QED
  BY Steps, <1>1, <1>2, <1>3, <1>4, <1>5, <1>6, <1>7, <1>8, <1>9, <1>10, <1>11, <1>12,
     <1>13, <1>14, <1>15, <1>16, <1>17, <1>18, <1>19, <1>20, <1>21, <1>22, <1>23, <1>24,
     <1>25, <1>26 DEF EnricherStep, WriteTopUp, WriteRotated

\* The empty cache, with nobody logging in, satisfies the invariant.
LEMMA SessionStart == Init => TypeInv /\ SessionInv
BY SessionAssumption, SharedSessionAssumption
DEF Init, SessionInit, NoJob, JobState, TypeInv, TypeOK, HasToken, Pc, SessionPc,
   Critical, Token, NoToken,
    SessionInv, LockInv, Mutex, Missed, Fresh, LiveIsLast, Published, Older, InFlight,
       Reported, Owed,
    Running, Stale

(* Every variable of SharedSession keeps its type, stalled lock holders    *)
(* included: a Job never signals, nor a client deletes, an absent token.   *)
THEOREM SessionTypes == Spec => []TypeOK
<1>1. Init => TypeInv
  BY SessionStart
<1>2. TypeInv /\ [Next]_vars => TypeInv'
  BY TypeStep
<1>3. TypeInv => TypeOK
  BY DEF TypeInv
<1> QED
  BY <1>1, <1>2, <1>3, PTL DEF Spec

\* The invariant of every behaviour in which no lease is outlived.
LEMMA SessionInvariant == LeaseExpires = FALSE => (Spec => [](TypeInv /\ SessionInv))
<1> SUFFICES ASSUME LeaseExpires = FALSE PROVE Spec => [](TypeInv /\ SessionInv)
  OBVIOUS
<1>1. TypeInv /\ SessionInv /\ [Next]_vars => (TypeInv /\ SessionInv)'
  <2> SUFFICES ASSUME TypeInv /\ SessionInv, [Next]_vars PROVE (TypeInv /\ SessionInv)'
    OBVIOUS
  <2>1. SessionHyp
    BY DEF SessionHyp
  <2> QED
    BY <2>1, TypeStep, SessionStep
<1> QED
  BY <1>1, SessionStart, PTL DEF Spec

(* While no lock holder outlives its lease, the clients log in to KTMB     *)
(* once per session KTMB ended, plus once per fault, plus the first time,  *)
(* for any number of clients missing the cache at once.                    *)
THEOREM OneLoginPerDeath == LeaseExpires = FALSE => (Spec => []LoginsAreOwed)
<1> SUFFICES ASSUME LeaseExpires = FALSE PROVE Spec => []LoginsAreOwed
  OBVIOUS
<1>1. TypeInv /\ SessionInv => LoginsAreOwed
  BY SessionAssumption DEF TypeInv, TypeOK, SessionInv, Owed, LoginsAreOwed
<1> QED
  BY <1>1, SessionInvariant, PTL

(* Nothing but KTMB ends a session that is cached: recovery and Invalidate *)
(* delete only tokens that were rejected, and no login replaces a live one.*)
THEOREM HealthyIsKept == LeaseExpires = FALSE => (Spec => HealthyTokenKept)
<1> SUFFICES ASSUME LeaseExpires = FALSE PROVE Spec => HealthyTokenKept
  OBVIOUS
<1>1. TypeInv /\ SessionInv /\ [Next]_vars
        => [login # NoToken /\ login = live /\ live' = live => login' = login]_vars
  <2> SUFFICES ASSUME SessionHyp, [Next]_vars,
                      login # NoToken, login = live, live' = live
               PROVE  login' = login
    BY DEF SessionHyp
  <2> USE DEF SessionHyp, SessionInv, LockInv, sessionVars, redisVars, ktmbVars,
       storeVars, Kept
  <2>1. ASSUME NEW c \in Clients, StoreToken(c) PROVE login' = login
    BY <2>1 DEF StoreToken, Missed
  <2>2. ASSUME NEW c \in Clients, InvalidateDelete(c) PROVE login' = login
    BY <2>2 DEF InvalidateDelete, Reported
  <2>3. CASE CompareAndDelete
    BY <2>3, SharedSessionAssumption DEF CompareAndDelete, Reported
  <2> QED
    BY <2>1, <2>2, <2>3, Steps DEF vars, Ask, TryLock, Peek, Recheck, Cached, KtmbLogin,
       ReleaseLock, Done, InvalidateRead, Fail, Crash, LeaseEnd, Kill, ReadSignals,
       ReadLogin, RemoveStale, Ensure, EnricherStep, WriteTopUp, WriteRotated,
       EnricherWrite, LoadJob, Rejected, Signal, EndJob, ExpireSignals
<1>2. Spec => [](TypeInv /\ SessionInv)
  BY SessionInvariant
<1> QED
  BY <1>1, <1>2, PTL DEF Spec, HealthyTokenKept

(* The report that the cached token is dead stays until that token is gone *)
(* from the cache or the report has outlived its 15 minutes.               *)
THEOREM ReportIsKept ==
  LeaseExpires = FALSE => (Spec => DeathReportKept)
<1> SUFFICES ASSUME LeaseExpires = FALSE PROVE Spec => DeathReportKept
  OBVIOUS
<1>1. TypeInv /\ SessionInv /\ [Next]_vars
        => [(login \in signals /\ login' = login /\ ~ExpireSignals) => (login \in signals')]_vars
  <2> SUFFICES ASSUME SessionHyp, [Next]_vars, login \in signals, login' = login, ~ExpireSignals
               PROVE  login \in signals'
    BY DEF SessionHyp
  <2> USE DEF SessionHyp, SessionInv, sessionVars, redisVars, ktmbVars, storeVars, Kept
  <2>1. CASE RemoveStale
    BY <2>1 DEF RemoveStale, Stale
  <2>2. CASE CompareAndDelete
    BY <2>2 DEF CompareAndDelete, TypeInv, TypeOK, Token, NoToken
  <2>3. ASSUME NEW j \in Jobs, Signal(j) PROVE login \in signals'
    BY <2>3 DEF Signal
  <2> QED
    BY <2>1, <2>2, <2>3, Steps DEF vars, ReadSignals, ReadLogin, Ensure,
       EnricherStep, WriteTopUp, WriteRotated, EnricherWrite, LoadJob,
       Rejected, EndJob
<1>2. Spec => [](TypeInv /\ SessionInv)
  BY SessionInvariant
<1> QED
  BY <1>1, <1>2, PTL DEF Spec, DeathReportKept
=============================================================================
