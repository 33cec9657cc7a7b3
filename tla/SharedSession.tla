--------------------------- MODULE SharedSession ---------------------------
(***************************************************************************)
(* How the shared KTMB session is kept alive: prober Jobs use the token in *)
(* userData and signal its death; the spawner alone turns a death signal   *)
(* into a fresh login (lib/prober/store.go); the enricher logs in, enriches*)
(* and writes userData on its own (lib/enricher/enricher.go); the other    *)
(* clients (terminator, recoverer, backfill) log in and use the token.     *)
(***************************************************************************)
EXTENDS Session

CONSTANTS
  Spawner, Enricher,   \* the two clients that write userData
  Invalidators,        \* the clients that call Invalidate (the backfill)
  Jobs                 \* prober Jobs that can be alive at once

ASSUME SharedSessionAssumption ==
  /\ Spawner \in Clients /\ Enricher \in Clients \ {Spawner}
  /\ Invalidators \subseteq Clients \ {Spawner, Enricher}

VARIABLES
  userData,   \* Redis: the token the prober Jobs load
  signals,    \* Redis: fingerprints of tokens reported dead
  prints,     \* the fingerprints the spawner read
  job         \* a prober Job: what it does, and its token

storeVars == <<userData, signals>>
vars == <<sessionVars, storeVars, prints, job>>

Pc == SessionPc \union {"asking", "reading", "comparing", "removing", "rotating"}

JobState == [pc : {"none", "created", "probing", "signalling"}, token : Token \union {NoToken}]
NoJob == [pc |-> "none", token |-> NoToken]

Init ==
  /\ SessionInit
  /\ userData = NoToken /\ signals = {} /\ prints = {}
  /\ job = [j \in Jobs |-> NoJob]

-----------------------------------------------------------------------------
(* The spawner: Spawn is RecoverSession, then Ensure, then the Jobs.       *)

\* SMEMBERS.
ReadSignals ==
  /\ pc[Spawner] = "idle"
  /\ Goto(Spawner, IF signals = {} THEN "asking" ELSE "reading")
  /\ prints' = signals
  /\ UNCHANGED <<redisVars, ktmbVars, faults, token, storeVars, job>>

\* GET, and the fingerprint of the cached token against those read.
ReadLogin ==
  /\ pc[Spawner] = "reading"
  /\ \/ login = NoToken /\ Goto(Spawner, "asking") /\ UNCHANGED token
     \/ login \in prints /\ Goto(Spawner, "comparing") /\ Take(Spawner, login)
     \/ login # NoToken /\ login \notin prints /\ Goto(Spawner, "removing") /\ UNCHANGED token
  /\ UNCHANGED <<redisVars, ktmbVars, faults, storeVars, prints, job>>

RemoveAll ==
  /\ pc[Spawner] = "removing"
  /\ signals' = {}
  /\ Goto(Spawner, "asking")
  /\ UNCHANGED <<redisVars, ktmbVars, faults, token, userData, prints, job>>

\* SREM of the signals read: they are about older tokens.
RemoveStale ==
  /\ pc[Spawner] = "removing"
  /\ signals' = signals \ prints
  /\ Goto(Spawner, "asking")
  /\ UNCHANGED <<redisVars, ktmbVars, faults, token, userData, prints, job>>

DeleteUncompared ==
  /\ pc[Spawner] = "comparing"
  /\ login' = NoToken /\ userData' = NoToken /\ signals' = {}
  /\ Goto(Spawner, "asking") /\ Take(Spawner, NoToken)
  /\ UNCHANGED <<lock, ktmbVars, faults, prints, job>>

DeleteUserDataOnly ==
  /\ pc[Spawner] = "comparing"
  /\ IF login = token[Spawner] THEN userData' = NoToken /\ signals' = {}
                               ELSE UNCHANGED storeVars
  /\ Goto(Spawner, "asking") /\ Take(Spawner, NoToken)
  /\ UNCHANGED <<redisVars, ktmbVars, faults, prints, job>>

\* One script: token, userData and signals go together, or nothing does.
CompareAndDelete ==
  /\ pc[Spawner] = "comparing"
  /\ IF login = token[Spawner]
       THEN login' = NoToken /\ userData' = NoToken /\ signals' = {}
       ELSE UNCHANGED <<login, storeVars>>
  /\ Goto(Spawner, "asking") /\ Take(Spawner, NoToken)
  /\ UNCHANGED <<lock, ktmbVars, faults, prints, job>>

(* Ensure, once it has its token and the slots, writes userData; then the  *)
(* Jobs of this epoch are created beside those of the last one.            *)
Ensure ==
  /\ pc[Spawner] = "holding"
  /\ userData' = token[Spawner]
  /\ job' = [j \in Jobs |-> IF job[j].pc = "none" THEN [NoJob EXCEPT !.pc = "created"] ELSE job[j]]
  /\ Goto(Spawner, "idle") /\ Take(Spawner, NoToken)
  /\ UNCHANGED <<redisVars, ktmbVars, faults, signals, prints>>

SpawnerStep == ReadSignals \/ ReadLogin \/ RemoveStale \/ CompareAndDelete \/ Ensure

-----------------------------------------------------------------------------
(* The enricher: write after the top-up, and again after the rotation.     *)

EnricherWrite(from, to) ==
  /\ pc[Enricher] = from
  /\ userData' = token[Enricher]
  /\ Goto(Enricher, to)
  /\ Take(Enricher, IF to = "idle" THEN NoToken ELSE token[Enricher])
  /\ UNCHANGED <<redisVars, ktmbVars, faults, signals, prints, job>>

WriteTopUp == EnricherWrite("holding", "rotating") \/ EnricherWrite("holding", "idle")

WriteRotated == EnricherWrite("rotating", "idle")

EnricherStep == WriteTopUp \/ WriteRotated

-----------------------------------------------------------------------------
(* The other clients, done with their token.                               *)

Done(c) ==
  /\ c \notin {Spawner, Enricher}
  /\ pc[c] = "holding"
  /\ Goto(c, "idle") /\ Take(c, NoToken)
  /\ UNCHANGED <<redisVars, ktmbVars, faults>>

Invalidate(c) == c \in Invalidators /\ (InvalidateRead(c) \/ InvalidateDelete(c))

-----------------------------------------------------------------------------
(* Prober Jobs: they read userData, and never log in.                      *)

SetJob(j, at, t) == job' = [job EXCEPT ![j] = [pc |-> at, token |-> t]]

LoadJobUnchecked(j) ==
  /\ job[j].pc = "created"
  /\ SetJob(j, "probing", userData)
  /\ UNCHANGED <<sessionVars, storeVars, prints>>

LoadJob(j) ==
  /\ job[j].pc = "created"
  /\ IF userData = NoToken THEN SetJob(j, "none", NoToken) ELSE SetJob(j, "probing", userData)
  /\ UNCHANGED <<sessionVars, storeVars, prints>>

\* KTMB answers a Reserve (or a queued release's Cancel) with a session
\* error: the epoch is over for this Job.
Rejected(j) ==
  /\ job[j].pc = "probing" /\ job[j].token # live
  /\ SetJob(j, "signalling", job[j].token)
  /\ UNCHANGED <<sessionVars, storeVars, prints>>

\* markSessionDead: SADD, whose failure is only logged.
Signal(j) ==
  /\ job[j].pc = "signalling"
  /\ \/ signals' = signals \union {job[j].token} /\ UNCHANGED faults
     \/ Fault /\ UNCHANGED signals
  /\ SetJob(j, "none", NoToken)
  /\ UNCHANGED <<redisVars, ktmbVars, pc, token, userData, prints>>

\* The deadline, the budget or the errors end a Job, or its pod dies.
EndJob(j) ==
  /\ job[j].pc \in {"created", "probing"}
  /\ SetJob(j, "none", NoToken)
  /\ UNCHANGED <<sessionVars, storeVars, prints>>

JobStep(j) == LoadJob(j) \/ Rejected(j) \/ Signal(j) \/ EndJob(j)

\* The signals outlive their 15 minutes unread.
ExpireSignals ==
  /\ signals # {} /\ Fault
  /\ signals' = {}
  /\ UNCHANGED <<redisVars, ktmbVars, pc, token, userData, prints, job>>

-----------------------------------------------------------------------------

ClientStep(c) ==
  \/ Ask(c, IF c = Spawner THEN "asking" ELSE "idle")
  \/ LoginStep(c)
  \/ Done(c)
  \/ Invalidate(c)

SessionNext == (\E c \in Clients : ClientStep(c) \/ Fail(c) \/ Crash(c)) \/ LeaseEnd \/ Kill

Next ==
  \/ SessionNext /\ UNCHANGED <<storeVars, prints, job>>
  \/ SpawnerStep
  \/ EnricherStep
  \/ \E j \in Jobs : JobStep(j)
  \/ ExpireSignals

Spec == Init /\ [][Next]_vars

TypeOK ==
  /\ login \in Token \union {NoToken} /\ userData \in Token \union {NoToken}
  /\ live \in Token \union {NoToken} /\ issued \in 0..MaxLogins
  /\ lock \in Clients \union {NoClient}
  /\ kills \in 0..MaxKills /\ faults \in 0..MaxFaults
  /\ pc \in [Clients -> Pc] /\ token \in [Clients -> Token \union {NoToken}]
  /\ signals \subseteq Token /\ prints \subseteq Token
  /\ job \in [Jobs -> JobState]

-----------------------------------------------------------------------------

(* KTMB is asked for a new session only when the last one is gone: every   *)
(* login beyond the first is owed to a session that KTMB ended or to a     *)
(* fault, however many clients miss the cache at once.                     *)
LoginsAreOwed == issued <= 1 + kills + faults

(* A token KTMB still accepts leaves the login cache only by dying:        *)
(* neither RecoverSession nor Invalidate, however late the death report    *)
(* they act on, takes away a healthy session.                              *)
HealthyTokenKept ==
  [][login # NoToken /\ login = live /\ live' = live => login' = login]_vars

(* The report that the cached token is dead is not lost while that token   *)
(* stays cached, except by outliving its 15 minutes: late reports about    *)
(* older tokens, and the spawner clearing them, do not make it miss this.  *)
DeathReportKept ==
  [][(login \in signals /\ login' = login /\ ~ExpireSignals) => (login \in signals')]_vars
=============================================================================
