---------------------------- MODULE Reservation -----------------------------
(***************************************************************************)
(* One reservation of the reserver (reserveProcess, lib/reserver): replicas*)
(* ask KTMB for a hold side by side, a few attempts each.  The first that  *)
(* has delivered one to the buyers stops the others through a buffered     *)
(* channel, on which each replica that is stopped puts the signal back.    *)
(***************************************************************************)
EXTENDS Integers, FiniteSets

CONSTANTS
  Replicas,   \* concurrency, in or out of maintenance
  Attempts    \* attempts of a replica

ASSUME ReservationAssumption == IsFiniteSet(Replicas) /\ Attempts \in Nat \ {0}

VARIABLES
  term,      \* signals in the channel, whose capacity is the concurrency
  replica    \* what each replica is doing

raceVars == <<term, replica>>

\* won: it delivered a hold and has signalled it.
RacePc == {"wait", "select", "reserve", "emit", "reemit", "won", "stopped", "failed"}
ReplicaState == [pc : RacePc, i : 0..Attempts]

RaceInit ==
  /\ term = 0
  /\ replica = [r \in Replicas |-> [pc |-> "wait", i |-> 0]]

AtRace(r, pc) == replica[r].pc = pc
EnterRace(r, pc) == replica' = [replica EXCEPT ![r].pc = pc]

\* blockIfMaintenance, which sleeps until the maintenance is over.
BlockIfMaintenance(r) ==
  /\ AtRace(r, "wait")
  /\ (EnterRace(r, "select") \/ EnterRace(r, "failed"))
  /\ UNCHANGED term

\* select: the signal, if it is there; else another attempt.
SeeTerm(r) ==
  /\ AtRace(r, "select") /\ replica[r].i < Attempts
  /\ term > 0 /\ term' = term - 1
  /\ EnterRace(r, "reemit")

SeeNoTerm(r) ==
  /\ AtRace(r, "select") /\ replica[r].i < Attempts
  /\ term = 0
  /\ EnterRace(r, "reserve")
  /\ UNCHANGED term

GiveUp(r) ==
  /\ AtRace(r, "select") /\ replica[r].i = Attempts
  /\ EnterRace(r, "failed")
  /\ UNCHANGED term

NextAttempt(r) == replica' = [replica EXCEPT ![r] = [pc |-> "select", i |-> @.i + 1]]

\* reserve: KTMB gives a hold, which is encrypted and pushed to the buyers;
\* when any of it fails the attempt has, and a hold that is not pushed is
\* nobody's.
Reserve(r) ==
  /\ AtRace(r, "reserve")
  /\ (EnterRace(r, "emit") \/ NextAttempt(r))
  /\ UNCHANGED term

\* Mutant: the winner signals every other replica.
EmitToAll(r) ==
  /\ AtRace(r, "emit")
  /\ term' = term + Cardinality(Replicas)
  /\ EnterRace(r, "won")

\* term <- true, which blocks while the channel is full.
Emit(r) ==
  /\ AtRace(r, "emit") /\ term < Cardinality(Replicas)
  /\ term' = term + 1
  /\ EnterRace(r, "won")

\* Mutant: a replica that is stopped keeps the signal.
Swallow(r) ==
  /\ AtRace(r, "reemit")
  /\ EnterRace(r, "stopped")
  /\ UNCHANGED term

Reemit(r) ==
  /\ AtRace(r, "reemit") /\ term < Cardinality(Replicas)
  /\ term' = term + 1
  /\ EnterRace(r, "stopped")

ReplicaStep(r) ==
  \/ BlockIfMaintenance(r) \/ SeeTerm(r) \/ SeeNoTerm(r) \/ GiveUp(r)
  \/ Reserve(r) \/ Emit(r) \/ Reemit(r)

RaceNext == \E r \in Replicas : ReplicaStep(r)

RaceSpec == RaceInit /\ [][RaceNext]_raceVars

RaceTypeOK ==
  /\ term \in Nat
  /\ replica \in [Replicas -> ReplicaState]

-----------------------------------------------------------------------------

RacersAt(pcs) == {r \in Replicas : replica[r].pc \in pcs}

(* No replica hangs on the channel: who puts a signal in finds room, as at *)
(* most one is in it for each replica that has won.                        *)
NeverBlocked == RacersAt({"emit", "reemit"}) # {} => term < Cardinality(Replicas)

(* The signal of a winner is never lost to the others: it is in the        *)
(* channel, or a replica is about to put it back.                          *)
SignalKept == RacersAt({"won"}) # {} => term > 0 \/ RacersAt({"reemit"}) # {}

(* Whatever KTMB answers, every goroutine of a reservation that has begun  *)
(* ends.                                                                   *)
ReplicasEnd ==
  []<>(RacersAt({"wait"}) = Replicas \/ RacersAt({"won", "stopped", "failed"}) = Replicas)
=============================================================================
