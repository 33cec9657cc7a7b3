------------------------------- MODULE Demand -------------------------------
(***************************************************************************)
(* How many tickets each departure needs, on its way from zinc to Redis:   *)
(* zinc signals a change, one of the CDC replicas (lib/cdc) copies zinc's  *)
(* counts into the key "{ps}:count" and pings the readers through the      *)
(* update stream; a reader asks the count client (lib/count) for what can  *)
(* still be reserved.  A slot the counts do not name needs no ticket.      *)
(***************************************************************************)
EXTENDS Integers

CONSTANTS
  Slots,        \* departures: direction, date and time
  Cdcs,         \* replicas of the CDC
  NoCount,      \* the Redis key does not exist
  MaxNeed,      \* bound: tickets needed for a slot
  MaxChanges,   \* bound: changes of demand in zinc
  MaxFaults,    \* bound: failures
  StreamMaxLen  \* entries XADD keeps in a stream

ASSUME DemandAssumption ==
  /\ {MaxNeed, MaxChanges, MaxFaults} \subseteq Nat
  /\ StreamMaxLen \in Nat \ {0}
  /\ NoCount \notin [ver : Nat, need : [Slots -> Nat]]

VARIABLES
  need,      \* zinc: tickets needed
  changes,   \* zinc: how often need has changed
  closed,    \* the slots that depart within the closing buffer
  signals,   \* zinc's messages no CDC has read
  cdc,       \* what each replica is doing
  stored,    \* Redis: the counts, and which of zinc's changes they reflect
  pings,     \* Redis: entries of the update stream the reserver has not read
  missed,    \* history: a change was dropped on the way, and none came since
  faults     \* failures so far

demandVars == <<need, changes, closed, signals, cdc, stored, pings, missed, faults>>

Demands == [Slots -> 0..MaxNeed]
Snapshot == [ver : 0..MaxChanges, need : Demands]
CdcIdle == [pc |-> "idle", snap |-> NoCount]
CdcState == [pc : {"idle", "set", "ping"}, snap : Snapshot \union {NoCount}]
Nothing == [s \in Slots |-> 0]

DemandInit ==
  /\ need = Nothing /\ changes = 0 /\ closed = {} /\ signals = 0
  /\ cdc = [c \in Cdcs |-> CdcIdle]
  /\ stored = NoCount /\ pings = 0
  /\ missed = FALSE /\ faults = 0

DemandTypeOK ==
  /\ need \in Demands /\ changes \in 0..MaxChanges
  /\ closed \subseteq Slots
  /\ signals \in Nat /\ pings \in 0..StreamMaxLen
  /\ cdc \in [Cdcs -> CdcState]
  /\ \A c \in Cdcs : cdc[c].pc # "idle" => cdc[c].snap # NoCount
  /\ stored \in Snapshot \union {NoCount}
  /\ missed \in BOOLEAN /\ faults \in 0..MaxFaults

\* A call fails, and what depended on it is not made up for.
Miss == faults < MaxFaults /\ faults' = faults + 1 /\ missed' = TRUE

-----------------------------------------------------------------------------
(* zinc and the clock.                                                     *)

\* A booking is made, bought or cancelled; zinc signals it once it is so.
ChangeNeed(s) ==
  /\ changes < MaxChanges
  /\ \E n \in (0..MaxNeed) \ {need[s]} : need' = [need EXCEPT ![s] = n]
  /\ changes' = changes + 1 /\ signals' = signals + 1 /\ missed' = FALSE
  /\ UNCHANGED <<closed, cdc, stored, pings, faults>>

CloseSlot(s) ==
  /\ s \notin closed
  /\ closed' = closed \union {s}
  /\ UNCHANGED <<need, changes, signals, cdc, stored, pings, missed, faults>>

-----------------------------------------------------------------------------
(* Cdc.sync.                                                               *)

SetCdc(c, new) == cdc' = [cdc EXCEPT ![c] = new]

\* A signal is read, and zinc asked for all its counts.  The signal is not
\* read again when that fails, nor when the replica dies: nothing claims it.
ReadCounts(c) ==
  /\ cdc[c].pc = "idle" /\ signals > 0
  /\ signals' = signals - 1
  /\ \/ /\ SetCdc(c, [pc |-> "set", snap |-> [ver |-> changes, need |-> need]])
        /\ UNCHANGED <<missed, faults>>
     \/ UNCHANGED cdc /\ Miss
  /\ UNCHANGED <<need, changes, closed, stored, pings>>

\* Counts an other replica has read earlier overwrite later ones.
Older(snap) == stored # NoCount /\ snap.ver < stored.ver

\* Mutant: the readers are pinged before the key is set.
PingThenSet(c) ==
  /\ cdc[c].pc \in {"set", "ping"}
  /\ IF cdc[c].pc = "set"
       THEN SetCdc(c, [cdc[c] EXCEPT !.pc = "ping"]) /\ pings' = pings + 1 /\ UNCHANGED stored
       ELSE SetCdc(c, CdcIdle) /\ stored' = cdc[c].snap /\ UNCHANGED pings
  /\ UNCHANGED <<need, changes, closed, signals, missed, faults>>

\* SET "{ps}:count".
SaveCounts(c) ==
  /\ cdc[c].pc = "set"
  /\ \/ /\ stored' = cdc[c].snap
        /\ SetCdc(c, [cdc[c] EXCEPT !.pc = "ping"])
        /\ missed' = (missed \/ Older(cdc[c].snap)) /\ UNCHANGED faults
     \/ UNCHANGED stored /\ SetCdc(c, CdcIdle) /\ Miss
  /\ UNCHANGED <<need, changes, closed, signals, pings>>

\* Mutant: nothing bounds the stream.
PingUnbounded(c) ==
  /\ cdc[c].pc = "ping"
  /\ SetCdc(c, CdcIdle)
  /\ pings' = pings + 1
  /\ UNCHANGED <<need, changes, closed, signals, stored, missed, faults>>

\* XADD, which drops the oldest entry of a full stream, and whose failure
\* nobody sees.
PingReaders(c) ==
  /\ cdc[c].pc = "ping"
  /\ SetCdc(c, CdcIdle)
  /\ \/ pings' = (IF pings < StreamMaxLen THEN pings + 1 ELSE pings) /\ UNCHANGED <<missed, faults>>
     \/ UNCHANGED pings /\ Miss
  /\ UNCHANGED <<need, changes, closed, signals, stored>>

CdcStep(c) == ReadCounts(c) \/ SaveCounts(c) \/ PingReaders(c)

-----------------------------------------------------------------------------
(* The count client.                                                       *)

\* filterReserve: a slot that departs too soon is not named any more.
Reservable(counts) == [s \in Slots |-> IF s \in closed THEN 0 ELSE counts[s]]

\* GetReserverCount, when the key exists.
ReserverCount == Reservable(stored.need)

DemandStep ==
  \/ \E s \in Slots : ChangeNeed(s) \/ CloseSlot(s)
  \/ \E c \in Cdcs : CdcStep(c)
=============================================================================
