--------------------------- MODULE ReserverProofs ---------------------------
(***************************************************************************)
(* What holds of Reserver for any slots, replicas of the CDC and bounds:   *)
(* the order in which a new demand reaches the loop and the differ, and    *)
(* what the differ believes the loop has heard.                            *)
(***************************************************************************)
EXTENDS Reserver, TLAPS

-----------------------------------------------------------------------------
(* The invariants, beside the type.                                        *)

\* No subscription before the first demand.
FirstIsOff == differ.pc = "first" => sub = SubOff

\* The demand on its way to the differ, or with it, is one the loop knows.
DemandGiven ==
  /\ syncer.pc = "toDiffer" => client.cache = syncer.count
  /\ differ.pc = "term" => client.cache = differ.count \/ syncer.pc = "toDiffer"

\* A diff that is being sent is what the differ remembers.
SentIsBelieved == \A d \in sub.out : prev[d.slot] = d.count

OrderInv == DemandGiven /\ PricedWithNewDemand
BeliefInv == FirstIsOff /\ SentIsBelieved /\ BeliefIsDelivered

-----------------------------------------------------------------------------
(* Types.                                                                  *)

LEMMA MissType == DemandTypeOK /\ Miss => missed' \in BOOLEAN /\ faults' \in 0..MaxFaults
<1> SUFFICES ASSUME DemandTypeOK, Miss PROVE missed' \in BOOLEAN /\ faults' \in 0..MaxFaults
  OBVIOUS
<1>1. faults' \in 0..MaxFaults
  BY DemandAssumption DEF Miss, DemandTypeOK
<1> QED
  BY <1>1 DEF Miss

LEMMA TypeInit == Init => TypeOK
<1> SUFFICES ASSUME Init PROVE TypeOK
  OBVIOUS
<1>1. Nothing \in Demands /\ Nothing \in [Slots -> Seats]
  BY DemandAssumption, ReserverAssumption DEF Nothing, Demands, Seats
<1>2. DemandTypeOK
  <2>1. cdc \in [Cdcs -> CdcState] /\ \A c \in Cdcs : cdc[c].pc # "idle" => cdc[c].snap # NoCount
    BY DEF Init, DemandInit, CdcIdle, CdcState
  <2>2. missed \in BOOLEAN
    BY DEF Init, DemandInit
  <2> QED
    BY <1>1, <2>1, <2>2, DemandAssumption DEF Init, DemandInit, DemandTypeOK
<1> QED
  BY <1>1, <1>2, ReserverAssumption
     DEF Init, TypeOK, SyncerStart, DifferStart, SubOff, ClientStart,
         SyncerState, DifferState, SubState, ClientState, NoRise, Rise

LEMMA DemandTypeStep == ASSUME TypeOK, DemandStep, UNCHANGED reserverVars PROVE TypeOK'
<1> USE DEF TypeOK, DemandTypeOK
<1>0. DemandTypeOK' => TypeOK'
  BY DEF reserverVars
<1>1. ASSUME NEW s \in Slots, ChangeNeed(s) PROVE DemandTypeOK'
  <2>1. need' \in Demands
    BY <1>1 DEF ChangeNeed, Demands
  <2>2. changes' \in 0..MaxChanges /\ signals' \in Nat
    BY <1>1, DemandAssumption DEF ChangeNeed
  <2>3. missed' \in BOOLEAN
    BY <1>1 DEF ChangeNeed
  <2> QED
    BY <1>1, <2>1, <2>2, <2>3 DEF ChangeNeed
<1>2. ASSUME NEW s \in Slots, CloseSlot(s) PROVE DemandTypeOK'
  BY <1>2 DEF CloseSlot
<1>3. ASSUME NEW c \in Cdcs, ReadCounts(c) PROVE DemandTypeOK'
  <2> DEFINE snap == [ver |-> changes, need |-> need]
  <2>1. snap \in Snapshot /\ snap # NoCount
    <3>1. snap \in Snapshot /\ snap \in [ver : Nat, need : [Slots -> Nat]]
      BY DEF Snapshot, Demands
    <3> QED
      BY <3>1, DemandAssumption
  <2>2. cdc' = cdc \/ cdc' = [cdc EXCEPT ![c] = [pc |-> "set", snap |-> snap]]
    BY <1>3 DEF ReadCounts, SetCdc
  <2>3. cdc' \in [Cdcs -> CdcState] /\ \A d \in Cdcs : cdc'[d].pc # "idle" => cdc'[d].snap # NoCount
    <3>1. CASE cdc' = cdc
      BY <3>1
    <3>2. CASE cdc' = [cdc EXCEPT ![c] = [pc |-> "set", snap |-> snap]]
      BY <2>1, <3>2 DEF CdcState
    <3> QED
      BY <2>2, <3>1, <3>2
  <2>4. signals' \in Nat
    BY <1>3 DEF ReadCounts
  <2>5. missed' \in BOOLEAN /\ faults' \in 0..MaxFaults
    BY <1>3, MissType, Zenon DEF ReadCounts
  <2> QED
    BY <1>3, <2>3, <2>4, <2>5 DEF ReadCounts
<1>4. ASSUME NEW c \in Cdcs, SaveCounts(c) PROVE DemandTypeOK'
  <2>1. cdc[c] \in CdcState /\ cdc[c].snap \in Snapshot
    BY <1>4 DEF SaveCounts, CdcState
  <2>2. cdc' = [cdc EXCEPT ![c] = CdcIdle] \/ cdc' = [cdc EXCEPT ![c].pc = "ping"]
    BY <1>4 DEF SaveCounts, SetCdc
  <2>3. cdc' \in [Cdcs -> CdcState] /\ \A d \in Cdcs : cdc'[d].pc # "idle" => cdc'[d].snap # NoCount
    <3>1. CASE cdc' = [cdc EXCEPT ![c] = CdcIdle]
      BY <3>1 DEF CdcState, CdcIdle
    <3>2. CASE cdc' = [cdc EXCEPT ![c].pc = "ping"]
      <4>1. cdc[c].pc # "idle"
        BY <1>4 DEF SaveCounts
      <4> QED
        BY <2>1, <3>2, <4>1 DEF CdcState
    <3> QED
      BY <2>2, <3>1, <3>2
  <2>4. stored' \in Snapshot \union {NoCount}
    BY <1>4, <2>1 DEF SaveCounts
  <2>5. missed' \in BOOLEAN /\ faults' \in 0..MaxFaults
    <3>1. CASE Miss
      BY <3>1, MissType
    <3>2. CASE missed' = (missed \/ Older(cdc[c].snap)) /\ UNCHANGED faults
      BY <3>2, Zenon
    <3> QED
      BY <1>4, <3>1, <3>2 DEF SaveCounts
  <2> QED
    BY <1>4, <2>3, <2>4, <2>5 DEF SaveCounts
<1>5. ASSUME NEW c \in Cdcs, PingReaders(c) PROVE DemandTypeOK'
  <2>1. cdc' \in [Cdcs -> CdcState] /\ \A d \in Cdcs : cdc'[d].pc # "idle" => cdc'[d].snap # NoCount
    BY <1>5 DEF PingReaders, SetCdc, CdcIdle, CdcState
  <2>2. pings' \in 0..StreamMaxLen
    BY <1>5, DemandAssumption DEF PingReaders
  <2>3. missed' \in BOOLEAN /\ faults' \in 0..MaxFaults
    BY <1>5, MissType, Zenon DEF PingReaders
  <2> QED
    BY <1>5, <2>1, <2>2, <2>3 DEF PingReaders
<1> QED
  BY <1>0, <1>1, <1>2, <1>3, <1>4, <1>5 DEF DemandStep, CdcStep

LEMMA SyncerTypeStep == ASSUME TypeOK, SyncerStep PROVE TypeOK'
<1> USE DEF TypeOK
<1>1. CASE ReadDemand
  <2>1. ASSUME stored # NoCount PROVE ReserverCount \in Demands
    BY <2>1, DemandAssumption DEF ReserverCount, Reservable, Demands, Snapshot, DemandTypeOK
  <2>2. syncer' \in SyncerState
    BY <1>1, <2>1 DEF ReadDemand, SyncerState
  <2>3. DemandTypeOK'
    <3>1. pings' \in 0..StreamMaxLen
      BY <1>1, DemandAssumption DEF ReadDemand, DemandTypeOK
    <3>2. missed' \in BOOLEAN /\ faults' \in 0..MaxFaults
      <4>1. CASE UNCHANGED <<missed, faults>>
        BY <4>1 DEF DemandTypeOK
      <4>2. CASE Miss
        BY <4>2, MissType
      <4> QED
        BY <1>1, <4>1, <4>2 DEF ReadDemand
    <3> QED
      BY <1>1, <3>1, <3>2 DEF ReadDemand, DemandTypeOK
  <2> QED
    BY <1>1, <2>2, <2>3 DEF ReadDemand
<1>2. CASE GiveReserver
  BY <1>2 DEF GiveReserver, SyncerState, ClientState, demandVars, DemandTypeOK
<1>3. CASE GiveDiffer
  <2>1. Nothing \in Demands
    BY DemandAssumption DEF Nothing, Demands
  <2>2. syncer' \in SyncerState /\ differ' \in DifferState /\ sub' \in SubState
    <3>1. syncer.count \in Demands /\ syncer' \in SyncerState
      BY <1>3, <2>1 DEF GiveDiffer, SyncerState
    <3>2. differ' \in DifferState
      BY <1>3, <3>1 DEF GiveDiffer, DifferState
    <3>3. sub' \in SubState
      <4>1. CASE UNCHANGED sub
        BY <4>1
      <4>2. CASE sub' = [SubOff EXCEPT !.on = TRUE, !.relevant = syncer.count]
        BY <3>1, <4>2 DEF SubState, SubOff
      <4> QED
        BY <1>3, <4>1, <4>2 DEF GiveDiffer
    <3> QED
      BY <3>1, <3>2, <3>3
  <2> QED
    BY <1>3, <2>2 DEF GiveDiffer, demandVars, DemandTypeOK
<1> QED
  BY <1>1, <1>2, <1>3 DEF SyncerStep

LEMMA DifferTypeStep ==
  ASSUME TypeOK, RestartSub \/ (\E line \in Lines : Poll(line)) \/ HandleMessage
  PROVE  TypeOK'
<1> USE DEF TypeOK
<1>1. CASE RestartSub
  <2>1. Nothing \in Demands
    BY DemandAssumption DEF Nothing, Demands
  <2>2. sub' \in SubState /\ differ' \in DifferState
    BY <1>1, <2>1 DEF RestartSub, SubState, SubOff, DifferState
  <2>3. prev' \in [Slots -> Seats]
    BY <1>1, ReserverAssumption DEF RestartSub, Seats
  <2>4. rise' \in [Slots -> Rise] /\ inbox' \in Seq(Message) /\ Len(inbox') <= MaxInbox
    BY <1>1, ReserverAssumption DEF RestartSub, Risen, Rise
  <2> QED
    BY <1>1, <2>2, <2>3, <2>4 DEF RestartSub, demandVars, DemandTypeOK
<1>2. ASSUME NEW line \in Lines, Poll(line) PROVE TypeOK'
  <2>1. [s \in line |-> seats[s]] \in Message
    BY ReserverAssumption DEF Message
  <2>2. inbox' \in Seq(Message) /\ Len(inbox') <= MaxInbox
    BY <1>2, <2>1, ReserverAssumption DEF Poll
  <2> QED
    BY <1>2, <2>2 DEF Poll, demandVars, DemandTypeOK
<1>3. CASE HandleMessage
  <2> DEFINE m == Head(inbox)
  <2>1. m \in Message /\ inbox' \in Seq(Message) /\ Len(inbox') <= MaxInbox
    <3>1. inbox \in Seq(Message) /\ inbox # <<>> /\ inbox' = Tail(inbox) /\ Len(inbox) <= MaxInbox
      BY <1>3 DEF HandleMessage
    <3>2. Head(inbox) \in Message /\ Tail(inbox) \in Seq(Message) /\ Len(Tail(inbox)) = Len(inbox) - 1
      BY <3>1
    <3>3. Len(inbox) \in Nat /\ MaxInbox \in Nat
      BY <3>1, ReserverAssumption
    <3> QED
      BY <3>1, <3>2, <3>3
  <2>2. PICK line \in Lines : m \in [line -> Seats]
    BY <2>1 DEF Message
  <2>3. Wanted(m) \subseteq Slots /\ DOMAIN m \subseteq Slots /\ \A s \in DOMAIN m : m[s] \in Seats
    BY <2>2, ReserverAssumption DEF Wanted
  <2>4. prev' \in [Slots -> Seats]
    BY <1>3, <2>3, ReserverAssumption DEF HandleMessage, Wanted, Seats
  <2>5. sub' \in SubState
    <3> DEFINE diff(s) == [slot |-> s, count |-> m[s], delta |-> m[s] - prev[s]]
    <3>1. ASSUME NEW s \in Wanted(m) PROVE diff(s) \in Diff
      <4>1. s \in Slots /\ m[s] \in Seats /\ prev[s] \in Seats
        BY <2>3 DEF Wanted
      <4>2. m[s] - prev[s] \in -MaxSeats..MaxSeats
        BY <4>1, ReserverAssumption DEF Seats
      <4> QED
        BY <4>1, <4>2 DEF Diff
    <3>2. {diff(s) : s \in {w \in Wanted(m) : m[w] # prev[w]}} \in SUBSET Diff
      BY <3>1
    <3> QED
      BY <1>3, <3>2 DEF HandleMessage, SubState
  <2> QED
    BY <1>3, <2>1, <2>4, <2>5 DEF HandleMessage, demandVars, DemandTypeOK
<1> QED
  BY <1>1, <1>2, <1>3

LEMMA LoopTypeStep ==
  ASSUME TypeOK, Take \/ TakeLogin \/ (\E s \in Slots : Calm(s) \/ ChangeSeats(s)) \/ Crash
  PROVE  TypeOK'
<1> USE DEF TypeOK
<1>1. ASSUME NEW d \in sub.out, TakeDiff(d) PROVE TypeOK'
  <2>1. d \in Diff
    BY DEF SubState
  <2>2. sub' \in SubState /\ told' \in [Slots -> Seats]
    BY <1>1, <2>1 DEF TakeDiff, SubState, Diff
  <2>3. recent' \subseteq Slots /\ deferred' \subseteq Slots
    BY <1>1, <2>1 DEF TakeDiff, Diff
  <2>4. Answered(d) \in Rise
    BY <2>1 DEF Answered, Rise, Diff
  <2>5. rise' \in [Slots -> Rise]
    BY <1>1, <2>4 DEF TakeDiff
  <2> QED
    BY <1>1, <2>2, <2>3, <2>5 DEF TakeDiff, demandVars, DemandTypeOK
<1>2. CASE TakeLogin
  BY <1>2 DEF TakeLogin, ClientState, demandVars, DemandTypeOK
<1>3. ASSUME NEW s \in Slots, Calm(s) PROVE TypeOK'
  BY <1>3 DEF Calm, demandVars, DemandTypeOK
<1>4. ASSUME NEW s \in Slots, ChangeSeats(s) PROVE TypeOK'
  BY <1>4 DEF ChangeSeats, demandVars, DemandTypeOK
<1>5. CASE Crash
  <2>1. Nothing \in Demands /\ Nothing \in [Slots -> Seats]
    BY DemandAssumption, ReserverAssumption DEF Nothing, Demands, Seats
  <2>2. DemandTypeOK'
    BY <1>5, DemandAssumption DEF Crash, DemandTypeOK
  <2> QED
    BY <1>5, <2>1, <2>2, ReserverAssumption
       DEF Crash, SyncerStart, DifferStart, SubOff, ClientStart,
           SyncerState, DifferState, SubState, ClientState, NoRise, Rise
<1> QED
  BY <1>1, <1>2, <1>3, <1>4, <1>5 DEF Take

LEMMA TypeStep == TypeOK /\ [Next]_vars => TypeOK'
<1> SUFFICES ASSUME TypeOK, [Next]_vars PROVE TypeOK'
  OBVIOUS
<1>1. CASE UNCHANGED vars
  BY <1>1 DEF vars, demandVars, reserverVars, TypeOK, DemandTypeOK
<1> QED
  BY <1>1, DemandTypeStep, SyncerTypeStep, DifferTypeStep, LoopTypeStep DEF Next

(* The process and the demand in zinc are in states the code has, whatever *)
(* crashes, fails or is read late, for any slots, replicas and bounds.     *)
THEOREM ReserverTypeCorrect == Spec => []TypeOK
<1> QED
  BY TypeInit, TypeStep, PTL DEF Spec

-----------------------------------------------------------------------------
(* The order of a new demand.                                              *)

\* What none of the channels' steps changes.
LEMMA OrderKept ==
  ASSUME OrderInv, UNCHANGED <<syncer, differ, client>>, sub'.on => sub.on, sub'.relevant = sub.relevant
  PROVE  OrderInv'
<1> QED
  BY DEF OrderInv, DemandGiven, PricedWithNewDemand

LEMMA OrderInit == Init => OrderInv
<1> QED
  BY DEF Init, OrderInv, DemandGiven, PricedWithNewDemand, SyncerStart, DifferStart, SubOff

LEMMA OrderStep == TypeOK /\ OrderInv /\ [Next]_vars => OrderInv'
<1> SUFFICES ASSUME TypeOK, OrderInv, [Next]_vars PROVE OrderInv'
  OBVIOUS
<1> USE DEF OrderInv, DemandGiven, PricedWithNewDemand
<1>0. sub \in SubState /\ syncer \in SyncerState /\ client \in ClientState /\ differ \in DifferState
  BY DEF TypeOK
<1>1. CASE UNCHANGED vars \/ (DemandStep /\ UNCHANGED reserverVars)
  BY <1>1 DEF vars, reserverVars
<1>2. CASE ReadDemand
  BY <1>0, <1>2 DEF ReadDemand, SyncerState
<1>3. CASE GiveReserver
  BY <1>0, <1>3 DEF GiveReserver, SyncerState, ClientState
<1>4. CASE GiveDiffer
  <2>1. client.cache = syncer.count /\ client' = client /\ syncer'.pc # "toDiffer"
    BY <1>4 DEF GiveDiffer
  <2>2. CASE /\ differ.pc = "first"
             /\ differ' = [differ EXCEPT !.pc = "wait"]
             /\ sub' = [SubOff EXCEPT !.on = TRUE, !.relevant = syncer.count]
    BY <1>0, <2>1, <2>2 DEF SubOff, DifferState
  <2>3. CASE /\ differ.pc = "wait"
             /\ differ' = [pc |-> "term", count |-> syncer.count]
             /\ UNCHANGED sub
    BY <1>0, <2>1, <2>3
  <2> QED
    BY <1>4, <2>2, <2>3 DEF GiveDiffer
<1>5. CASE RestartSub
  BY <1>0, <1>5 DEF RestartSub, SubOff
<1>6. ASSUME NEW line \in Lines, Poll(line) PROVE OrderInv'
  BY <1>6, OrderKept DEF Poll
<1>7. CASE HandleMessage
  <2>1. sub'.on = sub.on /\ sub'.relevant = sub.relevant
    BY <1>0, <1>7 DEF HandleMessage, SubState
  <2> QED
    BY <1>7, <2>1, OrderKept DEF HandleMessage
<1>8. ASSUME NEW d \in sub.out, TakeDiff(d) PROVE OrderInv'
  <2>1. sub'.on = sub.on /\ sub'.relevant = sub.relevant
    BY <1>0, <1>8 DEF TakeDiff, SubState
  <2> QED
    BY <1>8, <2>1, OrderKept DEF TakeDiff
<1>9. CASE TakeLogin
  <2>1. client'.cache = client.cache
    BY <1>0, <1>9 DEF TakeLogin, ClientState
  <2> QED
    BY <1>9, <2>1 DEF TakeLogin
<1>10. ASSUME NEW s \in Slots, Calm(s) \/ ChangeSeats(s) PROVE OrderInv'
  BY <1>10 DEF Calm, ChangeSeats
<1>11. CASE Crash
  BY <1>11 DEF Crash, SyncerStart, DifferStart, SubOff
<1> QED
  BY <1>1, <1>2, <1>3, <1>4, <1>5, <1>6, <1>7, <1>8, <1>9, <1>10, <1>11 DEF Next, SyncerStep, Take

(* "The next diff must be priced against the NEW demand" (count_syncer.go):*)
(* for any slots and demands, and however often the reserver restarts, the *)
(* differ never diffs for a demand the loop is yet to hear of.             *)
THEOREM DiffsPricedWithNewDemand == Spec => []PricedWithNewDemand
<1>1. TypeOK /\ OrderInv /\ [Next]_vars => (TypeOK /\ OrderInv)'
  BY TypeStep, OrderStep
<1>2. OrderInv => PricedWithNewDemand
  BY DEF OrderInv
<1> QED
  BY TypeInit, OrderInit, <1>1, <1>2, PTL DEF Spec

-----------------------------------------------------------------------------
(* What the differ believes.                                               *)

LEMMA BeliefKept == ASSUME BeliefInv, UNCHANGED <<differ, sub, prev, told>> PROVE BeliefInv'
<1> QED
  BY DEF BeliefInv, FirstIsOff, SentIsBelieved, BeliefIsDelivered

LEMMA BeliefInit == Init => BeliefInv
<1> QED
  BY DEF Init, BeliefInv, FirstIsOff, SentIsBelieved, BeliefIsDelivered, SubOff, Nothing

LEMMA BeliefRestart == ASSUME TypeOK, BeliefInv, RestartSub PROVE BeliefInv'
<1> USE DEF BeliefInv, FirstIsOff, SentIsBelieved, BeliefIsDelivered
<1>1. differ'.pc = "wait" /\ sub'.out = {} /\ told' = told /\ sub.out = {}
  BY DEF RestartSub, SubOff
<1>2. \A s \in Slots : prev'[s] = 0 \/ prev'[s] = prev[s]
  BY DEF RestartSub
<1> QED
  BY <1>1, <1>2

LEMMA BeliefHandle == ASSUME TypeOK, BeliefInv, HandleMessage PROVE BeliefInv'
<1> USE DEF BeliefInv, FirstIsOff, SentIsBelieved, BeliefIsDelivered
<1> DEFINE m == Head(inbox)
           changed == {w \in Wanted(m) : m[w] # prev[w]}
           diff(s) == [slot |-> s, count |-> m[s], delta |-> m[s] - prev[s]]
<1>1. Wanted(m) \subseteq DOMAIN m /\ DOMAIN m \subseteq Slots
  <2>1. m \in Message
    BY DEF HandleMessage, TypeOK
  <2> QED
    BY <2>1, ReserverAssumption DEF Message, Wanted
<1>2. /\ sub.on /\ sub.out = {} /\ UNCHANGED <<differ, told>>
      /\ sub'.out = {diff(s) : s \in changed}
      /\ \A s \in Slots : prev'[s] = IF s \in Wanted(m) THEN m[s] ELSE IF s \in DOMAIN m THEN 0 ELSE prev[s]
  BY DEF HandleMessage, TypeOK, SubState
<1>3. FirstIsOff'
  BY <1>2 DEF SubOff
<1>4. SentIsBelieved'
  <2> SUFFICES ASSUME NEW s \in changed PROVE prev'[diff(s).slot] = diff(s).count
    BY <1>2
  <2> QED
    BY <1>1, <1>2
<1>5. BeliefIsDelivered'
  <2> SUFFICES ASSUME NEW s \in Slots, prev'[s] # 0, told[s] # prev'[s]
               PROVE  \E d \in sub'.out : d.slot = s /\ d.count = prev'[s]
    BY <1>2
  <2>1. s \in changed /\ prev'[s] = m[s]
    BY <1>2
  <2>2. diff(s) \in sub'.out /\ diff(s).slot = s /\ diff(s).count = prev'[s]
    BY <1>2, <2>1
  <2> QED
    BY <2>2
<1> QED
  BY <1>3, <1>4, <1>5

LEMMA BeliefTake == ASSUME TypeOK, BeliefInv, NEW d \in sub.out, TakeDiff(d) PROVE BeliefInv'
<1> USE DEF BeliefInv, FirstIsOff, SentIsBelieved, BeliefIsDelivered
<1>1. d.slot \in Slots /\ prev[d.slot] = d.count
  BY DEF TypeOK, SubState, Diff
<1>2. /\ sub'.out = sub.out \ {d} /\ UNCHANGED <<differ, prev>>
      /\ \A s \in Slots : told'[s] = IF s = d.slot THEN d.count ELSE told[s]
  BY DEF TakeDiff, TypeOK, SubState
<1>3. FirstIsOff'
  BY <1>2 DEF SubOff
<1>4. SentIsBelieved'
  BY <1>2
<1>5. BeliefIsDelivered'
  <2> SUFFICES ASSUME NEW s \in Slots, prev[s] # 0, told'[s] # prev[s]
               PROVE  \E e \in sub'.out : e.slot = s /\ e.count = prev[s]
    BY <1>2
  <2>1. s # d.slot /\ told'[s] = told[s]
    BY <1>1, <1>2
  <2>2. PICK e \in sub.out : e.slot = s /\ e.count = prev[s]
    BY <2>1
  <2> QED
    BY <1>2, <2>1, <2>2
<1> QED
  BY <1>3, <1>4, <1>5

LEMMA BeliefStep == TypeOK /\ BeliefInv /\ [Next]_vars => BeliefInv'
<1> SUFFICES ASSUME TypeOK, BeliefInv, [Next]_vars PROVE BeliefInv'
  OBVIOUS
<1>1. CASE UNCHANGED vars \/ (DemandStep /\ UNCHANGED reserverVars)
  BY <1>1, BeliefKept DEF vars, reserverVars
<1>2. CASE ReadDemand \/ GiveReserver
  BY <1>2, BeliefKept DEF ReadDemand, GiveReserver
<1>3. CASE GiveDiffer
  <2>0. differ \in DifferState /\ (differ.pc = "first" => sub = SubOff) /\ UNCHANGED <<prev, told>>
    BY <1>3 DEF GiveDiffer, BeliefInv, FirstIsOff, TypeOK
  <2>1. differ'.pc # "first" /\ sub'.out = sub.out
    <3>1. CASE /\ differ.pc = "first"
               /\ differ' = [differ EXCEPT !.pc = "wait"]
               /\ sub' = [SubOff EXCEPT !.on = TRUE, !.relevant = syncer.count]
      BY <2>0, <3>1 DEF SubOff, DifferState
    <3>2. CASE differ' = [pc |-> "term", count |-> syncer.count] /\ UNCHANGED sub
      BY <3>2
    <3> QED
      BY <1>3, <3>1, <3>2 DEF GiveDiffer
  <2> QED
    BY <2>0, <2>1 DEF BeliefInv, FirstIsOff, SentIsBelieved, BeliefIsDelivered
<1>4. ASSUME NEW line \in Lines, Poll(line) PROVE BeliefInv'
  BY <1>4, BeliefKept DEF Poll
<1>5. CASE TakeLogin
  BY <1>5, BeliefKept DEF TakeLogin
<1>6. ASSUME NEW s \in Slots, Calm(s) \/ ChangeSeats(s) PROVE BeliefInv'
  BY <1>6, BeliefKept DEF Calm, ChangeSeats
<1>7. CASE Crash
  BY <1>7 DEF Crash, SubOff, Nothing, BeliefInv, FirstIsOff, SentIsBelieved, BeliefIsDelivered
<1> QED
  BY <1>1, <1>2, <1>3, <1>4, <1>5, <1>6, <1>7, BeliefRestart, BeliefHandle, BeliefTake
     DEF Next, SyncerStep, Take

(* The differ reports changes only.  For any slots and seats, however often*)
(* its subscription is replaced in the middle of what it was handling, it  *)
(* remembers of a slot nothing that the loop was not told or is being told.*)
THEOREM DifferBelievesDelivered == Spec => []BeliefIsDelivered
<1>1. TypeOK /\ BeliefInv /\ [Next]_vars => (TypeOK /\ BeliefInv)'
  BY TypeStep, BeliefStep
<1>2. BeliefInv => BeliefIsDelivered
  BY DEF BeliefInv
<1> QED
  BY TypeInit, BeliefInit, <1>1, <1>2, PTL DEF Spec
=============================================================================
