---------------------------- MODULE ProberProofs ----------------------------
(***************************************************************************)
(* The custody of holds in Prober, for any Jobs, slots, holds and limits:  *)
(* with overlapping generations, lost replies, kills and release entries   *)
(* KTMB refuses or nobody can read.                                        *)
(***************************************************************************)
EXTENDS Prober, TLAPS, SequenceTheorems, WellFoundedInduction

-----------------------------------------------------------------------------
(* What LREM leaves of the release list.                                   *)

LEMMA LeastIndex ==
  ASSUME NEW I, I \subseteq Nat, I # {}
  PROVE  Min(I) \in I
<1> DEFINE R == OpToRel(<, Nat)
<1>1. IsWellFoundedOn(R, Nat)
  BY NatLessThanWellFounded
<1>2. R = {ss \in Nat \X Nat : ss[1] < ss[2]}
  BY DEF OpToRel
<1> HIDE DEF R
<1>3. \E x \in I : \A y \in I : ~(<<y, x>> \in R)
  BY <1>1, WFMin
<1>4. ASSUME NEW x \in Nat, NEW y \in Nat, <<y, x>> \notin R PROVE x =< y
  <2>1. ~(y < x)
    BY <1>2, <1>4, Zenon
  <2> QED
    BY <2>1
<1>5. \E x \in I : \A y \in I : x =< y
  BY <1>3, <1>4
<1> QED
  BY <1>5 DEF Min

LEMMA Removed ==
  ASSUME NEW S, NEW list \in Seq(S), NEW e
  PROVE  /\ RemoveFirst(list, e) \in Seq(S)
         /\ ToSet(RemoveFirst(list, e)) \subseteq ToSet(list)
         /\ ToSet(list) \ {e} \subseteq ToSet(RemoveFirst(list, e))
<1> DEFINE I == {i \in 1..Len(list) : list[i] = e}
<1>1. RemoveFirst(list, e)
        = IF \E i \in 1..Len(list) : list[i] = e THEN RemoveAt(list, Min(I)) ELSE list
  BY DEF RemoveFirst, SelectInSeq
<1>2. CASE I = {}
  <2>1. RemoveFirst(list, e) = list
    BY <1>1, <1>2
  <2> QED
    BY <2>1
<1>3. CASE I # {}
  <2>1. PICK n \in 1..Len(list) : list[n] = e /\ RemoveFirst(list, e) = RemoveAt(list, n)
    <3>1. I \subseteq Nat
      OBVIOUS
    <3>2. Min(I) \in I
      BY <1>3, <3>1, LeastIndex
    <3> QED
      BY <1>1, <3>2
  <2> DEFINE a == SubSeq(list, 1, n - 1)
             c == SubSeq(list, n + 1, Len(list))
             r == a \o c
  <2>2. RemoveFirst(list, e) = r
    BY <2>1 DEF RemoveAt
  <2>3. /\ a \in Seq(S) /\ Len(a) = n - 1 /\ \A i \in 1..(n - 1) : a[i] = list[i]
        /\ c \in Seq(S) /\ Len(c) = Len(list) - n
        /\ \A i \in 1..(Len(list) - n) : c[i] = list[i + n]
    OBVIOUS
  <2> HIDE DEF a, c
  <2>4. Len(list) \in Nat /\ n \in 1..Len(list)
    OBVIOUS
  <2>5. /\ r \in Seq(S) /\ Len(r) = Len(list) - 1
        /\ \A i \in 1..(n - 1) : r[i] = list[i]
        /\ \A i \in n..(Len(list) - 1) : r[i] = list[i + 1]
    <3>1. r \in Seq(S)
      BY <2>3
    <3>2. Len(r) = Len(a) + Len(c)
      BY <2>3, ConcatProperties
    <3>3. ASSUME NEW i \in 1..(n - 1) PROVE r[i] = list[i]
      BY <2>3, <2>4
    <3>4. ASSUME NEW i \in n..(Len(list) - 1) PROVE r[i] = list[i + 1]
      <4>1. r[i] = c[i - Len(a)] /\ i - Len(a) \in 1..(Len(list) - n)
        BY <2>3, <2>4
      <4> QED
        BY <2>3, <2>4, <4>1
    <3> HIDE DEF r
    <3>5. Len(r) = Len(list) - 1
      BY <2>3, <2>4, <3>2
    <3> QED
      BY <3>1, <3>3, <3>4, <3>5
  <2> HIDE DEF r
  <2>6. ToSet(r) \subseteq ToSet(list)
    BY <2>5 DEF ToSet
  <2>7. ASSUME NEW i \in DOMAIN list, list[i] # e PROVE list[i] \in ToSet(r)
    <3>1. CASE i < n
      BY <2>5, <3>1 DEF ToSet
    <3>2. CASE i > n
      <4>1. i - 1 \in DOMAIN r /\ r[i - 1] = list[i]
        BY <2>5, <3>2
      <4> QED
        BY <4>1 DEF ToSet
    <3> QED
      BY <2>1, <2>7, <3>1, <3>2
  <2>8. ToSet(list) \ {e} \subseteq ToSet(r)
    BY <2>7 DEF ToSet
  <2> QED
    BY <2>2, <2>5, <2>6, <2>8
<1> QED
  BY <1>2, <1>3

-----------------------------------------------------------------------------
(* Who has a hold: the invariant behind the custody.                       *)

Used == held \union cancelled \union over

\* A slot has a hold exactly while it delivers or releases it.
RowOk(r) ==
  /\ r.hold # NoHold <=> r.pc \in {"accept", "cancel", "persist"}
  /\ r.pc # "done" => r.failed = 0 /\ r.errors < ErrorLimit
  /\ r.pc = "sent" => r.got < Needed
  /\ r.failed <= 1

SlotInv ==
  \A j \in Jobs, s \in Slots :
    RowOk(slot[j][s]) /\ (job[j].pc # "probe" => slot[j][s].pc = "done")

\* No two slots have the same hold.
OneHand ==
  \A i, j \in Jobs : \A s, t \in Slots :
    slot[i][s].hold # NoHold /\ slot[i][s].hold = slot[j][t].hold => i = j /\ s = t

\* Nobody has a hold KTMB never gave, so a new one is nobody's.
Known == InHand \union queue \union Released \union orphaned \subseteq Used

\* A release entry may go: it is logged as unreadable, or the hold is no more.
SeenTo(h) == IF h \in Unreadable THEN h \in orphaned ELSE h \notin held

\* An entry of a Job's batch is still listed, or another Job saw to it.
BatchOk(j) ==
  /\ job[j].pc = "remove" => job[j].todo # <<>> /\ SeenTo(Head(job[j].todo))
  /\ \A h \in ToSet(job[j].todo) : h \in Used /\ (h \in Released \/ SeenTo(h))

BatchInv == \A j \in Jobs : BatchOk(j)

CustodyInv ==
  /\ TypeOK /\ SlotInv /\ OneHand /\ Known /\ BatchInv /\ NoHoldForgotten

\* A step of Custody, or none.
CustodyStep == [Abstract!Next]_(Abstract!vars)

-----------------------------------------------------------------------------
(* Owners.                                                                 *)

LEMMA OwnersAre ==
  ASSUME NEW h
  PROVE  /\ "slot" \in Owners(h) <=> h \in InHand
         /\ "buyers" \in Owners(h) <=> h \in queue
         /\ "backlog" \in Owners(h) <=> h \in Released
         /\ "nobody" \in Owners(h) <=> h \in orphaned
         /\ Owners(h) \subseteq {"slot", "buyers", "backlog", "nobody"}
BY DEF Owners

\* Owners of a hold nothing happens to.
SameFor(h) ==
  /\ h \in InHand' <=> h \in InHand
  /\ h \in queue' <=> h \in queue
  /\ h \in Released' <=> h \in Released
  /\ h \in orphaned' <=> h \in orphaned

LEMMA SameOwners ==
  ASSUME NEW h, SameFor(h)
  PROVE  Owners(h)' = Owners(h)
BY DEF SameFor, Owners

\* Who sees to h afterwards, when nothing happens to the other holds.
LEMMA OwnersStep ==
  ASSUME NEW h \in Holds, \A g \in Holds \ {h} : SameFor(g),
         NEW by, by = Owners(h)'
  PROVE  [g \in Holds |-> Owners(g)]' = [[g \in Holds |-> Owners(g)] EXCEPT ![h] = by]
<1>1. \A g \in Holds : Owners(g)' = IF g = h THEN by ELSE Owners(g)
  BY SameOwners
<1> QED
  BY <1>1

LEMMA CustodyStutter ==
  ASSUME UNCHANGED <<held, cancelled>>, \A h \in Holds : SameFor(h)
  PROVE  CustodyStep
<1>1. \A h \in Holds : Owners(h)' = Owners(h)
  BY SameOwners
<1> QED
  BY <1>1 DEF CustodyStep, Abstract!vars

LEMMA CustodyAcquire ==
  ASSUME NEW h \in Holds, h \notin held, Owners(h) = {}, NEW by \in {"slot", "nobody"},
         held' = held \union {h}, UNCHANGED cancelled,
         Owners(h)' = {by}, \A g \in Holds \ {h} : SameFor(g)
  PROVE  CustodyStep
<1>1. [g \in Holds |-> Owners(g)]' = [[g \in Holds |-> Owners(g)] EXCEPT ![h] = {by}]
  BY OwnersStep
<1>2. Abstract!Acquire(h, by)
  BY <1>1 DEF Abstract!Acquire
<1> QED
  BY <1>2 DEF CustodyStep, Abstract!Next

LEMMA CustodyHandOver ==
  ASSUME NEW h \in Holds, h \in InHand, NEW to \in {"buyers", "backlog", "nobody"},
         UNCHANGED <<held, cancelled>>, Owners(h)' = (Owners(h) \ {"slot"}) \union {to},
         \A g \in Holds \ {h} : SameFor(g)
  PROVE  CustodyStep
<1> DEFINE f == [g \in Holds |-> Owners(g)]
<1>1. f' = [f EXCEPT ![h] = (Owners(h) \ {"slot"}) \union {to}]
  BY OwnersStep
<1>2. "slot" \in Owners(h)
  BY OwnersAre
<1>3. Abstract!HandOver(h, to)
  BY <1>1, <1>2 DEF Abstract!HandOver
<1> QED
  BY <1>3 DEF CustodyStep, Abstract!Next

LEMMA CustodyDoubt ==
  ASSUME NEW h \in Holds, h \in InHand, LostReplies, UNCHANGED <<held, cancelled>>,
         \/ Owners(h)' = Owners(h) \union {"buyers"}
         \/ Owners(h)' = (Owners(h) \ {"slot"}) \union {"backlog", "nobody"},
         \A g \in Holds \ {h} : SameFor(g)
  PROVE  CustodyStep
<1> DEFINE f == [g \in Holds |-> Owners(g)]
<1>1. f' = [f EXCEPT ![h] = Owners(h)']
  BY OwnersStep
<1>2. "slot" \in Owners(h)
  BY OwnersAre
<1>3. Abstract!HandOverInDoubt(h)
  BY <1>1, <1>2 DEF Abstract!HandOverInDoubt
<1> QED
  BY <1>3 DEF CustodyStep, Abstract!Next

LEMMA CustodyCancel ==
  ASSUME NEW h \in Holds, h \in held, h \in InHand \union Released, Cancelled(h),
         Owners(h)' = Owners(h) \/ Owners(h)' = Owners(h) \ {"slot"},
         \A g \in Holds \ {h} : SameFor(g)
  PROVE  CustodyStep
<1> DEFINE f == [g \in Holds |-> Owners(g)]
<1>1. f' = [f EXCEPT ![h] = Owners(h)']
  BY OwnersStep
<1>2. Owners(h) \cap {"slot", "backlog"} # {}
  BY OwnersAre
<1>3. Abstract!CancelHold(h)
  <2>1. CASE Owners(h)' = Owners(h)
    <3>1. f' = f
      BY <1>1, <2>1
    <3> QED
      BY <1>2, <3>1 DEF Abstract!CancelHold, Abstract!Mine, Cancelled
  <2>2. CASE Owners(h)' = Owners(h) \ {"slot"}
    BY <1>1, <1>2, <2>2 DEF Abstract!CancelHold, Abstract!Mine, Cancelled
  <2> QED
    BY <2>1, <2>2
<1> QED
  BY <1>3 DEF CustodyStep, Abstract!Next

LEMMA CustodyEnd ==
  ASSUME NEW h \in Holds, h \in held, Over(h), \A g \in Holds : SameFor(g)
  PROVE  CustodyStep
<1>1. \A g \in Holds : Owners(g)' = Owners(g)
  BY SameOwners
<1>2. Abstract!End(h)
  BY <1>1 DEF Abstract!End, Over
<1> QED
  BY <1>2 DEF CustodyStep, Abstract!Next

LEMMA CustodyGiveUp ==
  ASSUME NEW h \in Holds, h \in Released, UNCHANGED <<held, cancelled>>,
         Owners(h)' = Owners(h) \union {"nobody"}, \A g \in Holds \ {h} : SameFor(g)
  PROVE  CustodyStep
<1> DEFINE f == [g \in Holds |-> Owners(g)]
<1>1. f' = [f EXCEPT ![h] = Owners(h) \union {"nobody"}]
  BY OwnersStep
<1>2. "backlog" \in Owners(h)
  BY OwnersAre
<1>3. Abstract!GiveUp(h)
  BY <1>1, <1>2 DEF Abstract!GiveUp
<1> QED
  BY <1>3 DEF CustodyStep, Abstract!Next

LEMMA CustodyForget ==
  ASSUME NEW h \in Holds, h \notin held \/ h \in orphaned, UNCHANGED <<held, cancelled>>,
         Owners(h)' = Owners(h) \ {"backlog"}, \A g \in Holds \ {h} : SameFor(g)
  PROVE  CustodyStep
<1> DEFINE f == [g \in Holds |-> Owners(g)]
<1>1. f' = [f EXCEPT ![h] = Owners(h) \ {"backlog"}]
  BY OwnersStep
<1>2. h \notin held \/ "nobody" \in Owners(h)
  BY OwnersAre
<1>3. Abstract!Forget(h)
  BY <1>1, <1>2 DEF Abstract!Forget
<1> QED
  BY <1>3 DEF CustodyStep, Abstract!Next

-----------------------------------------------------------------------------
(* What a step of a slot or of a Job does to the holds in hand.            *)

LEMMA InHandIs ==
  \A h : h \in InHand <=> h # NoHold /\ \E j \in Jobs, s \in Slots : slot[j][s].hold = h
BY DEF InHand

SlotType == slot \in [Jobs -> [Slots -> SlotState]]

LEMMA RowFacts ==
  ASSUME SlotType, NEW j \in Jobs, NEW s \in Slots
  PROVE  /\ slot[j][s] \in SlotState
         /\ Hold(j, s) \in Holds \union {NoHold}
         /\ Hold(j, s) # NoHold => Hold(j, s) \in InHand
<1>1. slot[j][s] \in SlotState
  BY DEF SlotType
<1> QED
  BY <1>1, InHandIs DEF SlotState, Hold

LEMMA SlotChange ==
  ASSUME SlotType, SlotInv, OneHand, NEW j \in Jobs, NEW s \in Slots,
         NEW new \in SlotState, SetSlot(j, s, new), RowOk(new),
         job[j].pc = "probe", \A i \in Jobs : job'[i].pc = job[i].pc,
         new.hold \in {NoHold, Hold(j, s)} \/ new.hold \notin InHand
  PROVE  /\ SlotType' /\ SlotInv' /\ OneHand'
         /\ InHand' = (InHand \ {Hold(j, s)}) \union ({new.hold} \ {NoHold})
<1>1. /\ slot'[j][s] = new
      /\ \A i \in Jobs, t \in Slots : i # j \/ t # s => slot'[i][t] = slot[i][t]
      /\ SlotType'
  BY DEF SetSlot, SlotType
<1>2. SlotInv'
  BY <1>1 DEF SlotInv
<1>3. \A h : h \in InHand' <=> h # NoHold /\ \E i \in Jobs, t \in Slots : slot'[i][t].hold = h
  BY DEF InHand
<1>4. OneHand'
  <2> SUFFICES ASSUME NEW i \in Jobs, NEW k \in Jobs, NEW t \in Slots, NEW u \in Slots,
                      slot'[i][t].hold # NoHold, slot'[i][t].hold = slot'[k][u].hold
               PROVE  i = k /\ t = u
    BY DEF OneHand
  <2>1. ASSUME NEW l \in Jobs, NEW v \in Slots, l # j \/ v # s,
               new.hold # NoHold, new.hold = slot[l][v].hold
        PROVE  FALSE
    <3>1. new.hold \in InHand
      BY <2>1, InHandIs
    <3>2. slot[j][s].hold = slot[l][v].hold /\ slot[j][s].hold # NoHold
      BY <2>1, <3>1 DEF Hold
    <3> QED
      BY <2>1, <3>2 DEF OneHand
  <2> QED
    BY <1>1, <2>1 DEF OneHand
<1>5. ASSUME NEW h
      PROVE  h \in InHand' <=> h \in (InHand \ {Hold(j, s)}) \union ({new.hold} \ {NoHold})
  <2>1. CASE h = NoHold
    BY <1>3, <2>1, InHandIs
  <2>2. CASE h # NoHold /\ h = new.hold
    BY <1>1, <1>3, <2>2
  <2>3. CASE h # NoHold /\ h # new.hold
    <3>1. h \in InHand' <=>
            \E i \in Jobs, t \in Slots : (i # j \/ t # s) /\ slot[i][t].hold = h
      BY <1>1, <1>3, <2>3
    <3>2. h \in InHand <=>
            \/ \E i \in Jobs, t \in Slots : (i # j \/ t # s) /\ slot[i][t].hold = h
            \/ Hold(j, s) = h
      BY <2>3, InHandIs DEF Hold
    <3>3. Hold(j, s) = h =>
            ~ \E i \in Jobs, t \in Slots : (i # j \/ t # s) /\ slot[i][t].hold = h
      BY <2>3 DEF OneHand, Hold
    <3> QED
      BY <2>3, <3>1, <3>2, <3>3
  <2> QED
    BY <2>1, <2>2, <2>3
<1> QED
  BY <1>1, <1>2, <1>4, <1>5

LEMMA SlotMoves ==
  ASSUME SlotType, SlotInv, OneHand, NEW j \in Jobs, NEW s \in Slots,
         NEW new \in SlotState, SetSlot(j, s, new), RowOk(new),
         job[j].pc = "probe", \A i \in Jobs : job'[i].pc = job[i].pc,
         new.hold = Hold(j, s)
  PROVE  SlotType' /\ SlotInv' /\ OneHand' /\ InHand' = InHand
<1>1. /\ SlotType' /\ SlotInv' /\ OneHand'
      /\ InHand' = (InHand \ {Hold(j, s)}) \union ({Hold(j, s)} \ {NoHold})
  BY SlotChange
<1> QED
  BY <1>1, RowFacts, InHandIs

\* All slots of a Job end up with no hold.
LEMMA SlotsReset ==
  ASSUME SlotType, OneHand, NEW j \in Jobs, NEW r \in SlotState, r.hold = NoHold,
         slot' = [slot EXCEPT ![j] = [s \in Slots |-> r]]
  PROVE  /\ SlotType' /\ OneHand'
         /\ \A s \in Slots : slot'[j][s] = r
         /\ \A i \in Jobs \ {j} : slot'[i] = slot[i]
         /\ InHand' = InHand \ {Hold(j, s) : s \in Slots}
<1>1. /\ SlotType' /\ \A s \in Slots : slot'[j][s] = r
      /\ \A i \in Jobs \ {j} : slot'[i] = slot[i]
  BY DEF SlotType
<1>2. OneHand'
  BY <1>1 DEF OneHand
<1>3. \A h : h \in InHand' <=> h # NoHold /\ \E i \in Jobs, t \in Slots : slot'[i][t].hold = h
  BY DEF InHand
<1>4. ASSUME NEW h
      PROVE  h \in InHand' <=> h \in InHand /\ \A s \in Slots : Hold(j, s) # h
  <2>1. h \in InHand' <=> h # NoHold /\ \E i \in Jobs \ {j}, t \in Slots : slot[i][t].hold = h
    BY <1>1, <1>3
  <2> QED
    BY <2>1, InHandIs DEF OneHand, Hold
<1> QED
  BY <1>1, <1>2, <1>4

LEMMA StartFacts ==
  /\ SlotDone \in SlotState /\ [SlotDone EXCEPT !.pc = "probe"] \in SlotState
  /\ SlotDone.pc = "done" /\ [SlotDone EXCEPT !.pc = "probe"].pc = "probe"
  /\ SlotDone.hold = NoHold /\ [SlotDone EXCEPT !.pc = "probe"].hold = NoHold
  /\ RowOk(SlotDone) /\ RowOk([SlotDone EXCEPT !.pc = "probe"])
  /\ NoJob \in JobState /\ Probing \in JobState
  /\ [NoJob EXCEPT !.pc = "start"] \in JobState
  /\ Probing.pc = "probe" /\ Probing.todo = <<>> /\ NoJob.pc = "none" /\ NoJob.todo = <<>>
  /\ [NoJob EXCEPT !.pc = "start"].pc = "start" /\ [NoJob EXCEPT !.pc = "start"].todo = <<>>
<1> DEFINE p == [SlotDone EXCEPT !.pc = "probe"]
           q == [NoJob EXCEPT !.pc = "start"]
<1>1. Needed \in Nat \ {0} /\ ErrorLimit \in Nat \ {0}
  BY ProberAssumption
<1>2. 0 \in 0..Needed /\ 0 \in 0..ErrorLimit /\ 0 < Needed /\ 0 < ErrorLimit
  BY <1>1
<1>3. /\ p.pc = "probe" /\ p.hold = NoHold /\ p.got = 0 /\ p.errors = 0
      /\ p.refreshed = FALSE /\ p.failed = 0
  BY DEF SlotDone
<1>4. SlotDone \in SlotState
  BY <1>2 DEF SlotDone, SlotState
<1>5. p \in SlotState
  BY <1>4, <1>3 DEF SlotState
<1>6. p.pc = "probe" /\ p.hold = NoHold /\ p.failed = 0 /\ p.errors = 0
  BY <1>3
<1> HIDE DEF p
<1>7. RowOk(p)
  BY <1>2, <1>6 DEF RowOk
<1>8. SlotDone.pc = "done" /\ SlotDone.hold = NoHold /\ SlotDone.failed = 0
  BY DEF SlotDone
<1>9. RowOk(SlotDone)
  BY <1>8 DEF RowOk
<1>10. NoJob \in JobState /\ NoJob.pc = "none" /\ NoJob.todo = <<>>
  BY DEF NoJob, JobState
<1>11. Probing.pc = "probe" /\ Probing.todo = <<>>
  BY DEF Probing, NoJob
<1>12. q.pc = "start" /\ q.todo = <<>>
  BY DEF NoJob
<1>13. Probing \in JobState /\ q \in JobState
  BY <1>10 DEF Probing, JobState
<1> QED
  BY <1>4, <1>5, <1>6, <1>7, <1>8, <1>9, <1>10, <1>11, <1>12, <1>13 DEF p

\* Draining ends: the slots had no hold and have none.
LEMMA SlotsStart ==
  ASSUME SlotType, SlotInv, OneHand, NEW j \in Jobs, job \in [Jobs -> JobState],
         job[j].pc # "probe", SetJob(j, Probing), StartSlots(j)
  PROVE  SlotType' /\ SlotInv' /\ OneHand' /\ InHand' = InHand
<1>1. PICK r \in {SlotDone, [SlotDone EXCEPT !.pc = "probe"]} :
        slot' = [slot EXCEPT ![j] = [s \in Slots |-> r]]
  BY DEF StartSlots
<1>2. r \in SlotState /\ r.hold = NoHold /\ RowOk(r)
  BY StartFacts
<1>3. /\ SlotType' /\ OneHand'
      /\ \A s \in Slots : slot'[j][s] = r
      /\ \A i \in Jobs \ {j} : slot'[i] = slot[i]
      /\ InHand' = InHand \ {Hold(j, s) : s \in Slots}
  BY <1>1, <1>2, SlotsReset
<1>4. \A s \in Slots : Hold(j, s) = NoHold
  BY DEF SlotInv, RowOk, Hold
<1>5. InHand' = InHand
  BY <1>3, <1>4, InHandIs
<1>6. job'[j].pc = "probe" /\ \A i \in Jobs \ {j} : job'[i] = job[i]
  BY StartFacts DEF SetJob
<1>7. SlotInv'
  BY <1>2, <1>3, <1>6 DEF SlotInv
<1> QED
  BY <1>3, <1>5, <1>7

-----------------------------------------------------------------------------
(* A Job's batch and the steps of the other Jobs.                          *)

\* What no step undoes: a hold that is known stays known, one that is no
\* more stays so, and a record goes only when it is seen to.
Mono ==
  /\ Used \subseteq Used' /\ held' \intersect Used \subseteq held
  /\ orphaned \subseteq orphaned'
  /\ \A h \in Released : h \in Released' \/ SeenTo(h)'

LEMMA SeenToStays ==
  ASSUME Mono, NEW h \in Used, SeenTo(h)
  PROVE  SeenTo(h)'
BY DEF Mono, SeenTo

LEMMA HeadIn ==
  ASSUME NEW S, NEW list \in Seq(S), list # <<>>
  PROVE  /\ Head(list) \in ToSet(list) /\ Head(list) \in S
         /\ Tail(list) \in Seq(S) /\ ToSet(Tail(list)) \subseteq ToSet(list)
         /\ ToSet(list) \subseteq {Head(list)} \union ToSet(Tail(list))
<1>1. Len(list) \in Nat \ {0} /\ list[1] = Head(list) /\ 1 \in DOMAIN list
  OBVIOUS
<1>2. /\ Tail(list) \in Seq(S) /\ DOMAIN Tail(list) = 1..(Len(list) - 1)
      /\ \A i \in 1..(Len(list) - 1) : Tail(list)[i] = list[i + 1] /\ i + 1 \in DOMAIN list
  OBVIOUS
<1>3. ToSet(Tail(list)) \subseteq ToSet(list)
  BY <1>2 DEF ToSet
<1>4. ASSUME NEW i \in DOMAIN list
      PROVE  list[i] \in {Head(list)} \union ToSet(Tail(list))
  <2>1. CASE i = 1
    BY <1>1, <2>1
  <2>2. CASE i # 1
    <3>1. i - 1 \in 1..(Len(list) - 1) /\ (i - 1) + 1 = i
      BY <2>2
    <3>2. Tail(list)[i - 1] = list[i]
      BY <1>2, <3>1
    <3> QED
      BY <1>2, <3>1, <3>2 DEF ToSet
  <2> QED
    BY <2>1, <2>2
<1>5. ToSet(list) \subseteq {Head(list)} \union ToSet(Tail(list))
  BY <1>4 DEF ToSet
<1> QED
  BY <1>1, <1>2, <1>3, <1>5 DEF ToSet

\* The batch of a Job whose own draining did not move.
LEMMA BatchKept ==
  ASSUME Mono, job \in [Jobs -> JobState], NEW i \in Jobs, BatchOk(i),
         job'[i].pc = job[i].pc, job'[i].todo = job[i].todo
  PROVE  BatchOk(i)'
<1>1. job[i].todo \in Seq(Holds)
  BY DEF JobState
<1>2. ASSUME NEW h \in ToSet(job[i].todo)
      PROVE  h \in Used' /\ (h \in Released' \/ SeenTo(h)')
  BY SeenToStays DEF BatchOk, Mono
<1>3. ASSUME job[i].pc = "remove" PROVE SeenTo(Head(job[i].todo))'
  BY <1>1, <1>3, HeadIn, SeenToStays DEF BatchOk
<1> QED
  BY <1>2, <1>3 DEF BatchOk

LEMMA BatchesKept ==
  ASSUME Mono, job \in [Jobs -> JobState], BatchInv,
         \A i \in Jobs : job'[i].pc = job[i].pc /\ job'[i].todo = job[i].todo
  PROVE  BatchInv'
BY BatchKept DEF BatchInv

\* The batch of the Job that moves: what is left of it was in it before.
LEMMA BatchMoves ==
  ASSUME Mono, job \in [Jobs -> JobState], BatchInv, NEW j \in Jobs, NEW new \in JobState,
         SetJob(j, new), ToSet(new.todo) \subseteq ToSet(job[j].todo),
         new.pc = "remove" => new.todo # <<>> /\ \E h : h = Head(new.todo) /\ SeenTo(h)'
  PROVE  BatchInv' /\ job' \in [Jobs -> JobState]
<1>1. /\ job'[j] = new /\ \A i \in Jobs \ {j} : job'[i] = job[i]
      /\ job' \in [Jobs -> JobState]
  BY DEF SetJob
<1>2. ASSUME NEW h \in ToSet(new.todo)
      PROVE  h \in Used' /\ (h \in Released' \/ SeenTo(h)')
  BY SeenToStays DEF BatchInv, BatchOk, Mono
<1>3. BatchOk(j)'
  BY <1>1, <1>2 DEF BatchOk
<1>4. \A i \in Jobs \ {j} : BatchOk(i)'
  BY <1>1, BatchKept DEF BatchInv
<1> QED
  BY <1>1, <1>3, <1>4 DEF BatchInv

\* A step that changes neither the holds nor what is recorded about them.
LEMMA Quiet ==
  ASSUME CustodyInv, SlotType', SlotInv', OneHand', InHand' = InHand,
         UNCHANGED <<ktmbVars, queue, release, orphaned>>
  PROVE  /\ Mono /\ CustodyStep
         /\ BatchInv' /\ job' \in [Jobs -> JobState] => CustodyInv'
<1>1. UNCHANGED <<held, cancelled, over, queue, release, orphaned>>
  BY DEF ktmbVars
<1>2. Released' = Released /\ Used' = Used
  BY <1>1 DEF Released, Used
<1>3. Mono
  BY <1>1, <1>2 DEF Mono
<1>4. CustodyStep
  BY <1>1, <1>2, CustodyStutter DEF SameFor
<1>5. Known' /\ NoHoldForgotten'
  BY <1>1, <1>2 DEF CustodyInv, Known, NoHoldForgotten
<1>6. job' \in [Jobs -> JobState] => TypeOK'
  BY <1>1 DEF CustodyInv, TypeOK, SlotType
<1> QED
  BY <1>3, <1>4, <1>5, <1>6 DEF CustodyInv

LEMMA SlotsSame ==
  ASSUME SlotType, OneHand, SlotInv, UNCHANGED slot,
         \A i \in Jobs : job'[i].pc = "probe" \/ job[i].pc # "probe"
  PROVE  SlotType' /\ SlotInv' /\ OneHand' /\ InHand' = InHand
BY DEF SlotType, OneHand, SlotInv, InHand, RowOk

LEMMA InvParts ==
  ASSUME CustodyInv
  PROVE  /\ TypeOK /\ SlotType /\ SlotInv /\ OneHand /\ Known /\ BatchInv /\ NoHoldForgotten
         /\ job \in [Jobs -> JobState] /\ release \in Seq(Holds)
BY DEF CustodyInv, TypeOK, SlotType

LEMMA JobFacts ==
  ASSUME job \in [Jobs -> JobState], NEW j \in Jobs, NEW new, SetJob(j, new)
  PROVE  /\ job'[j] = new /\ \A i \in Jobs \ {j} : job'[i] = job[i]
         /\ job[j] \in JobState /\ job[j].todo \in Seq(Holds)
BY DEF SetJob, JobState

\* What a call of CancelBooking does, whatever it answers.
LEMMA CancelFacts ==
  ASSUME NEW h, NEW answer, CancelCall(h, answer), UNCHANGED <<release, orphaned>>
  PROVE  /\ Mono /\ Used' = Used /\ held' \subseteq held
         /\ answer \in {"confirmed", "terminal"} => h \notin held'
         /\ UNCHANGED <<held, cancelled>> \/ (h \in held /\ Cancelled(h))
<1>1. Released' = Released
  BY DEF Released
<1>2. CASE UNCHANGED ktmbVars
  <2>1. UNCHANGED <<held, cancelled, over>>
    BY <1>2 DEF ktmbVars
  <2>2. answer = "confirmed" => h \in held /\ h \notin held'
    BY <2>1 DEF CancelCall, Cancelled
  <2>3. answer = "terminal" => h \notin held'
    BY <2>1 DEF CancelCall, Cancelled
  <2> QED
    BY <1>1, <2>1, <2>2, <2>3 DEF Mono, Used
<1>3. CASE h \in held /\ Cancelled(h)
  <2>1. Used' = Used /\ held' \subseteq held /\ h \notin held'
    BY <1>3 DEF Cancelled, Used
  <2> QED
    BY <1>1, <1>3, <2>1 DEF Mono
<1> QED
  BY <1>2, <1>3 DEF CancelCall

-----------------------------------------------------------------------------
(* The steps of a Job.                                                     *)

LEMMA StartJobStep ==
  ASSUME CustodyInv, NEW j \in Jobs, StartJob(j)
  PROVE  CustodyInv' /\ CustodyStep
<1> USE InvParts
<1> DEFINE new == [NoJob EXCEPT !.pc = "start"]
<1>1. new \in JobState /\ new.pc = "start" /\ new.todo = <<>>
  BY StartFacts
<1> HIDE DEF new
<1>2. SetJob(j, new) /\ job[j].pc = "none" /\ UNCHANGED slot
  BY DEF StartJob, new
<1>3. SlotType' /\ SlotInv' /\ OneHand' /\ InHand' = InHand
  BY <1>1, <1>2, SlotsSame, JobFacts
<1>4. /\ Mono /\ CustodyStep
      /\ BatchInv' /\ job' \in [Jobs -> JobState] => CustodyInv'
  BY <1>3, Quiet DEF StartJob
<1>5. ToSet(new.todo) \subseteq ToSet(job[j].todo)
  BY <1>1 DEF ToSet
<1>6. BatchInv' /\ job' \in [Jobs -> JobState]
  BY <1>1, <1>2, <1>4, <1>5, BatchMoves
<1> QED
  BY <1>4, <1>6

\* Draining ends, at whatever point.
LEMMA ProbingStep ==
  ASSUME CustodyInv, Mono, NEW j \in Jobs, SetJob(j, Probing)
  PROVE  BatchInv' /\ job' \in [Jobs -> JobState]
<1>1. Probing \in JobState /\ Probing.pc = "probe" /\ Probing.todo = <<>>
  BY StartFacts
<1>2. ToSet(Probing.todo) \subseteq ToSet(job[j].todo)
  BY <1>1 DEF ToSet
<1> QED
  BY <1>1, <1>2, InvParts, BatchMoves

LEMMA DrainEndStep ==
  ASSUME CustodyInv, NEW j \in Jobs, job[j].pc # "probe",
         SetJob(j, Probing), StartSlots(j), UNCHANGED <<ktmbVars, queue, release, orphaned>>
  PROVE  CustodyInv' /\ CustodyStep
<1>1. SlotType' /\ SlotInv' /\ OneHand' /\ InHand' = InHand
  BY InvParts, SlotsStart
<1>2. /\ Mono /\ CustodyStep
      /\ BatchInv' /\ job' \in [Jobs -> JobState] => CustodyInv'
  BY <1>1, Quiet
<1> QED
  BY <1>2, ProbingStep

LEMMA NewestIs ==
  ASSUME release \in Seq(Holds)
  PROVE  Newest \in Seq(Holds) /\ ToSet(Newest) \subseteq Released
<1> DEFINE n == IF Len(release) < DrainLimit THEN Len(release) ELSE DrainLimit
<1>1. n \in 0..Len(release)
  BY ProberAssumption
<1> HIDE DEF n
<1>2. /\ SubSeq(release, 1, n) \in Seq(Holds)
      /\ DOMAIN SubSeq(release, 1, n) = 1..n
      /\ \A i \in 1..n : SubSeq(release, 1, n)[i] = release[i]
  BY <1>1
<1>3. Newest = SubSeq(release, 1, n)
  BY DEF Newest, n
<1> QED
  BY <1>1, <1>2, <1>3 DEF ToSet, Released

LEMMA ListStep ==
  ASSUME CustodyInv, NEW j \in Jobs, ListReleases(j)
  PROVE  CustodyInv' /\ CustodyStep
<1> USE InvParts
<1> DEFINE new == [job[j] EXCEPT !.pc = "drain", !.todo = Newest]
<1>1. CASE SetJob(j, Probing) /\ StartSlots(j)
  BY <1>1, DrainEndStep DEF ListReleases
<1>2. CASE SetJob(j, new) /\ UNCHANGED slot
  <2>1. job[j] \in JobState /\ Newest \in Seq(Holds) /\ ToSet(Newest) \subseteq Released
    BY NewestIs
  <2>2. new \in JobState /\ new.pc = "drain" /\ new.todo = Newest
    BY <2>1 DEF JobState
  <2> HIDE DEF new
  <2>3. job[j].pc = "start" /\ UNCHANGED <<ktmbVars, queue, release, orphaned>>
    BY DEF ListReleases
  <2>4. job'[j] = new /\ \A i \in Jobs \ {j} : job'[i] = job[i]
    BY <1>2, JobFacts
  <2>5. SlotType' /\ SlotInv' /\ OneHand' /\ InHand' = InHand
    BY <1>2, <2>3, <2>4, SlotsSame
  <2>6. /\ Mono /\ CustodyStep
        /\ BatchInv' /\ job' \in [Jobs -> JobState] => CustodyInv'
    BY <2>3, <2>5, Quiet
  <2>7. job' \in [Jobs -> JobState]
    BY <1>2, <2>2 DEF SetJob
  <2>8. \A i \in Jobs \ {j} : BatchOk(i)'
    BY <2>4, <2>6, BatchKept DEF BatchInv
  <2>9. Released' = Released /\ Used' = Used /\ Released \subseteq Used
    BY <2>3 DEF Released, Used, ktmbVars, Known
  <2>10. BatchOk(j)'
    BY <2>1, <2>2, <2>4, <2>9 DEF BatchOk
  <2> QED
    BY <2>6, <2>7, <2>8, <2>10 DEF BatchInv
<1> QED
  BY <1>1, <1>2 DEF ListReleases

\* A call of CancelBooking for a hold in hand or in the release list.
LEMMA CancelStep ==
  ASSUME CustodyInv, NEW h \in Holds, NEW answer, CancelCall(h, answer),
         h \in held => h \in InHand \union Released,
         UNCHANGED <<queue, release, orphaned>>,
         SlotType', SlotInv', OneHand', BatchInv', job' \in [Jobs -> JobState],
         InHand' = InHand \/ (InHand' = InHand \ {h} /\ answer = "confirmed")
  PROVE  CustodyInv' /\ CustodyStep
<1> USE InvParts
<1>1. /\ Used' = Used /\ held' \subseteq held
      /\ answer = "confirmed" => h \notin held'
      /\ UNCHANGED <<held, cancelled>> \/ (h \in held /\ Cancelled(h))
  BY CancelFacts
<1>2. Released' = Released
  BY DEF Released
<1>3. \A g \in Holds \ {h} : SameFor(g)
  BY <1>2 DEF SameFor
<1>4. CustodyStep
  <2>1. CASE InHand' = InHand /\ UNCHANGED <<held, cancelled>>
    BY <1>2, <2>1, CustodyStutter DEF SameFor
  <2>2. CASE InHand' = InHand /\ h \in held /\ Cancelled(h)
    <3>1. Owners(h)' = Owners(h)
      BY <1>2, <2>2 DEF Owners
    <3> QED
      BY <1>3, <2>2, <3>1, CustodyCancel
  <2>3. CASE InHand' = InHand \ {h} /\ answer = "confirmed"
    <3>1. h \in held /\ Cancelled(h)
      BY <2>3 DEF CancelCall
    <3>2. Owners(h)' = Owners(h) \ {"slot"}
      BY <1>2, <2>3 DEF Owners
    <3> QED
      BY <1>3, <3>1, <3>2, CustodyCancel
  <2> QED
    BY <1>1, <2>1, <2>2, <2>3
<1>5. TypeOK'
  <2>1. held' \subseteq Holds /\ cancelled' \subseteq Holds /\ over' \subseteq Holds
    BY <1>1 DEF TypeOK, CancelCall, Cancelled, ktmbVars
  <2> QED
    BY <2>1 DEF TypeOK, SlotType
<1>6. Known' /\ NoHoldForgotten'
  BY <1>1, <1>2 DEF Known, NoHoldForgotten
<1> QED
  BY <1>4, <1>5, <1>6 DEF CustodyInv

LEMMA DrainCancelStep ==
  ASSUME CustodyInv, NEW j \in Jobs, NEW answer, DrainCancel(j, answer)
  PROVE  CustodyInv' /\ CustodyStep
<1> USE InvParts
<1> PICK h : h = Head(job[j].todo)
  OBVIOUS
<1> DEFINE toRemove == [job[j] EXCEPT !.pc = "remove"]
           toNext == [job[j] EXCEPT !.todo = Tail(@)]
<1>1. /\ job[j] \in JobState /\ job[j].pc = "drain" /\ job[j].todo # <<>>
      /\ job[j].todo \in Seq(Holds)
      /\ h \notin Unreadable /\ CancelCall(h, answer)
      /\ UNCHANGED <<queue, release, orphaned>>
      /\ \/ answer \in {"confirmed", "terminal"} /\ SetJob(j, toRemove) /\ UNCHANGED slot
         \/ answer = "session" /\ SetJob(j, Probing) /\ StartSlots(j)
         \/ answer = "error" /\ SetJob(j, toNext) /\ UNCHANGED slot
  BY DEF DrainCancel, JobState
<1>2. /\ h \in ToSet(job[j].todo) /\ h \in Holds
      /\ Tail(job[j].todo) \in Seq(Holds) /\ ToSet(Tail(job[j].todo)) \subseteq ToSet(job[j].todo)
  BY <1>1, HeadIn
<1>3. toRemove \in JobState /\ toRemove.pc = "remove" /\ toRemove.todo = job[j].todo
  BY <1>1 DEF JobState
<1>4. toNext \in JobState /\ toNext.pc = "drain" /\ toNext.todo = Tail(job[j].todo)
  BY <1>1, <1>2 DEF JobState
<1>5. h \in held => h \in Released
  BY <1>1, <1>2 DEF BatchInv, BatchOk, SeenTo
<1> HIDE DEF toRemove, toNext
<1>6. Mono /\ (answer \in {"confirmed", "terminal"} => h \notin held')
  BY <1>1, CancelFacts
<1>7. CASE answer \in {"confirmed", "terminal"} /\ SetJob(j, toRemove) /\ UNCHANGED slot
  <2>1. SlotType' /\ SlotInv' /\ OneHand' /\ InHand' = InHand
    BY <1>1, <1>3, <1>7, SlotsSame, JobFacts
  <2>2. toRemove.todo # <<>> /\ h = Head(toRemove.todo) /\ SeenTo(h)'
    BY <1>1, <1>3, <1>6, <1>7 DEF SeenTo
  <2>3. BatchInv' /\ job' \in [Jobs -> JobState]
    BY <1>3, <1>6, <1>7, <2>2, BatchMoves
  <2> QED
    BY <1>1, <1>2, <1>5, <2>1, <2>3, CancelStep
<1>8. CASE answer = "session" /\ SetJob(j, Probing) /\ StartSlots(j)
  <2>1. SlotType' /\ SlotInv' /\ OneHand' /\ InHand' = InHand
    BY <1>1, <1>8, SlotsStart
  <2>2. BatchInv' /\ job' \in [Jobs -> JobState]
    BY <1>6, <1>8, ProbingStep
  <2> QED
    BY <1>1, <1>2, <1>5, <2>1, <2>2, CancelStep
<1>9. CASE answer = "error" /\ SetJob(j, toNext) /\ UNCHANGED slot
  <2>1. SlotType' /\ SlotInv' /\ OneHand' /\ InHand' = InHand
    BY <1>1, <1>4, <1>9, SlotsSame, JobFacts
  <2>2. BatchInv' /\ job' \in [Jobs -> JobState]
    BY <1>2, <1>4, <1>6, <1>9, BatchMoves
  <2> QED
    BY <1>1, <1>2, <1>5, <2>1, <2>2, CancelStep
<1> QED
  BY <1>1, <1>7, <1>8, <1>9

LEMMA DrainUnreadableStep ==
  ASSUME CustodyInv, NEW j \in Jobs, DrainUnreadable(j)
  PROVE  CustodyInv' /\ CustodyStep
<1> USE InvParts
<1> PICK h : h = Head(job[j].todo)
  OBVIOUS
<1> DEFINE toRemove == [job[j] EXCEPT !.pc = "remove"]
<1>1. /\ job[j] \in JobState /\ job[j].pc = "drain" /\ job[j].todo # <<>>
      /\ job[j].todo \in Seq(Holds)
      /\ h \in Unreadable /\ orphaned' = orphaned \union {h} /\ SetJob(j, toRemove)
      /\ UNCHANGED <<held, cancelled, over, queue, release, slot>>
  BY DEF DrainUnreadable, JobState, ktmbVars
<1>2. h \in ToSet(job[j].todo) /\ h \in Holds
  BY <1>1, HeadIn
<1>3. toRemove \in JobState /\ toRemove.pc = "remove" /\ toRemove.todo = job[j].todo
  BY <1>1 DEF JobState
<1>4. h \in Used /\ (h \in Released \/ h \in orphaned)
  BY <1>1, <1>2 DEF BatchInv, BatchOk, SeenTo
<1> HIDE DEF toRemove
<1>5. Released' = Released /\ Used' = Used
  BY <1>1 DEF Released, Used
<1>6. Mono
  BY <1>1, <1>5 DEF Mono
<1>7. SlotType' /\ SlotInv' /\ OneHand' /\ InHand' = InHand
  BY <1>1, <1>3, SlotsSame, JobFacts
<1>8. BatchInv' /\ job' \in [Jobs -> JobState]
  <2>1. toRemove.todo # <<>> /\ h = Head(toRemove.todo) /\ SeenTo(h)'
    BY <1>1, <1>3 DEF SeenTo
  <2> QED
    BY <1>1, <1>3, <1>6, <2>1, BatchMoves
<1>9. \A g \in Holds \ {h} : SameFor(g)
  BY <1>1, <1>5, <1>7 DEF SameFor
<1>10. CustodyStep
  <2>1. CASE h \in orphaned
    BY <1>1, <1>5, <1>7, <2>1, CustodyStutter DEF SameFor
  <2>2. CASE h \in Released
    <3>1. Owners(h)' = Owners(h) \union {"nobody"}
      BY <1>1, <1>5, <1>7 DEF Owners
    <3> QED
      BY <1>1, <1>2, <1>9, <2>2, <3>1, CustodyGiveUp
  <2> QED
    BY <1>4, <2>1, <2>2
<1>11. TypeOK'
  BY <1>1, <1>2, <1>7, <1>8 DEF TypeOK, SlotType
<1>12. Known' /\ NoHoldForgotten'
  BY <1>1, <1>4, <1>5, <1>7 DEF Known, NoHoldForgotten
<1> QED
  BY <1>7, <1>8, <1>10, <1>11, <1>12 DEF CustodyInv

LEMMA DrainRemoveStep ==
  ASSUME CustodyInv, NEW j \in Jobs, DrainRemove(j)
  PROVE  CustodyInv' /\ CustodyStep
<1> USE InvParts
<1> PICK h : h = Head(job[j].todo)
  OBVIOUS
<1> DEFINE toNext == [job[j] EXCEPT !.pc = "drain", !.todo = Tail(@)]
<1>1. /\ job[j] \in JobState /\ job[j].pc = "remove" /\ job[j].todo \in Seq(Holds)
      /\ UNCHANGED <<held, cancelled, over, queue, orphaned>>
  BY DEF DrainRemove, JobState, ktmbVars
<1>2. CASE SetJob(j, Probing) /\ StartSlots(j) /\ UNCHANGED release
  BY <1>1, <1>2, DrainEndStep DEF ktmbVars
<1>3. CASE release' = RemoveFirst(release, h) /\ SetJob(j, toNext) /\ UNCHANGED slot
  <2>1. job[j].todo # <<>> /\ SeenTo(h)
    BY <1>1 DEF BatchInv, BatchOk
  <2>2. /\ h \in ToSet(job[j].todo) /\ h \in Holds
        /\ Tail(job[j].todo) \in Seq(Holds)
        /\ ToSet(Tail(job[j].todo)) \subseteq ToSet(job[j].todo)
    BY <1>1, <2>1, HeadIn
  <2>3. toNext \in JobState /\ toNext.pc = "drain" /\ toNext.todo = Tail(job[j].todo)
    BY <1>1, <2>2 DEF JobState
  <2>4. /\ release' \in Seq(Holds)
        /\ Released' \subseteq Released /\ Released \ {h} \subseteq Released'
    BY <1>3, Removed DEF Released
  <2> HIDE DEF toNext
  <2>5. Used' = Used /\ SeenTo(h)'
    BY <1>1, <2>1 DEF Used, SeenTo
  <2>6. Mono
    BY <1>1, <2>4, <2>5 DEF Mono
  <2>7. SlotType' /\ SlotInv' /\ OneHand' /\ InHand' = InHand
    BY <1>1, <1>3, <2>3, SlotsSame, JobFacts
  <2>8. BatchInv' /\ job' \in [Jobs -> JobState]
    BY <1>3, <2>2, <2>3, <2>6, BatchMoves
  <2>9. \A g \in Holds \ {h} : SameFor(g)
    BY <1>1, <2>4, <2>7 DEF SameFor
  <2>10. h \notin held \/ h \in orphaned
    BY <2>1 DEF SeenTo
  <2>11. CustodyStep
    <3>1. CASE h \in Released' \/ h \notin Released
      <4>1. SameFor(h)
        BY <1>1, <2>4, <2>7, <3>1 DEF SameFor
      <4> QED
        BY <1>1, <2>9, <4>1, CustodyStutter
    <3>2. CASE h \notin Released' /\ h \in Released
      <4>1. Owners(h)' = Owners(h) \ {"backlog"}
        BY <1>1, <2>7, <3>2 DEF Owners
      <4> QED
        BY <1>1, <2>2, <2>9, <2>10, <4>1, CustodyForget
    <3> QED
      BY <3>1, <3>2
  <2>12. TypeOK'
    BY <1>1, <2>4, <2>7, <2>8 DEF TypeOK, SlotType
  <2>13. Known' /\ NoHoldForgotten'
    BY <1>1, <2>4, <2>5, <2>7, <2>10 DEF Known, NoHoldForgotten
  <2> QED
    BY <2>7, <2>8, <2>11, <2>12, <2>13 DEF CustodyInv
<1> QED
  BY <1>2, <1>3 DEF DrainRemove

LEMMA EndJobStep ==
  ASSUME CustodyInv, NEW j \in Jobs, EndJob(j)
  PROVE  CustodyInv' /\ CustodyStep
<1> USE InvParts
<1>1. NoJob \in JobState /\ NoJob.pc = "none" /\ NoJob.todo = <<>>
  BY StartFacts
<1>2. /\ SetJob(j, NoJob) /\ UNCHANGED <<ktmbVars, queue, release, orphaned, slot>>
      /\ \A s \in Slots : slot[j][s].pc = "done"
  BY DEF EndJob
<1>3. job'[j] = NoJob /\ \A i \in Jobs \ {j} : job'[i] = job[i]
  BY <1>2, JobFacts
<1>4. SlotType' /\ OneHand' /\ InHand' = InHand
  BY <1>2 DEF SlotType, OneHand, InHand
<1>5. SlotInv'
  BY <1>1, <1>2, <1>3 DEF SlotInv, RowOk
<1>6. /\ Mono /\ CustodyStep
      /\ BatchInv' /\ job' \in [Jobs -> JobState] => CustodyInv'
  BY <1>2, <1>4, <1>5, Quiet
<1>7. ToSet(NoJob.todo) \subseteq ToSet(job[j].todo)
  BY <1>1 DEF ToSet
<1>8. BatchInv' /\ job' \in [Jobs -> JobState]
  BY <1>1, <1>2, <1>6, <1>7, BatchMoves
<1> QED
  BY <1>6, <1>8

LEMMA CustodyDie ==
  ASSUME NEW S \in SUBSET Holds, S \subseteq InHand, UNCHANGED <<held, cancelled>>,
         \A h \in S : Owners(h)' = (Owners(h) \ {"slot"}) \union {"nobody"},
         \A h \in Holds \ S : SameFor(h)
  PROVE  CustodyStep
<1>1. \A h \in Holds :
        Owners(h)' = IF h \in S THEN (Owners(h) \ {"slot"}) \union {"nobody"} ELSE Owners(h)
  BY SameOwners
<1>2. \A h \in S : "slot" \in Owners(h)
  BY OwnersAre
<1>3. Abstract!Die(S)
  BY <1>1, <1>2 DEF Abstract!Die
<1> QED
  BY <1>3 DEF CustodyStep, Abstract!Next

LEMMA KillStep ==
  ASSUME CustodyInv, NEW j \in Jobs, KillJob(j)
  PROVE  CustodyInv' /\ CustodyStep
<1> USE InvParts
<1> PICK S : S = {Hold(j, s) : s \in Slots} \ {NoHold}
  OBVIOUS
<1>1. NoJob \in JobState /\ NoJob.pc = "none" /\ NoJob.todo = <<>>
  BY StartFacts
<1>2. /\ SetJob(j, NoJob) /\ orphaned' = orphaned \union S
      /\ slot' = [slot EXCEPT ![j] = [s \in Slots |-> SlotDone]]
      /\ UNCHANGED <<held, cancelled, over, queue, release>>
  BY DEF KillJob, ktmbVars
<1>3. S \subseteq Holds /\ S \subseteq InHand
  BY RowFacts
<1>4. job'[j] = NoJob /\ \A i \in Jobs \ {j} : job'[i] = job[i]
  BY <1>2, JobFacts
<1>5. /\ SlotType' /\ OneHand' /\ \A s \in Slots : slot'[j][s] = SlotDone
      /\ \A i \in Jobs \ {j} : slot'[i] = slot[i]
      /\ InHand' = InHand \ {Hold(j, s) : s \in Slots}
  BY <1>2, StartFacts, SlotsReset
<1>6. InHand' = InHand \ S
  BY <1>5, InHandIs
<1>7. SlotInv'
  BY <1>4, <1>5, StartFacts DEF SlotInv
<1>8. Released' = Released /\ Used' = Used
  BY <1>2 DEF Released, Used
<1>9. Mono
  BY <1>2, <1>8 DEF Mono
<1>10. BatchInv' /\ job' \in [Jobs -> JobState]
  <2>1. ToSet(NoJob.todo) \subseteq ToSet(job[j].todo)
    BY <1>1 DEF ToSet
  <2> QED
    BY <1>1, <1>2, <1>9, <2>1, BatchMoves
<1>11. CustodyStep
  <2>1. \A h \in Holds \ S : SameFor(h)
    BY <1>2, <1>6, <1>8 DEF SameFor
  <2>2. ASSUME NEW h \in S PROVE Owners(h)' = (Owners(h) \ {"slot"}) \union {"nobody"}
    BY <1>2, <1>6, <1>8 DEF Owners
  <2> QED
    BY <1>2, <1>3, <2>1, <2>2, CustodyDie
<1>12. TypeOK'
  BY <1>2, <1>3, <1>5, <1>10 DEF TypeOK, SlotType
<1>13. Known' /\ NoHoldForgotten'
  BY <1>2, <1>3, <1>6, <1>8 DEF Known, NoHoldForgotten
<1> QED
  BY <1>5, <1>7, <1>10, <1>11, <1>12, <1>13 DEF CustodyInv

-----------------------------------------------------------------------------
(* The steps of a slot that has no hold yet.                               *)

Pcs == {"done", "probe", "sent", "accept", "cancel", "persist"}

LEMMA RowTo ==
  ASSUME SlotType, NEW j \in Jobs, NEW s \in Slots, NEW at \in Pcs, SlotTo(j, s, at)
  PROVE  \E r \in SlotState :
           /\ SetSlot(j, s, r) /\ r.pc = at /\ r.hold = Hold(j, s)
           /\ r.got = slot[j][s].got /\ r.errors = slot[j][s].errors
           /\ r.failed = slot[j][s].failed
<1> DEFINE r == [slot[j][s] EXCEPT !.pc = at]
<1>1. slot[j][s] \in SlotState
  BY RowFacts
<1>2. /\ r \in SlotState /\ r.pc = at /\ r.hold = Hold(j, s)
      /\ r.got = slot[j][s].got /\ r.errors = slot[j][s].errors
      /\ r.failed = slot[j][s].failed
  BY <1>1 DEF SlotState, Pcs, Hold
<1>3. SetSlot(j, s, r)
  BY DEF SlotTo
<1> HIDE DEF r
<1> QED
  BY <1>2, <1>3

\* A step that only moves a slot on, whatever it does to the epoch.
LEMMA SlotQuiet ==
  ASSUME CustodyInv, NEW j \in Jobs, NEW s \in Slots, job[j].pc = "probe",
         NEW new \in SlotState, RowOk(new), new.hold = Hold(j, s), SetSlot(j, s, new),
         UNCHANGED <<ktmbVars, queue, release, orphaned>>,
         job' \in [Jobs -> JobState],
         \A i \in Jobs : job'[i].pc = job[i].pc /\ job'[i].todo = job[i].todo
  PROVE  CustodyInv' /\ CustodyStep
<1>1. SlotType' /\ SlotInv' /\ OneHand' /\ InHand' = InHand
  BY InvParts, SlotMoves
<1>2. /\ Mono /\ CustodyStep
      /\ BatchInv' /\ job' \in [Jobs -> JobState] => CustodyInv'
  BY <1>1, Quiet
<1> QED
  BY <1>2, InvParts, BatchesKept

\* ... and leaves the Job alone.
LEMMA SlotQuietJob ==
  ASSUME CustodyInv, NEW j \in Jobs, NEW s \in Slots, job[j].pc = "probe",
         NEW new \in SlotState, RowOk(new), new.hold = Hold(j, s), SetSlot(j, s, new),
         UNCHANGED <<ktmbVars, queue, release, orphaned, job>>
  PROVE  CustodyInv' /\ CustodyStep
<1>1. job' \in [Jobs -> JobState] /\ \A i \in Jobs : job'[i].pc = job[i].pc /\ job'[i].todo = job[i].todo
  BY InvParts
<1> QED
  BY <1>1, SlotQuiet

LEMMA Free ==
  ASSUME CustodyInv, NEW j \in Jobs, NEW s \in Slots, slot[j][s].pc \in {"probe", "sent"}
  PROVE  /\ Hold(j, s) = NoHold /\ slot[j][s].failed = 0 /\ slot[j][s].errors < ErrorLimit
         /\ slot[j][s].pc = "sent" => slot[j][s].got < Needed
BY InvParts DEF SlotInv, RowOk, Hold

LEMMA StopSlotStep ==
  ASSUME CustodyInv, NEW j \in Jobs, NEW s \in Slots, StopSlot(j, s)
  PROVE  CustodyInv' /\ CustodyStep
<1>1. job[j].pc = "probe" /\ slot[j][s].pc = "probe" /\ SlotTo(j, s, "done")
  BY DEF StopSlot, InSlot
<1>2. PICK r \in SlotState :
        SetSlot(j, s, r) /\ r.pc = "done" /\ r.hold = Hold(j, s) /\ r.failed = slot[j][s].failed
  BY <1>1, InvParts, RowTo DEF Pcs
<1>3. RowOk(r)
  BY <1>1, <1>2, Free DEF RowOk
<1> QED
  BY <1>1, <1>2, <1>3, SlotQuietJob DEF StopSlot

LEMMA SendStep ==
  ASSUME CustodyInv, NEW j \in Jobs, NEW s \in Slots, SendReserve(j, s)
  PROVE  CustodyInv' /\ CustodyStep
<1>1. /\ job[j].pc = "probe" /\ slot[j][s].pc = "probe" /\ SlotTo(j, s, "sent")
      /\ slot[j][s].got < Needed
  BY DEF SendReserve, InSlot
<1>2. PICK r \in SlotState :
        /\ SetSlot(j, s, r) /\ r.pc = "sent" /\ r.hold = Hold(j, s)
        /\ r.got = slot[j][s].got /\ r.errors = slot[j][s].errors /\ r.failed = slot[j][s].failed
  BY <1>1, InvParts, RowTo DEF Pcs
<1>3. RowOk(r)
  BY <1>1, <1>2, Free DEF RowOk
<1> QED
  BY <1>1, <1>2, <1>3, SlotQuietJob DEF SendReserve

\* The two ways a probe that brought nothing may go on.
LEMMA BackOk ==
  ASSUME CustodyInv, NEW j \in Jobs, NEW s \in Slots, slot[j][s].pc = "sent",
         NEW at \in {"done", "probe"}, SlotTo(j, s, at)
  PROVE  \E r \in SlotState :
           RowOk(r) /\ r.hold = Hold(j, s) /\ Hold(j, s) = NoHold /\ SetSlot(j, s, r)
<1>1. PICK r \in SlotState :
        /\ SetSlot(j, s, r) /\ r.pc = at /\ r.hold = Hold(j, s)
        /\ r.errors = slot[j][s].errors /\ r.failed = slot[j][s].failed
  BY InvParts, RowTo DEF Pcs
<1>2. RowOk(r)
  BY <1>1, Free DEF RowOk
<1> QED
  BY <1>1, <1>2, Free

LEMMA ErredOk ==
  ASSUME CustodyInv, NEW j \in Jobs, NEW s \in Slots, slot[j][s].pc = "sent", Erred(j, s)
  PROVE  \E r \in SlotState :
           RowOk(r) /\ r.hold = Hold(j, s) /\ Hold(j, s) = NoHold /\ SetSlot(j, s, r)
<1> DEFINE n == slot[j][s].errors + 1
           at == IF n >= ErrorLimit \/ job[j].cancelled THEN "done" ELSE "probe"
           r == [slot[j][s] EXCEPT !.errors = n, !.pc = at]
<1>1. /\ slot[j][s] \in SlotState /\ slot[j][s].errors \in 0..ErrorLimit
      /\ slot[j][s].errors < ErrorLimit
      /\ slot[j][s].failed = 0 /\ Hold(j, s) = NoHold
  BY InvParts, RowFacts, Free DEF SlotState
<1>2. n \in 0..ErrorLimit /\ at \in {"done", "probe"} /\ (at = "probe" => n < ErrorLimit)
  BY <1>1, ProberAssumption
<1>3. SetSlot(j, s, r)
  BY DEF Erred
<1> HIDE DEF n, at
<1>4. /\ r \in SlotState /\ r.pc = at /\ r.errors = n
      /\ r.hold = Hold(j, s) /\ r.failed = slot[j][s].failed
  BY <1>1, <1>2 DEF SlotState, Hold
<1> HIDE DEF r
<1>5. RowOk(r)
  BY <1>1, <1>2, <1>4 DEF RowOk
<1> QED
  BY <1>1, <1>3, <1>4, <1>5

LEMMA SessionDeadStep ==
  ASSUME CustodyInv, NEW j \in Jobs, NEW s \in Slots, SessionDead(j, s)
  PROVE  CustodyInv' /\ CustodyStep
<1> DEFINE dead == [job[j] EXCEPT !.cancelled = TRUE]
<1>1. /\ job[j].pc = "probe" /\ slot[j][s].pc = "sent" /\ SlotTo(j, s, "done")
      /\ UNCHANGED <<ktmbVars, queue, release, orphaned>>
  BY DEF SessionDead, InSlot
<1>2. SetJob(j, dead)
  BY DEF SessionDead
<1>3. dead \in JobState /\ dead.pc = job[j].pc /\ dead.todo = job[j].todo
  BY InvParts DEF JobState
<1> HIDE DEF dead
<1>4. /\ job' \in [Jobs -> JobState]
      /\ \A i \in Jobs : job'[i].pc = job[i].pc /\ job'[i].todo = job[i].todo
  BY <1>2, <1>3, InvParts DEF SetJob
<1> QED
  BY <1>1, <1>4, BackOk, SlotQuiet

LEMMA StaleDataStep ==
  ASSUME CustodyInv, NEW j \in Jobs, NEW s \in Slots, StaleData(j, s)
  PROVE  CustodyInv' /\ CustodyStep
<1> DEFINE r == [slot[j][s] EXCEPT !.refreshed = TRUE, !.pc = "probe"]
<1>1. /\ job[j].pc = "probe" /\ slot[j][s].pc = "sent"
      /\ UNCHANGED <<ktmbVars, queue, release, orphaned, job>>
      /\ SetSlot(j, s, r) \/ SlotTo(j, s, "done")
  BY DEF StaleData, InSlot
<1>2. slot[j][s] \in SlotState
  BY InvParts, RowFacts
<1>3. /\ r \in SlotState /\ r.pc = "probe" /\ r.hold = Hold(j, s)
      /\ r.errors = slot[j][s].errors /\ r.failed = slot[j][s].failed
  BY <1>2 DEF SlotState, Hold
<1> HIDE DEF r
<1>4. RowOk(r)
  BY <1>1, <1>3, Free DEF RowOk
<1> QED
  BY <1>1, <1>3, <1>4, BackOk, SlotQuietJob

LEMMA TryAgainStep ==
  ASSUME CustodyInv, NEW j \in Jobs, NEW s \in Slots, TryAgain(j, s)
  PROVE  CustodyInv' /\ CustodyStep
<1> PICK at \in {"done", "probe"} : at = IF job[j].cancelled THEN "done" ELSE "probe"
  OBVIOUS
<1>1. /\ job[j].pc = "probe" /\ slot[j][s].pc = "sent"
      /\ UNCHANGED <<ktmbVars, queue, release, orphaned, job>>
      /\ SlotTo(j, s, at) \/ Erred(j, s)
  BY DEF TryAgain, InSlot
<1> QED
  BY <1>1, BackOk, ErredOk, SlotQuietJob

-----------------------------------------------------------------------------
(* The steps that acquire a hold, deliver it or release it.                *)

\* KTMB gives a hold nobody has heard of.
LEMMA New ==
  ASSUME CustodyInv, NEW h \in Holds, Acquire(h)
  PROVE  /\ h \notin held /\ h \notin InHand /\ Owners(h) = {}
         /\ held' = held \union {h} /\ UNCHANGED <<cancelled, over>>
         /\ h \notin Used /\ Used' = Used \union {h}
<1>1. /\ h \notin held /\ h \notin cancelled /\ h \notin over
      /\ held' = held \union {h} /\ UNCHANGED <<cancelled, over>>
  BY DEF Acquire
<1>2. h \notin Used /\ Used' = Used \union {h}
  BY <1>1 DEF Used
<1>3. h \notin InHand /\ h \notin queue /\ h \notin Released /\ h \notin orphaned
  BY <1>2, InvParts DEF Known
<1> QED
  BY <1>1, <1>2, <1>3 DEF Owners

LEMMA AcquiredStep ==
  ASSUME CustodyInv, NEW j \in Jobs, NEW s \in Slots, NEW h \in Holds, Acquired(j, s, h)
  PROVE  CustodyInv' /\ CustodyStep
<1> USE InvParts
<1> DEFINE r == [slot[j][s] EXCEPT !.pc = "accept", !.hold = h, !.got = @ + 1]
<1>1. /\ job[j].pc = "probe" /\ slot[j][s].pc = "sent" /\ Acquire(h) /\ SetSlot(j, s, r)
      /\ UNCHANGED <<queue, release, orphaned, job>>
  BY DEF Acquired, InSlot
<1>2. /\ slot[j][s] \in SlotState /\ slot[j][s].got < Needed /\ slot[j][s].got \in 0..Needed
      /\ slot[j][s].errors < ErrorLimit /\ slot[j][s].failed = 0 /\ Hold(j, s) = NoHold
  BY <1>1, RowFacts, Free DEF SlotState
<1>3. slot[j][s].got + 1 \in 0..Needed
  BY <1>2, ProberAssumption
<1>4. /\ r \in SlotState /\ r.pc = "accept" /\ r.hold = h
      /\ r.errors = slot[j][s].errors /\ r.failed = slot[j][s].failed
  BY <1>2, <1>3 DEF SlotState
<1> HIDE DEF r
<1>5. RowOk(r)
  BY <1>2, <1>4, ProberAssumption DEF RowOk
<1>6. /\ h \notin held /\ h \notin InHand /\ Owners(h) = {} /\ h # NoHold
      /\ held' = held \union {h} /\ UNCHANGED <<cancelled, over>>
      /\ h \notin Used /\ Used' = Used \union {h}
  BY <1>1, New, ProberAssumption
<1>7. /\ SlotType' /\ SlotInv' /\ OneHand'
      /\ InHand' = (InHand \ {Hold(j, s)}) \union ({h} \ {NoHold})
  BY <1>1, <1>4, <1>5, <1>6, SlotChange
<1>8. InHand' = InHand \union {h} /\ Released' = Released
  BY <1>1, <1>2, <1>6, <1>7, InHandIs DEF Released
<1>9. Mono
  BY <1>1, <1>6, <1>8 DEF Mono
<1>10. BatchInv' /\ job' \in [Jobs -> JobState]
  BY <1>1, <1>9, BatchesKept
<1>11. CustodyStep
  <2>1. \A g \in Holds \ {h} : SameFor(g)
    BY <1>1, <1>8 DEF SameFor
  <2>2. h \notin queue' /\ h \notin Released' /\ h \notin orphaned'
    BY <1>1, <1>6, <1>8 DEF Known
  <2>3. Owners(h)' = {"slot"}
    BY <1>8, <2>2 DEF Owners
  <2> QED
    BY <1>6, <2>1, <2>3, CustodyAcquire
<1>12. TypeOK'
  BY <1>1, <1>6, <1>7, <1>10 DEF TypeOK, SlotType
<1>13. Known' /\ NoHoldForgotten'
  BY <1>1, <1>6, <1>8 DEF Known, NoHoldForgotten
<1> QED
  BY <1>7, <1>10, <1>11, <1>12, <1>13 DEF CustodyInv

LEMMA AcquiredUnseenStep ==
  ASSUME CustodyInv, NEW j \in Jobs, NEW s \in Slots, NEW h \in Holds, AcquiredUnseen(j, s, h)
  PROVE  CustodyInv' /\ CustodyStep
<1> USE InvParts
<1>1. /\ job[j].pc = "probe" /\ slot[j][s].pc = "sent" /\ Acquire(h)
      /\ orphaned' = orphaned \union {h} /\ UNCHANGED <<queue, release, job>>
      /\ Erred(j, s) \/ SlotTo(j, s, "done")
  BY DEF AcquiredUnseen, InSlot
<1>2. PICK r \in SlotState :
        RowOk(r) /\ r.hold = Hold(j, s) /\ Hold(j, s) = NoHold /\ SetSlot(j, s, r)
  BY <1>1, ErredOk, BackOk
<1>3. SlotType' /\ SlotInv' /\ OneHand' /\ InHand' = InHand
  BY <1>1, <1>2, SlotMoves
<1>4. /\ h \notin held /\ h \notin InHand /\ Owners(h) = {}
      /\ held' = held \union {h} /\ UNCHANGED <<cancelled, over>>
      /\ h \notin Used /\ Used' = Used \union {h}
  BY <1>1, New
<1>5. Released' = Released
  BY <1>1 DEF Released
<1>6. Mono
  BY <1>1, <1>4, <1>5 DEF Mono
<1>7. BatchInv' /\ job' \in [Jobs -> JobState]
  BY <1>1, <1>6, BatchesKept
<1>8. CustodyStep
  <2>1. \A g \in Holds \ {h} : SameFor(g)
    BY <1>1, <1>3, <1>5 DEF SameFor
  <2>2. h \notin InHand' /\ h \notin queue' /\ h \notin Released'
    BY <1>1, <1>3, <1>4, <1>5 DEF Known
  <2>3. Owners(h)' = {"nobody"}
    BY <1>1, <2>2 DEF Owners
  <2> QED
    BY <1>4, <2>1, <2>3, CustodyAcquire
<1>9. TypeOK'
  BY <1>1, <1>3, <1>4, <1>7 DEF TypeOK, SlotType
<1>10. Known' /\ NoHoldForgotten'
  BY <1>1, <1>3, <1>4, <1>5 DEF Known, NoHoldForgotten
<1> QED
  BY <1>3, <1>7, <1>8, <1>9, <1>10 DEF CustodyInv

LEMMA Busy ==
  ASSUME CustodyInv, NEW j \in Jobs, NEW s \in Slots,
         slot[j][s].pc \in {"accept", "cancel", "persist"}
  PROVE  /\ Hold(j, s) \in Holds /\ Hold(j, s) \in InHand /\ Hold(j, s) # NoHold
         /\ slot[j][s] \in SlotState
         /\ slot[j][s].failed = 0 /\ slot[j][s].errors < ErrorLimit
BY InvParts, RowFacts DEF SlotInv, RowOk, Hold

\* On to the release of the hold.
LEMMA ReleaseOk ==
  ASSUME CustodyInv, NEW j \in Jobs, NEW s \in Slots,
         slot[j][s].pc \in {"accept", "cancel", "persist"},
         NEW at \in {"cancel", "persist"}, SlotTo(j, s, at)
  PROVE  \E r \in SlotState : RowOk(r) /\ r.hold = Hold(j, s) /\ SetSlot(j, s, r)
<1>1. PICK r \in SlotState :
        /\ SetSlot(j, s, r) /\ r.pc = at /\ r.hold = Hold(j, s)
        /\ r.errors = slot[j][s].errors /\ r.failed = slot[j][s].failed
  BY InvParts, RowTo DEF Pcs
<1>2. RowOk(r)
  BY <1>1, Busy DEF RowOk
<1> QED
  BY <1>1, <1>2

\* The hold is out of the slot's hands and the slot goes on.
LEMMA GoesOn ==
  ASSUME CustodyInv, NEW j \in Jobs, NEW s \in Slots,
         slot[j][s].pc \in {"accept", "cancel", "persist"},
         SetSlot(j, s, [slot[j][s] EXCEPT !.pc = "probe", !.hold = NoHold, !.errors = 0])
  PROVE  \E r \in SlotState : RowOk(r) /\ r.hold = NoHold /\ SetSlot(j, s, r)
<1> DEFINE r == [slot[j][s] EXCEPT !.pc = "probe", !.hold = NoHold, !.errors = 0]
<1>1. slot[j][s] \in SlotState /\ slot[j][s].failed = 0
  BY Busy
<1>2. 0 \in 0..ErrorLimit /\ 0 < ErrorLimit
  BY ProberAssumption
<1>3. /\ r \in SlotState /\ r.pc = "probe" /\ r.hold = NoHold
      /\ r.errors = 0 /\ r.failed = slot[j][s].failed
  BY <1>1, <1>2 DEF SlotState
<1> HIDE DEF r
<1>4. RowOk(r)
  BY <1>1, <1>2, <1>3 DEF RowOk
<1> QED
  BY <1>3, <1>4 DEF r

\* ... or ends.
LEMMA Ends ==
  ASSUME CustodyInv, NEW j \in Jobs, NEW s \in Slots,
         slot[j][s].pc \in {"accept", "cancel", "persist"},
         SetSlot(j, s, [slot[j][s] EXCEPT !.pc = "done", !.hold = NoHold])
  PROVE  \E r \in SlotState : RowOk(r) /\ r.hold = NoHold /\ SetSlot(j, s, r)
<1> DEFINE r == [slot[j][s] EXCEPT !.pc = "done", !.hold = NoHold]
<1>1. slot[j][s] \in SlotState /\ slot[j][s].failed = 0
  BY Busy
<1>2. r \in SlotState /\ r.pc = "done" /\ r.hold = NoHold /\ r.failed = slot[j][s].failed
  BY <1>1 DEF SlotState
<1> HIDE DEF r
<1>3. RowOk(r)
  BY <1>1, <1>2 DEF RowOk
<1> QED
  BY <1>2, <1>3 DEF r

\* A slot hands its hold over: the holds at KTMB stay as they are.
LEMMA HandsOver ==
  ASSUME CustodyInv, NEW j \in Jobs, NEW s \in Slots, job[j].pc = "probe",
         slot[j][s].pc \in {"accept", "cancel", "persist"},
         NEW r \in SlotState, RowOk(r), r.hold = NoHold, SetSlot(j, s, r),
         UNCHANGED <<ktmbVars, job>>, release' \in Seq(Holds),
         NEW h, h = Hold(j, s),
         queue' = queue \/ queue' = queue \union {h},
         orphaned' = orphaned \/ orphaned' = orphaned \union {h},
         Released' = Released \/ Released' = Released \union {h},
         h \in queue' \union orphaned' \union Released'
  PROVE  CustodyInv' /\ InHand' = InHand \ {h} /\ \A g \in Holds \ {h} : SameFor(g)
<1> USE InvParts
<1>1. h \in Holds /\ h \in InHand /\ h # NoHold
  BY Busy
<1>2. /\ SlotType' /\ SlotInv' /\ OneHand'
      /\ InHand' = (InHand \ {h}) \union ({NoHold} \ {NoHold})
  BY SlotChange
<1>3. InHand' = InHand \ {h}
  BY <1>2
<1>4. UNCHANGED <<held, cancelled, over>> /\ Used' = Used
  BY DEF ktmbVars, Used
<1>5. Mono
  BY <1>4 DEF Mono
<1>6. BatchInv' /\ job' \in [Jobs -> JobState]
  BY <1>5, BatchesKept
<1>7. TypeOK'
  BY <1>1, <1>2, <1>4, <1>6 DEF TypeOK, SlotType
<1>8. Known' /\ NoHoldForgotten'
  BY <1>1, <1>3, <1>4 DEF Known, NoHoldForgotten
<1>9. \A g \in Holds \ {h} : SameFor(g)
  BY <1>3 DEF SameFor
<1> QED
  BY <1>2, <1>3, <1>6, <1>7, <1>8, <1>9 DEF CustodyInv

LEMMA EnqueueStep ==
  ASSUME CustodyInv, NEW j \in Jobs, NEW s \in Slots, Enqueue(j, s)
  PROVE  CustodyInv' /\ CustodyStep
<1> USE InvParts
<1> PICK h : h = Hold(j, s)
  OBVIOUS
<1> DEFINE goOn == SetSlot(j, s, [slot[j][s] EXCEPT !.pc = "probe", !.hold = NoHold, !.errors = 0])
<1>1. /\ job[j].pc = "probe" /\ slot[j][s].pc = "accept"
      /\ UNCHANGED <<ktmbVars, release, orphaned, job>>
  BY DEF Enqueue, InSlot
<1>2. UNCHANGED <<held, cancelled, over>> /\ Released' = Released /\ Used' = Used
  BY <1>1 DEF ktmbVars, Released, Used
<1>3. h \in Holds /\ h \in InHand /\ h # NoHold /\ h \in Used
  BY <1>1, Busy DEF Known
<1>4. CASE queue' = queue \union {h} /\ goOn
  <2>1. PICK r \in SlotState : RowOk(r) /\ r.hold = NoHold /\ SetSlot(j, s, r)
    BY <1>1, <1>4, GoesOn
  <2>2. CustodyInv' /\ InHand' = InHand \ {h} /\ \A g \in Holds \ {h} : SameFor(g)
    <3>1. /\ UNCHANGED <<ktmbVars, job>> /\ orphaned' = orphaned /\ release' \in Seq(Holds)
          /\ h \in queue' \union orphaned' \union Released'
      BY <1>1, <1>4
    <3> QED
      BY <1>1, <1>2, <1>4, <2>1, <3>1, HandsOver
  <2>3. Owners(h)' = (Owners(h) \ {"slot"}) \union {"buyers"}
    BY <1>1, <1>2, <1>4, <2>2 DEF Owners
  <2> QED
    BY <1>2, <1>3, <2>2, <2>3, CustodyHandOver
<1>5. CASE UNCHANGED queue /\ SlotTo(j, s, "cancel")
  BY <1>1, <1>5, ReleaseOk, SlotQuietJob
<1>6. CASE LostReplies /\ queue' = queue \union {h} /\ SlotTo(j, s, "cancel")
  <2>1. PICK r \in SlotState : RowOk(r) /\ r.hold = Hold(j, s) /\ SetSlot(j, s, r)
    BY <1>1, <1>6, ReleaseOk
  <2>2. SlotType' /\ SlotInv' /\ OneHand' /\ InHand' = InHand
    BY <1>1, <2>1, SlotMoves
  <2>3. Mono
    BY <1>1, <1>2 DEF Mono
  <2>4. BatchInv' /\ job' \in [Jobs -> JobState]
    BY <1>1, <2>3, BatchesKept
  <2>5. CustodyStep
    <3>1. \A g \in Holds \ {h} : SameFor(g)
      BY <1>1, <1>2, <1>6, <2>2 DEF SameFor
    <3>2. Owners(h)' = Owners(h) \union {"buyers"}
      BY <1>1, <1>2, <1>6, <2>2 DEF Owners
    <3> QED
      BY <1>2, <1>3, <1>6, <3>1, <3>2, CustodyDoubt
  <2>6. TypeOK'
    BY <1>1, <1>2, <1>3, <1>6, <2>2, <2>4 DEF TypeOK, SlotType
  <2>7. Known' /\ NoHoldForgotten'
    BY <1>1, <1>2, <1>3, <1>6, <2>2 DEF Known, NoHoldForgotten
  <2> QED
    BY <2>2, <2>4, <2>5, <2>6, <2>7 DEF CustodyInv
<1> QED
  BY <1>4, <1>5, <1>6 DEF Enqueue

LEMMA CancelHoldStep ==
  ASSUME CustodyInv, NEW j \in Jobs, NEW s \in Slots, NEW answer, CancelHold(j, s, answer)
  PROVE  CustodyInv' /\ CustodyStep
<1> USE InvParts
<1> PICK h : h = Hold(j, s)
  OBVIOUS
<1> DEFINE goOn == SetSlot(j, s, [slot[j][s] EXCEPT !.pc = "probe", !.hold = NoHold, !.errors = 0])
           done == SetSlot(j, s, [slot[j][s] EXCEPT !.pc = "done", !.hold = NoHold])
<1>1. /\ job[j].pc = "probe" /\ slot[j][s].pc = "cancel" /\ CancelCall(h, answer)
      /\ UNCHANGED <<queue, release, orphaned, job>>
      /\ (answer = "confirmed" /\ (goOn \/ done)) \/ SlotTo(j, s, "persist")
  BY DEF CancelHold, InSlot
<1> HIDE DEF goOn, done
<1>2. h \in Holds /\ h \in InHand /\ h # NoHold
  BY <1>1, Busy
<1>3. Mono
  BY <1>1, CancelFacts
<1>4. BatchInv' /\ job' \in [Jobs -> JobState]
  BY <1>1, <1>3, BatchesKept
<1>5. CASE answer = "confirmed" /\ (goOn \/ done)
  <2>1. PICK r \in SlotState : RowOk(r) /\ r.hold = NoHold /\ SetSlot(j, s, r)
    BY <1>1, <1>5, GoesOn, Ends DEF goOn, done
  <2>2. /\ SlotType' /\ SlotInv' /\ OneHand'
        /\ InHand' = (InHand \ {h}) \union ({NoHold} \ {NoHold})
    BY <1>1, <2>1, SlotChange
  <2>3. InHand' = InHand \ {h}
    BY <2>2
  <2> QED
    BY <1>1, <1>2, <1>4, <1>5, <2>2, <2>3, CancelStep
<1>6. CASE SlotTo(j, s, "persist")
  <2>1. PICK r \in SlotState : RowOk(r) /\ r.hold = Hold(j, s) /\ SetSlot(j, s, r)
    BY <1>1, <1>6, ReleaseOk
  <2>2. SlotType' /\ SlotInv' /\ OneHand' /\ InHand' = InHand
    BY <1>1, <2>1, SlotMoves
  <2> QED
    BY <1>1, <1>2, <1>4, <2>2, CancelStep
<1> QED
  BY <1>1, <1>5, <1>6

LEMMA Pushed ==
  ASSUME NEW S, NEW list \in Seq(S), NEW e \in S
  PROVE  <<e>> \o list \in Seq(S) /\ ToSet(<<e>> \o list) = {e} \union ToSet(list)
<1> DEFINE r == <<e>> \o list
<1>1. /\ r \in Seq(S) /\ DOMAIN r = 1..(Len(list) + 1)
      /\ r[1] = e /\ \A i \in 1..Len(list) : r[i + 1] = list[i]
  OBVIOUS
<1> HIDE DEF r
<1>2. ASSUME NEW i \in DOMAIN r PROVE r[i] = e \/ r[i] \in ToSet(list)
  <2>1. CASE i = 1
    BY <1>1, <2>1
  <2>2. CASE i # 1
    <3>1. i - 1 \in 1..Len(list) /\ (i - 1) + 1 = i
      BY <1>1, <2>2
    <3>2. r[i] = list[i - 1]
      BY <1>1, <3>1
    <3> QED
      BY <3>1, <3>2 DEF ToSet
  <2> QED
    BY <2>1, <2>2
<1>3. ASSUME NEW i \in DOMAIN list PROVE list[i] \in ToSet(r)
  <2>1. i + 1 \in DOMAIN r /\ r[i + 1] = list[i]
    BY <1>1
  <2> QED
    BY <2>1 DEF ToSet
<1>4. e \in ToSet(r)
  <2>1. 1 \in DOMAIN r
    BY <1>1
  <2> QED
    BY <1>1, <2>1 DEF ToSet
<1>5. ToSet(r) = {e} \union ToSet(list)
  BY <1>2, <1>3, <1>4 DEF ToSet
<1> QED
  BY <1>1, <1>5 DEF r

LEMMA PersistStep ==
  ASSUME CustodyInv, NEW j \in Jobs, NEW s \in Slots, Persist(j, s)
  PROVE  CustodyInv' /\ CustodyStep
<1> USE InvParts
<1> PICK h : h = Hold(j, s)
  OBVIOUS
<1> DEFINE r == [slot[j][s] EXCEPT !.pc = "done", !.hold = NoHold, !.failed = @ + 1]
<1>1. /\ job[j].pc = "probe" /\ slot[j][s].pc = "persist" /\ SetSlot(j, s, r)
      /\ UNCHANGED <<ktmbVars, queue, job>>
  BY DEF Persist, InSlot
<1>2. UNCHANGED <<held, cancelled, over>>
  BY <1>1 DEF ktmbVars
<1>3. h \in Holds /\ h \in InHand /\ slot[j][s] \in SlotState /\ slot[j][s].failed = 0
  BY <1>1, Busy
<1>4. slot[j][s].failed + 1 \in 0..Needed /\ slot[j][s].failed + 1 = 1
  BY <1>3, ProberAssumption
<1>5. r \in SlotState /\ r.pc = "done" /\ r.hold = NoHold /\ r.failed = 1
  BY <1>3, <1>4 DEF SlotState
<1> HIDE DEF r
<1>6. RowOk(r)
  BY <1>5 DEF RowOk
<1> DEFINE Push == release' = <<h>> \o release
           GaveUp == orphaned' = orphaned \union {h}
<1>7. \/ Push /\ UNCHANGED orphaned
      \/ UNCHANGED release /\ GaveUp
      \/ LostReplies /\ Push /\ GaveUp
  BY DEF Persist
<1>8. Push => release' \in Seq(Holds) /\ Released' = Released \union {h}
  BY <1>3, Pushed DEF Released
<1>9. UNCHANGED release => release' \in Seq(Holds) /\ Released' = Released
  BY DEF Released
<1> HIDE DEF Push
<1>10. UNCHANGED <<ktmbVars, job>> /\ queue' = queue
  BY <1>1
<1>11. CASE Push /\ UNCHANGED orphaned
  <2>1. CustodyInv' /\ InHand' = InHand \ {h} /\ \A g \in Holds \ {h} : SameFor(g)
    <3>1. orphaned' = orphaned /\ h \in queue' \union orphaned' \union Released'
      BY <1>8, <1>11
    <3> QED
      BY <1>1, <1>5, <1>6, <1>8, <1>10, <1>11, <3>1, HandsOver
  <2>2. Owners(h)' = (Owners(h) \ {"slot"}) \union {"backlog"}
    BY <1>1, <1>8, <1>11, <2>1 DEF Owners
  <2> QED
    BY <1>2, <1>3, <2>1, <2>2, CustodyHandOver
<1>12. CASE UNCHANGED release /\ GaveUp
  <2>1. CustodyInv' /\ InHand' = InHand \ {h} /\ \A g \in Holds \ {h} : SameFor(g)
    <3>1. h \in queue' \union orphaned' \union Released'
      BY <1>12
    <3> QED
      BY <1>1, <1>5, <1>6, <1>9, <1>10, <1>12, <3>1, HandsOver
  <2>2. Owners(h)' = (Owners(h) \ {"slot"}) \union {"nobody"}
    BY <1>1, <1>9, <1>12, <2>1 DEF Owners
  <2> QED
    BY <1>2, <1>3, <2>1, <2>2, CustodyHandOver
<1>13. CASE LostReplies /\ Push /\ GaveUp
  <2>1. CustodyInv' /\ InHand' = InHand \ {h} /\ \A g \in Holds \ {h} : SameFor(g)
    <3>1. h \in queue' \union orphaned' \union Released'
      BY <1>13
    <3> QED
      BY <1>1, <1>5, <1>6, <1>8, <1>10, <1>13, <3>1, HandsOver
  <2>2. Owners(h)' = (Owners(h) \ {"slot"}) \union {"backlog", "nobody"}
    BY <1>1, <1>8, <1>13, <2>1 DEF Owners
  <2> QED
    BY <1>2, <1>3, <1>13, <2>1, <2>2, CustodyDoubt
<1> QED
  BY <1>7, <1>11, <1>12, <1>13

\* A hold ends: paid for, or run out.
LEMMA OverStep ==
  ASSUME CustodyInv, NEW h \in Holds, h \in held, Over(h),
         UNCHANGED <<queue, release, orphaned, job, slot>>
  PROVE  CustodyInv' /\ CustodyStep
<1> USE InvParts
<1>1. held' = held \ {h} /\ over' = over \union {h} /\ cancelled' = cancelled
  BY DEF Over
<1>2. SlotType' /\ SlotInv' /\ OneHand' /\ InHand' = InHand
  BY SlotsSame DEF SlotType, SlotInv, OneHand, InHand, RowOk
<1>3. Released' = Released /\ Used' = Used
  BY <1>1 DEF Released, Used
<1>4. Mono
  BY <1>1, <1>3 DEF Mono
<1>5. BatchInv' /\ job' \in [Jobs -> JobState]
  BY <1>4, BatchesKept
<1>6. \A g \in Holds : SameFor(g)
  BY <1>2, <1>3 DEF SameFor
<1>7. TypeOK'
  BY <1>1, <1>2, <1>5 DEF TypeOK, SlotType
<1>8. Known' /\ NoHoldForgotten'
  BY <1>1, <1>2, <1>3 DEF Known, NoHoldForgotten
<1> QED
  BY <1>2, <1>5, <1>6, <1>7, <1>8, CustodyEnd DEF CustodyInv

-----------------------------------------------------------------------------
(* The invariant and what follows from it.                                 *)

LEMMA CustodyInit ==
  ASSUME Init
  PROVE  CustodyInv /\ Abstract!Init
<1>1. /\ SlotDone \in SlotState /\ SlotDone.pc = "done" /\ SlotDone.hold = NoHold /\ RowOk(SlotDone)
      /\ NoJob \in JobState /\ NoJob.pc = "none" /\ NoJob.todo = <<>>
  BY StartFacts
<1>2. /\ held = {} /\ cancelled = {} /\ over = {} /\ queue = {} /\ release = <<>> /\ orphaned = {}
      /\ job = [j \in Jobs |-> NoJob] /\ slot = [j \in Jobs |-> [s \in Slots |-> SlotDone]]
  BY DEF Init
<1>3. TypeOK
  BY <1>1, <1>2 DEF TypeOK
<1>4. SlotInv /\ OneHand
  BY <1>1, <1>2 DEF SlotInv, OneHand
<1>5. InHand = {} /\ Released = {}
  <2>1. InHand = {}
    BY <1>1, <1>2, InHandIs
  <2> QED
    BY <1>2, <2>1 DEF Released, ToSet
<1>6. Known /\ NoHoldForgotten
  BY <1>2, <1>5 DEF Known, NoHoldForgotten
<1>7. BatchInv
  BY <1>1, <1>2 DEF BatchInv, BatchOk, ToSet
<1>8. \A h \in Holds : Owners(h) = {}
  BY <1>2, <1>5 DEF Owners
<1>9. Abstract!Init
  BY <1>2, <1>8 DEF Abstract!Init
<1> QED
  BY <1>3, <1>4, <1>6, <1>7, <1>9 DEF CustodyInv

LEMMA CustodyNext ==
  ASSUME CustodyInv, [Next]_vars
  PROVE  CustodyInv' /\ CustodyStep
<1>1. ASSUME NEW j \in Jobs, DrainStep(j)
      PROVE  CustodyInv' /\ CustodyStep
  <2>1. DrainEnd(j) => CustodyInv' /\ CustodyStep
    BY DrainEndStep DEF DrainEnd
  <2> QED
    BY <1>1, <2>1, ListStep, DrainCancelStep, DrainUnreadableStep, DrainRemoveStep DEF DrainStep
<1>2. ASSUME NEW j \in Jobs, NEW s \in Slots, SlotStep(j, s)
      PROVE  CustodyInv' /\ CustodyStep
  BY <1>2, StopSlotStep, SendStep, AcquiredStep, AcquiredUnseenStep, SessionDeadStep,
     StaleDataStep, TryAgainStep, EnqueueStep, CancelHoldStep, PersistStep DEF SlotStep
<1>3. ASSUME NEW h \in Holds, Expire(h) \/ Use(h)
      PROVE  CustodyInv' /\ CustodyStep
  BY <1>3, OverStep DEF Expire, Use
<1>4. CASE UNCHANGED vars
  <2>1. /\ UNCHANGED <<held, cancelled, over, queue, release, orphaned, job, slot>>
    BY <1>4 DEF vars
  <2>2. SlotType' /\ SlotInv' /\ OneHand' /\ InHand' = InHand
    BY <2>1, InvParts DEF SlotType, SlotInv, OneHand, InHand, RowOk
  <2>3. /\ Mono /\ CustodyStep
        /\ BatchInv' /\ job' \in [Jobs -> JobState] => CustodyInv'
    BY <2>1, <2>2, Quiet DEF ktmbVars
  <2> QED
    BY <2>1, <2>3, InvParts, BatchesKept
<1> QED
  BY <1>1, <1>2, <1>3, <1>4, StartJobStep, EndJobStep, KillStep DEF Next, JobStep

LEMMA CustodyAlways == Spec => []CustodyInv
BY CustodyInit, CustodyNext, PTL DEF Spec

(* Every variable keeps its type, whatever the limits: a slot never counts *)
(* more holds than it may acquire nor more errors than its limit.          *)
THEOREM TypeCorrect == Spec => []TypeOK
<1>1. CustodyInv => TypeOK
  BY DEF CustodyInv
<1> QED
  BY <1>1, CustodyAlways, PTL

(* A hold KTMB keeps for us is in a slot's hands, with the buyers, in the  *)
(* release list or logged as given up, through lost replies, kills and     *)
(* Jobs that cancel and remove the same release entries.                   *)
THEOREM NoHoldIsForgotten == Spec => []NoHoldForgotten
<1>1. CustodyInv => NoHoldForgotten
  BY DEF CustodyInv
<1> QED
  BY <1>1, CustodyAlways, PTL

(* A slot ends with the first hold it could neither deliver nor release.   *)
THEOREM SlotStopsAtOrphan == Spec => []OneOrphanPerSlot
<1>1. CustodyInv => OneOrphanPerSlot
  BY DEF CustodyInv, SlotInv, RowOk, OneOrphanPerSlot
<1> QED
  BY <1>1, CustodyAlways, PTL

(* The Jobs, with all their interleavings and failures, keep custody of    *)
(* the holds as Custody says: each step of a Job, a slot, the buyers or    *)
(* KTMB is a step of Custody or changes nothing it speaks of.              *)
THEOREM JobsKeepCustody == Spec => ImplementsCustody
<1>1. Init => Abstract!Init
  BY CustodyInit
<1>2. CustodyInv /\ [Next]_vars => [Abstract!Next]_(Abstract!vars)
  BY CustodyNext DEF CustodyStep
<1> QED
  BY <1>1, <1>2, CustodyAlways, PTL DEF Spec, ImplementsCustody, Abstract!Spec
=============================================================================
