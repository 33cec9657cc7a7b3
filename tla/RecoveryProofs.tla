--------------------------- MODULE RecoveryProofs ---------------------------
(***************************************************************************)
(* What holds of Recovery for every set of bookings, buyers and bounds:    *)
(* with lost replies, crashes and the manual command.                      *)
(***************************************************************************)
EXTENDS Recovery, TLAPS

Ops == {"buying", "revert", "recovering", "recoverRevert", "complete",
        "duplicate", "manual"}

ZincType ==
  /\ booking \in [Bookings -> Row]
  /\ clock \in [Bookings -> Clock]
  /\ sold \in Seq(Bookings) /\ Len(sold) <= MaxTickets
  /\ queue \in Seq(Item)
  /\ faults \in 0..MaxFaults

\* A process that is not idle has a booking in hand.
BuyerType ==
  /\ buyer \in [Buyers -> BuyerState]
  /\ \A y \in Buyers : buyer[y].pc # "idle" => buyer[y].b \in Bookings

WorkType ==
  /\ work \in [Workers -> WorkState]
  /\ \A w \in Workers : work[w].pc # "idle" => work[w].item \in Item

TypeInv == ZincType /\ BuyerType /\ WorkType /\ cycle \in CycleState

-----------------------------------------------------------------------------
(* The endpoints keep the row's type.                                      *)

LEMMA ZeroNo == 0 \in KtmbNo
BY ZincAssumption DEF KtmbNo

LEMMA AfterType ==
  ASSUME booking \in [Bookings -> Row],
         NEW op \in Ops, NEW b \in Bookings, NEW no \in KtmbNo,
         Admits(op, b)
  PROVE  After(op, b, no) \in Row
<1>1. booking[b] \in Row
  OBVIOUS
<1>2. To(op) \in Status
  BY DEF Ops, To, Status, Live, Refunding
<1>3. op = "recoverRevert" => booking[b].retries + 1 \in 0..MaxRetries
  BY <1>1, ZincAssumption DEF Admits, InBudget, Row
<1> QED
  BY <1>1, <1>2, <1>3 DEF After, Row

LEMMA PostType ==
  ASSUME booking \in [Bookings -> Row], faults \in 0..MaxFaults,
         NEW op \in Ops, NEW b \in Bookings, NEW no \in KtmbNo,
         NEW reply, Post(op, b, no, reply)
  PROVE  booking' \in [Bookings -> Row] /\ faults' \in 0..MaxFaults
<1>1. ASSUME Commit(op, b, no) PROVE booking' \in [Bookings -> Row]
  BY <1>1, AfterType DEF Commit
<1>2. ASSUME Fault PROVE faults' \in 0..MaxFaults
  BY <1>2, ZincAssumption DEF Fault
<1> QED
  BY <1>1, <1>2 DEF Post

LEMMA PushType ==
  ASSUME queue \in Seq(Item), faults \in 0..MaxFaults,
         NEW item \in Item, NEW reply, PushItem(item, reply)
  PROVE  queue' \in Seq(Item) /\ faults' \in 0..MaxFaults
<1>1. ASSUME Fault PROVE faults' \in 0..MaxFaults
  BY <1>1, ZincAssumption DEF Fault
<1> QED
  BY <1>1 DEF PushItem
-----------------------------------------------------------------------------
(* The buyer.                                                              *)

LEMMA GotoType ==
  ASSUME BuyerType, NEW y \in Buyers, buyer[y].pc # "idle",
         NEW pc \in BuyerPc, Goto(y, pc)
  PROVE  BuyerType'
<1>1. BuyerIdle \in BuyerState
  BY ZincAssumption DEF BuyerIdle, BuyerState, BuyerPc, KtmbNo
<1>2. [buyer[y] EXCEPT !.pc = pc, !.tries = 0] \in BuyerState
  BY DEF BuyerType, BuyerState
<1>3. buyer' \in [Buyers -> BuyerState]
  BY <1>1, <1>2 DEF Goto, BuyerType
<1>4. ASSUME NEW x \in Buyers, buyer'[x].pc # "idle"
      PROVE  buyer'[x].b \in Bookings
  BY <1>4 DEF Goto, BuyerType, BuyerState, BuyerIdle
<1> QED
  BY <1>3, <1>4 DEF BuyerType

LEMMA AgainType ==
  ASSUME BuyerType, NEW y \in Buyers, buyer[y].pc # "idle",
         NEW retries, NEW giveUp \in BuyerPc, Again(y, retries, giveUp)
  PROVE  BuyerType'
<1>1. CASE buyer[y].tries + 1 < retries
  <2>1. [buyer[y] EXCEPT !.tries = @ + 1] \in BuyerState
    BY DEF BuyerType, BuyerState
  <2>2. buyer' = [buyer EXCEPT ![y] = [buyer[y] EXCEPT !.tries = @ + 1]]
    BY <1>1 DEF Again
  <2> QED
    BY <2>1, <2>2 DEF BuyerType, BuyerState
<1>2. CASE ~(buyer[y].tries + 1 < retries)
  BY <1>2, GotoType DEF Again
<1> QED
  BY <1>1, <1>2

LEMMA BuyerStepType ==
  ASSUME TypeInv, NEW y \in Buyers, BuyerStep(y)
  PROVE  ZincType' /\ BuyerType'
<1> USE DEF TypeInv
<1>pc. BuyerPc = {"idle", "postBuying", "setPassenger", "pay", "complete",
            "printTicket", "completeWithZinc", "pushRecover",
            "transitionRecovering", "revert"}
  BY DEF BuyerPc
<1>b. buyer[y].pc # "idle" => buyer[y].b \in Bookings /\ buyer[y].no \in KtmbNo
  BY DEF BuyerType, BuyerState
<1>f. ASSUME Fault PROVE faults' \in 0..MaxFaults
  BY <1>f, ZincAssumption DEF Fault, ZincType
<1>1. CASE PostBuying(y)
  <2>1. PICK reply \in Reply :
          /\ Post("buying", buyer[y].b, 0, reply)
          /\ IF reply = "ok" THEN Goto(y, "setPassenger") ELSE Stop(y)
    BY <1>1 DEF PostBuying
  <2>2. BuyerType'
    BY <1>1, <2>1, <1>pc, GotoType DEF PostBuying, Stop
  <2> QED
    BY <1>1, <2>1, <2>2, <1>b, ZeroNo, PostType DEF PostBuying, ZincType, Ops
<1>2. CASE SetPassenger(y)
  <2>1. BuyerType'
    BY <1>2, <1>pc, GotoType DEF SetPassenger, Stop
  <2> QED
    BY <1>2, <2>1, <1>f DEF SetPassenger, ZincType
<1>3. CASE Pay(y)
  <2>1. BuyerType'
    BY <1>3, <1>pc, GotoType DEF Pay, Stop
  <2> QED
    BY <1>3, <2>1, <1>f DEF Pay, ZincType
<1>4. CASE Complete(y)
  <2>1. CASE Len(sold) < MaxTickets /\ Capture(y)
    <3>1. sold' \in Seq(Bookings) /\ Len(sold') = Len(sold) + 1
      BY <2>1, <1>4, <1>b DEF Capture, ZincType, Complete
    <3>2. Len(sold) + 1 \in KtmbNo
      BY <2>1, ZincAssumption DEF ZincType, KtmbNo
    <3>3. ASSUME buyer' = [buyer EXCEPT ![y].pc = "printTicket",
                                        ![y].no = Len(sold) + 1]
          PROVE  BuyerType'
      <4>1. [buyer[y] EXCEPT !.pc = "printTicket", !.no = Len(sold) + 1] \in BuyerState
        BY <3>2, <1>pc DEF BuyerType, BuyerState
      <4> QED
        BY <4>1, <3>3, <1>4, <1>b DEF BuyerType, BuyerState, Complete
    <3>4. ASSUME Goto(y, "pushRecover") \/ Stop(y) PROVE BuyerType'
      BY <3>4, <1>4, <1>pc, GotoType DEF Complete, Stop
    <3>5. BuyerType'
      BY <1>4, <2>1, <3>3, <3>4 DEF Complete
    <3> QED
      BY <1>4, <2>1, <3>1, <3>2, <3>5, <1>f, ZincAssumption DEF Complete, ZincType, KtmbNo
  <2>2. CASE Fault /\ Stop(y) /\ UNCHANGED sold
    BY <1>4, <2>2, <1>pc, <1>f, GotoType DEF Complete, Stop, ZincType
  <2> QED
    BY <1>4, <2>1, <2>2 DEF Complete
<1>5. CASE PrintTicket(y)
  <2>1. BuyerType'
    BY <1>5, <1>pc, GotoType DEF PrintTicket
  <2> QED
    BY <1>5, <2>1, <1>f DEF PrintTicket, ZincType
<1>6. CASE CompleteWithZinc(y)
  <2>1. PICK reply \in Reply :
          /\ Post("complete", buyer[y].b, buyer[y].no, reply)
          /\ IF reply = "ok" THEN Stop(y)
             ELSE Again(y, CompleteRetries, "pushRecover")
    BY <1>6 DEF CompleteWithZinc
  <2>2. BuyerType'
    BY <1>6, <2>1, <1>pc, GotoType, AgainType DEF CompleteWithZinc, Stop
  <2> QED
    BY <1>6, <2>1, <2>2, <1>b, PostType DEF CompleteWithZinc, ZincType, Ops
<1>7. CASE PushRecover(y)
  <2> DEFINE item == [b |-> buyer[y].b, no |-> buyer[y].no, attempts |-> 0]
  <2>1. PICK reply \in Reply :
          /\ PushItem(item, reply)
          /\ IF reply = "ok" THEN Goto(y, "transitionRecovering")
             ELSE Again(y, ParkRetries, "idle")
    BY <1>7 DEF PushRecover
  <2>2. BuyerType'
    BY <1>7, <2>1, <1>pc, GotoType, AgainType DEF PushRecover
  <2>3. item \in Item
    BY <1>7, <1>b DEF PushRecover, Item
  <2> HIDE DEF item
  <2> QED
    BY <1>7, <2>1, <2>2, <2>3, PushType DEF PushRecover, ZincType
<1>8. CASE TransitionRecovering(y)
  <2>1. PICK reply \in Reply :
          /\ Post("recovering", buyer[y].b, 0, reply)
          /\ IF reply = "ok" THEN Stop(y) ELSE Again(y, ParkRetries, "idle")
    BY <1>8 DEF TransitionRecovering
  <2>2. BuyerType'
    BY <1>8, <2>1, <1>pc, GotoType, AgainType DEF TransitionRecovering, Stop
  <2> QED
    BY <1>8, <2>1, <2>2, <1>b, ZeroNo, PostType DEF TransitionRecovering, ZincType, Ops
<1>9. CASE Revert(y)
  <2>1. PICK reply \in Reply : Post("revert", buyer[y].b, 0, reply)
    BY <1>9 DEF Revert
  <2>2. BuyerType'
    BY <1>9, <1>pc, GotoType DEF Revert, Stop
  <2> QED
    BY <1>9, <2>1, <2>2, <1>b, ZeroNo, PostType DEF Revert, ZincType, Ops
<1> QED
  BY <1>1, <1>2, <1>3, <1>4, <1>5, <1>6, <1>7, <1>8, <1>9 DEF BuyerStep

LEMMA BuyerNextType ==
  ASSUME TypeInv, BuyerNext
  PROVE  ZincType' /\ BuyerType'
<1>1. PICK y \in Buyers :
        (\E b \in Bookings : Pick(y, b)) \/ BuyerStep(y) \/ BuyerCrash(y)
  BY DEF BuyerNext
<1>2. ASSUME NEW b \in Bookings, Pick(y, b) PROVE ZincType' /\ BuyerType'
  <2>0. BuyerIdle \in BuyerState
    BY ZeroNo DEF BuyerIdle, BuyerState, BuyerPc
  <2>1. [BuyerIdle EXCEPT !.pc = "postBuying", !.b = b] \in BuyerState
    BY <2>0 DEF BuyerState, BuyerPc
  <2>2. BuyerType'
    BY <1>2, <2>1 DEF Pick, TypeInv, BuyerType, BuyerIdle
  <2> QED
    BY <1>2, <2>2 DEF Pick, zincVars, TypeInv, ZincType
<1>3. CASE BuyerCrash(y)
  <2>1. BuyerType'
    BY <1>3, GotoType DEF BuyerCrash, Stop, TypeInv, BuyerPc
  <2> QED
    BY <1>3, <2>1, ZincAssumption DEF BuyerCrash, Fault, TypeInv, ZincType
<1> QED
  BY <1>1, <1>2, <1>3, BuyerStepType

-----------------------------------------------------------------------------
(* The recoverer and the command.                                          *)

LEMMA ItemFacts ==
  /\ WorkIdle \in WorkState /\ WorkIdle.pc = "idle"
  /\ CycleIdle \in CycleState
  /\ \A b \in Bookings : Reconstruct(b) \in Item
BY ZincAssumption
   DEF WorkIdle, WorkState, WorkPc, NoItem, KtmbNo, CycleIdle, CycleState,
       Reconstruct, Item

LEMMA BeginType ==
  ASSUME WorkType, NEW w \in Workers, NEW item \in Item, NEW pc \in WorkPc,
         Begin(w, item, pc)
  PROVE  WorkType'
<1>1. [WorkIdle EXCEPT !.pc = pc, !.item = item] \in WorkState
  BY ItemFacts DEF WorkState
<1>2. [WorkIdle EXCEPT !.pc = pc, !.item = item].item = item
  BY ItemFacts DEF WorkState
<1> QED
  BY <1>1, <1>2 DEF Begin, WorkType

LEMMA DoneType ==
  ASSUME WorkType, NEW w \in Workers, Done(w)
  PROVE  WorkType'
BY ItemFacts DEF Done, WorkType

\* Every step inside ProcessItem moves pc, and may set the other fields.
LEMMA MoveType ==
  ASSUME WorkType, NEW w \in Workers, work[w].pc # "idle",
         NEW r \in WorkState, r.item \in Item,
         work' = [work EXCEPT ![w] = r]
  PROVE  WorkType'
BY DEF WorkType

LEMMA EnterType ==
  ASSUME WorkType, NEW w \in Workers, work[w].pc # "idle",
         NEW pc \in WorkPc, Enter(w, pc)
  PROVE  WorkType'
<1> DEFINE r == [work[w] EXCEPT !.pc = pc]
<1>1. r \in WorkState /\ r.item \in Item
  BY DEF WorkType, WorkState
<1>2. work' = [work EXCEPT ![w] = r]
  BY DEF Enter
<1> HIDE DEF r
<1> QED
  BY <1>1, <1>2, MoveType

LEMMA FailedType ==
  ASSUME WorkType, NEW w \in Workers, work[w].pc # "idle", Failed(w)
  PROVE  WorkType'
<1>1. "requeue" \in WorkPc
  BY DEF WorkPc
<1> QED
  BY <1>1, EnterType, DoneType DEF Failed

LEMMA DecideType ==
  ASSUME WorkType, NEW w \in Workers, work[w].pc # "idle", Decide(w)
  PROVE  WorkType'
<1> DEFINE item == work[w].item
           pc == IF item.no # 0 THEN "print"
                 ELSE IF clock[item.b] = "departed" THEN "manual" ELSE "scan"
           r == [work[w] EXCEPT !.pc = pc, !.no = item.no]
<1>1. item \in Item /\ work[w] \in WorkState
  BY DEF WorkType
<1>2. item.no \in KtmbNo
  BY <1>1 DEF Item
<1>3. pc \in WorkPc
  BY DEF WorkPc
<1>4. work' = [work EXCEPT ![w] = r]
  BY DEF Decide
<1> HIDE DEF item, pc
<1>5. r \in WorkState /\ r.item \in Item
  BY <1>1, <1>2, <1>3 DEF WorkState, item
<1> HIDE DEF r
<1> QED
  BY <1>4, <1>5, MoveType

LEMMA GetBookingType ==
  ASSUME WorkType, NEW w \in Workers, GetBooking(w)
  PROVE  WorkType'
<1> DEFINE row == booking[work[w].item.b]
<1>1. \/ Done(w) \/ Enter(w, "manual") \/ Enter(w, "recovering") \/ Decide(w)
  BY DEF GetBooking
<1>2. work[w].pc # "idle"
  BY DEF GetBooking, At
<1>3. {"manual", "recovering"} \subseteq WorkPc
  BY DEF WorkPc
<1> QED
  BY <1>1, <1>2, <1>3, DoneType, EnterType, DecideType

LEMMA ScanType ==
  ASSUME WorkType, sold \in Seq(Bookings), Len(sold) <= MaxTickets,
         NEW w \in Workers, Scan(w)
  PROVE  WorkType'
<1>0. work[w].pc # "idle" /\ {"recoverRevert", "isClaimed"} \subseteq WorkPc
  BY DEF Scan, At, WorkPc
<1>1. CASE Enter(w, "recoverRevert")
  BY <1>0, <1>1, EnterType
<1>2. ASSUME NEW t \in TicketsOf(PassengerOf[work[w].item.b]),
             work' = [work EXCEPT ![w].pc = "isClaimed", ![w].no = t]
      PROVE  WorkType'
  <2> DEFINE r == [work[w] EXCEPT !.pc = "isClaimed", !.no = t]
  <2>1. t \in KtmbNo
    BY ZincAssumption DEF TicketsOf, KtmbNo
  <2>2. r \in WorkState /\ r.item \in Item
    BY <1>0, <2>1 DEF WorkType, WorkState
  <2>3. work' = [work EXCEPT ![w] = r]
    BY <1>2
  <2> HIDE DEF r
  <2> QED
    BY <1>0, <2>2, <2>3, MoveType
<1> QED
  BY <1>1, <1>2 DEF Scan

\* What a worker's next step reads out of its item is well typed.
LEMMA WorkFacts ==
  ASSUME WorkType, NEW w \in Workers, work[w].pc # "idle"
  PROVE  /\ work[w] \in WorkState
         /\ work[w].item \in Item /\ work[w].item.b \in Bookings
         /\ work[w].item.no \in KtmbNo /\ work[w].no \in KtmbNo
         /\ work[w].item.attempts \in Nat /\ work[w].tries \in Nat
BY DEF WorkType, WorkState, Item

LEMMA ProcessItemType ==
  ASSUME TypeInv, NEW w \in Workers, ProcessItem(w)
  PROVE  ZincType' /\ WorkType' /\ UNCHANGED cycle
<1> USE DEF TypeInv
<1>pc. {"recovering", "duplicate", "manual", "print", "complete", "requeue",
        "recoverRevert"} \subseteq WorkPc
  BY DEF WorkPc
<1>f. ASSUME Fault PROVE faults' \in 0..MaxFaults
  BY <1>f, ZincAssumption DEF Fault, ZincType
<1>1. CASE GetBooking(w)
  BY <1>1, GetBookingType DEF GetBooking, ZincType, zincVars
<1>2. CASE MarkRecovering(w)
  <2>0. work[w].pc # "idle"
    BY <1>2 DEF MarkRecovering, At
  <2>1. PICK reply \in Reply :
          /\ Post("recovering", work[w].item.b, 0, reply)
          /\ IF reply = "ok" THEN Decide(w) ELSE Failed(w)
    BY <1>2 DEF MarkRecovering
  <2>2. WorkType'
    BY <2>0, <2>1, DecideType, FailedType
  <2> QED
    BY <1>2, <2>0, <2>1, <2>2, WorkFacts, ZeroNo, PostType
       DEF MarkRecovering, ZincType, Ops
<1>3. CASE Scan(w)
  BY <1>3, ScanType DEF Scan, ZincType, zincVars
<1>4. CASE IsClaimed(w)
  <2>1. work[w].pc # "idle" /\ (Enter(w, "duplicate") \/ Enter(w, "print"))
    BY <1>4 DEF IsClaimed, At
  <2> QED
    BY <1>4, <1>pc, <2>1, EnterType DEF IsClaimed, ZincType, zincVars
<1>5. CASE FetchPdf(w)
  <2>1. work[w].pc # "idle" /\ Enter(w, "complete")
    BY <1>5 DEF FetchPdf, At
  <2> QED
    BY <1>5, <1>pc, <2>1, EnterType DEF FetchPdf, ZincType, zincVars
<1>6. CASE ReadFails(w)
  <2>1. work[w].pc # "idle" /\ Failed(w) /\ Fault
    BY <1>6 DEF ReadFails
  <2> QED
    BY <1>6, <2>1, <1>f, FailedType DEF ReadFails, ZincType
<1>7. CASE Resolve(w)
  <2>0. work[w].pc # "idle" /\ work[w].pc \in Ops
    BY <1>7 DEF Resolve, Ops
  <2>1. PICK reply \in Reply :
          /\ Post(work[w].pc, work[w].item.b, work[w].no, reply)
          /\ IF reply = "ok" THEN Done(w) ELSE Failed(w)
    BY <1>7 DEF Resolve
  <2>2. WorkType'
    BY <2>0, <2>1, DoneType, FailedType
  <2> QED
    BY <1>7, <2>0, <2>1, <2>2, WorkFacts, PostType DEF Resolve, ZincType
<1>8. CASE Recycle(w)
  <2>0. work[w].pc # "idle"
    BY <1>8 DEF Recycle, At
  <2>1. PICK reply \in Reply :
          /\ Post("recoverRevert", work[w].item.b, 0, reply)
          /\ Failed(w) \/ Enter(w, "duplicate") \/ Done(w)
    BY <1>8 DEF Recycle
  <2>2. WorkType'
    BY <1>pc, <2>0, <2>1, DoneType, EnterType, FailedType
  <2> QED
    BY <1>8, <2>0, <2>1, <2>2, WorkFacts, ZeroNo, PostType
       DEF Recycle, ZincType, Ops
<1> QED
  BY <1>1, <1>2, <1>3, <1>4, <1>5, <1>6, <1>7, <1>8
     DEF ProcessItem, GetBooking, MarkRecovering, Scan, IsClaimed, FetchPdf,
         ReadFails, Resolve, Recycle

LEMMA RequeueType ==
  ASSUME TypeInv, Requeue \/ ParkExhausted \/ PushBack
  PROVE  ZincType' /\ WorkType' /\ UNCHANGED cycle
<1> USE DEF TypeInv
<1>w. "loop" \in Workers
  BY DEF Workers
<1>pc. {"parkExhausted", "push"} \subseteq WorkPc
  BY DEF WorkPc
<1>i. work["loop"].pc # "idle"
  BY DEF Requeue, ParkExhausted, PushBack, At
<1>t. /\ work["loop"] \in WorkState
      /\ work["loop"].item \in Item /\ work["loop"].item.b \in Bookings
      /\ work["loop"].tries \in Nat
  BY <1>w, <1>i, WorkFacts
<1>1. CASE Requeue
  <2> DEFINE n == work["loop"].item.attempts + 1
             pc == IF n >= MaxAttempts THEN "parkExhausted" ELSE "push"
             item == [work["loop"].item EXCEPT !.attempts = n]
             r == [work["loop"] EXCEPT !.item = item, !.pc = pc]
  <2>1. item \in Item /\ pc \in WorkPc
    BY <1>pc, <1>t DEF Item
  <2>2. work' = [work EXCEPT !["loop"] = r]
    BY <1>1 DEF Requeue
  <2> HIDE DEF item, pc
  <2>3. r \in WorkState /\ r.item \in Item
    BY <1>t, <2>1 DEF WorkState
  <2> HIDE DEF r
  <2>4. WorkType'
    BY <1>w, <1>i, <2>2, <2>3, MoveType
  <2> QED
    BY <1>1, <2>4 DEF Requeue, ZincType, zincVars
<1>2. CASE ParkExhausted
  <2>1. PICK reply \in Reply :
          /\ Post("manual", work["loop"].item.b, 0, reply)
          /\ Done("loop") \/ Enter("loop", "push")
    BY <1>2 DEF ParkExhausted
  <2>2. WorkType'
    BY <1>w, <1>pc, <1>i, <2>1, DoneType, EnterType
  <2> QED
    BY <1>2, <1>t, <2>1, <2>2, ZeroNo, PostType DEF ParkExhausted, ZincType, Ops
<1>3. CASE PushBack
  <2> DEFINE r == [work["loop"] EXCEPT !.tries = @ + 1]
  <2>1. PICK reply \in Reply :
          /\ PushItem(work["loop"].item, reply)
          /\ Done("loop") \/ work' = [work EXCEPT !["loop"] = r]
    BY <1>3 DEF PushBack
  <2>2. r \in WorkState /\ r.item \in Item
    BY <1>t DEF WorkState
  <2> HIDE DEF r
  <2>3. WorkType'
    BY <1>w, <1>i, <2>1, <2>2, DoneType, MoveType
  <2> QED
    BY <1>3, <1>t, <2>1, <2>3, PushType DEF PushBack, ZincType
<1> QED
  BY <1>1, <1>2, <1>3

LEMMA RefundType ==
  ASSUME NEW row \in Row, NEW status \in Refunding
  PROVE  [row EXCEPT !.status = status, !.refunds = @ + 1] \in Row
<1>1. status \in Status
  BY DEF Status
<1>2. row.refunds + 1 \in Nat
  BY DEF Row
<1> QED
  BY <1>1, <1>2 DEF Row

LEMMA ExpireType ==
  ASSUME booking \in [Bookings -> Row], ExpireAll
  PROVE  booking' \in [Bookings -> Row]
<1>1. ASSUME NEW b \in Bookings
      PROVE  [booking[b] EXCEPT !.status = "Duplicate", !.refunds = @ + 1] \in Row
  BY RefundType DEF Refunding
<1> QED
  BY <1>1 DEF ExpireAll

LEMMA LoopType ==
  ASSUME TypeInv,
         \/ \E sweep \in BOOLEAN : StartCycle(sweep)
         \/ DrainPop \/ DrainEnd \/ ExpireRecovery \/ ListRecovering
         \/ SkipQueued \/ SweepNext \/ SweepEnd \/ LoopCrash
  PROVE  ZincType' /\ WorkType' /\ cycle' \in CycleState
<1> USE DEF TypeInv
<1>w. "loop" \in Workers /\ "getBooking" \in WorkPc
  BY DEF Workers, WorkPc
<1>f. ASSUME Fault PROVE faults' \in 0..MaxFaults
  BY <1>f, ZincAssumption DEF Fault, ZincType
<1>u. ASSUME UNCHANGED work PROVE WorkType'
  BY <1>u DEF WorkType
<1>to. ASSUME NEW pc \in {"expire", "list"}, LoopTo(pc)
       PROVE  cycle' \in CycleState
  BY <1>to DEF LoopTo, CycleState
<1>1. ASSUME NEW sweep \in BOOLEAN, StartCycle(sweep)
      PROVE  ZincType' /\ WorkType' /\ cycle' \in CycleState
  <2>1. Len(queue) \in Nat
    BY DEF ZincType
  <2>2. [CycleIdle EXCEPT !.pc = "drain", !.sweep = sweep, !.left = Len(queue)]
          \in CycleState
    BY <2>1, ItemFacts DEF CycleState
  <2> QED
    BY <1>1, <1>u, <2>2 DEF StartCycle, ZincType, zincVars
<1>2. CASE DrainPop
  <2>1. Head(queue) \in Item /\ Tail(queue) \in Seq(Item)
    BY <1>2 DEF DrainPop, ZincType
  <2>2. WorkType'
    BY <1>2, <1>w, <2>1, BeginType DEF DrainPop
  <2>3. Head(queue).b \in Bookings
    BY <2>1 DEF Item
  <2>4. cycle.left - 1 \in Nat /\ cycle.handled \cup {Head(queue).b} \in SUBSET Bookings
    BY <1>2, <2>3 DEF DrainPop, CycleState
  <2>5. cycle' \in CycleState
    BY <1>2, <2>4 DEF DrainPop, CycleState
  <2> QED
    BY <1>2, <2>1, <2>2, <2>5 DEF DrainPop, ZincType
<1>3. CASE DrainEnd
  BY <1>3, <1>f, <1>u, <1>to DEF DrainEnd, ZincType
<1>4. CASE ExpireRecovery
  <2>1. cycle' \in CycleState
    BY <1>4, <1>to, ItemFacts DEF ExpireRecovery
  <2> QED
    BY <1>4, <1>f, <1>u, <2>1, ExpireType DEF ExpireRecovery, ZincType
<1>5. CASE ListRecovering
  <2>1. {b \in Bookings : booking[b].status = "Recovering"} \in SUBSET Bookings
    OBVIOUS
  <2>2. cycle' \in CycleState
    BY <1>5, <2>1 DEF ListRecovering, CycleState
  <2> QED
    BY <1>5, <1>u, <2>2 DEF ListRecovering, ZincType, zincVars
<1>6. CASE SkipQueued
  <2>1. cycle.todo \ (cycle.handled \cup QueuedBookingIds) \in SUBSET Bookings
    BY DEF CycleState
  <2>2. cycle' \in CycleState
    BY <1>6, <2>1 DEF SkipQueued, CycleState
  <2> QED
    BY <1>6, <1>u, <2>2 DEF SkipQueued, ZincType, zincVars
<1>7. CASE SweepNext
  <2>1. PICK b \in cycle.todo :
          /\ Begin("loop", Reconstruct(b), "getBooking")
          /\ cycle' = [cycle EXCEPT !.todo = @ \ {b}]
    BY <1>7 DEF SweepNext
  <2>2. b \in Bookings
    BY DEF CycleState
  <2>3. WorkType'
    BY <1>w, <2>1, <2>2, ItemFacts, BeginType
  <2>4. cycle' \in CycleState
    BY <2>1 DEF CycleState
  <2> QED
    BY <1>7, <2>3, <2>4 DEF SweepNext, ZincType, zincVars
<1>8. CASE SweepEnd
  BY <1>8, <1>f, <1>u, ItemFacts DEF SweepEnd, ZincType
<1>9. CASE LoopCrash
  BY <1>9, <1>f, <1>w, ItemFacts, DoneType DEF LoopCrash, ZincType
<1> QED
  BY <1>1, <1>2, <1>3, <1>4, <1>5, <1>6, <1>7, <1>8, <1>9

LEMMA CliType ==
  ASSUME TypeInv,
         CliBuying \/ CliRecovering \/ \E b \in Bookings : CliStart(b)
  PROVE  ZincType' /\ WorkType' /\ UNCHANGED cycle
<1> USE DEF TypeInv
<1>w. /\ "cli" \in Workers
      /\ {"cliBuying", "cliRecovering", "getBooking"} \subseteq WorkPc
  BY DEF Workers, WorkPc
<1>1. ASSUME NEW b \in Bookings, CliStart(b)
      PROVE  ZincType' /\ WorkType' /\ UNCHANGED cycle
  <2>1. PICK pc \in {"cliBuying", "cliRecovering", "getBooking"} :
          Begin("cli", Reconstruct(b), pc)
    BY <1>1 DEF CliStart, Live
  <2>2. WorkType'
    BY <1>w, <2>1, ItemFacts, BeginType
  <2> QED
    BY <1>1, <2>2 DEF CliStart, ZincType, zincVars
<1>2. ASSUME NEW op \in Ops, NEW pc \in WorkPc, NEW reply,
             work["cli"].pc # "idle",
             Post(op, work["cli"].item.b, 0, reply),
             Enter("cli", pc) \/ Done("cli"),
             UNCHANGED <<clock, sold, queue, cycle>>
      PROVE  ZincType' /\ WorkType' /\ UNCHANGED cycle
  <2>1. WorkType'
    BY <1>2, <1>w, EnterType, DoneType
  <2>2. work["cli"].item.b \in Bookings
    BY <1>2, <1>w, WorkFacts
  <2> QED
    BY <1>2, <2>1, <2>2, ZeroNo, PostType DEF ZincType
<1>3. CASE CliBuying
  <2>1. PICK reply \in Reply :
          /\ Post("buying", work["cli"].item.b, 0, reply)
          /\ Enter("cli", "cliRecovering") \/ Done("cli")
    BY <1>3 DEF CliBuying
  <2> QED
    BY <1>3, <1>w, <2>1, <1>2 DEF CliBuying, At, Ops
<1>4. CASE CliRecovering
  <2>1. PICK reply \in Reply :
          /\ Post("recovering", work["cli"].item.b, 0, reply)
          /\ Enter("cli", "getBooking") \/ Done("cli")
    BY <1>4 DEF CliRecovering
  <2> QED
    BY <1>4, <1>w, <2>1, <1>2 DEF CliRecovering, At, Ops
<1> QED
  BY <1>1, <1>3, <1>4

-----------------------------------------------------------------------------
(* The whole pipeline.                                                     *)

LEMMA EnvironmentType ==
  ASSUME ZincType, Environment
  PROVE  ZincType'
<1>1. ASSUME NEW b \in Bookings, Cancel(b) PROVE ZincType'
  <2>1. [booking[b] EXCEPT !.status = "Cancelled", !.refunds = @ + 1] \in Row
    BY RefundType DEF ZincType, Refunding
  <2> QED
    BY <1>1, <2>1 DEF Cancel, ZincType
<1>2. ASSUME NEW b \in Bookings, Advance(b) PROVE ZincType'
  BY <1>2 DEF Advance, ZincType, Clock
<1> QED
  BY <1>1, <1>2 DEF Environment

LEMMA InitType == Init => TypeInv
<1> SUFFICES ASSUME Init PROVE TypeInv
  OBVIOUS
<1>1. ZincType
  BY ZincAssumption
     DEF Init, ZincInit, ZincType, NewRow, Row, Status, Live, Clock, KtmbNo
<1>2. BuyerIdle \in BuyerState
  BY ZeroNo DEF BuyerIdle, BuyerState, BuyerPc
<1>3. BuyerType
  BY <1>2 DEF Init, BuyerInit, BuyerType, BuyerIdle
<1>4. WorkType /\ cycle \in CycleState
  BY ItemFacts DEF Init, RecovererInit, WorkType
<1> QED
  BY <1>1, <1>3, <1>4 DEF TypeInv

LEMMA NextType == TypeInv /\ [Next]_vars => TypeInv'
<1> SUFFICES ASSUME TypeInv, [Next]_vars PROVE TypeInv'
  OBVIOUS
<1>u. /\ UNCHANGED buyer => BuyerType'
      /\ UNCHANGED recovererVars => WorkType' /\ cycle' \in CycleState
      /\ UNCHANGED cycle => cycle' \in CycleState
  BY DEF TypeInv, BuyerType, WorkType, recovererVars
<1>1. CASE BuyerNext /\ UNCHANGED recovererVars
  BY <1>1, <1>u, BuyerNextType DEF TypeInv
<1>2. CASE RecovererNext /\ UNCHANGED buyer
  <2>1. "loop" \in Workers /\ "cli" \in Workers
    BY DEF Workers
  <2>2. ZincType' /\ WorkType' /\ cycle' \in CycleState
    BY <1>2, <1>u, <2>1, LoopType, RequeueType, CliType, ProcessItemType
       DEF RecovererNext, LoopStep, CliStep
  <2> QED
    BY <1>2, <1>u, <2>2 DEF TypeInv
<1>3. CASE (\E b \in Bookings : ManualStart(b)) /\ UNCHANGED buyer
  BY <1>3, <1>u, CliType DEF ManualStart, TypeInv
<1>4. CASE Environment /\ UNCHANGED <<buyer, recovererVars>>
  BY <1>4, <1>u, EnvironmentType DEF TypeInv
<1>5. CASE UNCHANGED vars
  BY <1>5, <1>u DEF vars, recovererVars, TypeInv, ZincType
<1> QED
  BY <1>1, <1>2, <1>3, <1>4, <1>5 DEF Next

(* Every variable keeps its type, so no step writes a status, a ticket     *)
(* number or a place in the code the pipeline does not have.               *)
THEOREM TypeCorrect == Spec => []TypeOK
<1>1. TypeInv => TypeOK
  BY DEF TypeInv, TypeOK, ZincType, BuyerType, WorkType
<1> QED
  BY <1>1, InitType, NextType, PTL DEF Spec

-----------------------------------------------------------------------------
(* Every KTMB number in the system names a ticket of the right passenger.  *)

Real(b, no) == no \in TicketsOf(PassengerOf[b])

\* A process reaches the steps that report a number only with one in hand.
BuyerNumbers ==
  \A y \in Buyers :
    /\ buyer[y].no # 0 => Real(buyer[y].b, buyer[y].no)
    /\ buyer[y].pc \in {"printTicket", "completeWithZinc"} => buyer[y].no # 0

WorkNumbers ==
  \A w \in Workers :
    /\ work[w].item.no # 0 => Real(work[w].item.b, work[w].item.no)
    /\ work[w].no # 0 => Real(work[w].item.b, work[w].no)
    /\ work[w].pc \in {"isClaimed", "print", "complete"} => work[w].no # 0

QueueNumbers ==
  \A i \in DOMAIN queue : queue[i].no # 0 => Real(queue[i].b, queue[i].no)

NumbersInv == /\ BuyerNumbers /\ WorkNumbers /\ QueueNumbers
              /\ CollectedTicketIsReal

\* Tickets are only ever added, so a number that is real stays real.
SoldGrows ==
  /\ DOMAIN sold \subseteq DOMAIN sold'
  /\ \A t \in DOMAIN sold : sold'[t] = sold[t]

LEMMA SoldStable ==
  ASSUME TypeInv, UNCHANGED sold \/ \E b \in Bookings : sold' = Append(sold, b)
  PROVE  SoldGrows
BY DEF TypeInv, ZincType, SoldGrows

LEMMA RowsPost ==
  ASSUME TypeInv, NumbersInv, SoldGrows,
         NEW op \in Ops, NEW b \in Bookings, NEW no \in KtmbNo,
         op = "complete" => Real(b, no),
         NEW reply, Post(op, b, no, reply)
  PROVE  CollectedTicketIsReal'
<1> USE DEF TypeInv, ZincType, NumbersInv, CollectedTicketIsReal, Real, TicketsOf,
            SoldGrows
<1>1. CASE UNCHANGED booking
  BY <1>1
<1>2. CASE Commit(op, b, no)
  <2> DEFINE row == After(op, b, no)
  <2>0. booking[b] \in Row
    OBVIOUS
  <2>1. row.bookingNo = (IF op = "complete" THEN no ELSE booking[b].bookingNo)
    BY DEF After
  <2>2. op # "complete" => row.collects = booking[b].collects
    BY <2>0 DEF After, Row
  <2>3. booking' = [booking EXCEPT ![b] = row]
    BY <1>2 DEF Commit
  <2> HIDE DEF row
  <2>4. row.collects > 0 =>
          row.bookingNo \in DOMAIN sold
            /\ PassengerOf[sold[row.bookingNo]] = PassengerOf[b]
    BY <2>1, <2>2
  <2> QED
    BY <2>3, <2>4
<1> QED
  BY <1>1, <1>2 DEF Post

LEMMA RowsSame ==
  ASSUME NumbersInv, SoldGrows, UNCHANGED booking
  PROVE  CollectedTicketIsReal'
BY DEF NumbersInv, CollectedTicketIsReal, Real, TicketsOf, SoldGrows

LEMMA QueueSame ==
  ASSUME NumbersInv, SoldGrows, UNCHANGED queue
  PROVE  QueueNumbers'
BY DEF NumbersInv, QueueNumbers, Real, TicketsOf, SoldGrows

LEMMA QueuePush ==
  ASSUME TypeInv, NumbersInv, SoldGrows,
         NEW item \in Item, item.no # 0 => Real(item.b, item.no),
         NEW reply, PushItem(item, reply)
  PROVE  QueueNumbers'
<1>1. CASE queue' = Append(queue, item)
  <2>1. /\ DOMAIN queue = 1..Len(queue)
        /\ DOMAIN queue' = 1..(Len(queue) + 1)
        /\ queue'[Len(queue) + 1] = item
        /\ \A i \in 1..Len(queue) : queue'[i] = queue[i]
    BY <1>1 DEF TypeInv, ZincType
  <2> QED
    BY <2>1 DEF NumbersInv, QueueNumbers, Real, TicketsOf, SoldGrows, TypeInv, ZincType
<1>2. CASE UNCHANGED queue
  BY <1>2, QueueSame
<1> QED
  BY <1>1, <1>2 DEF PushItem

LEMMA BuyerGoto ==
  ASSUME TypeInv, NumbersInv, SoldGrows,
         NEW y \in Buyers, NEW pc \in BuyerPc,
         pc \in {"printTicket", "completeWithZinc"} => buyer[y].no # 0,
         Goto(y, pc)
  PROVE  BuyerNumbers'
<1> DEFINE r == IF pc = "idle" THEN BuyerIdle
                               ELSE [buyer[y] EXCEPT !.pc = pc, !.tries = 0]
<1>0. buyer[y] \in BuyerState
  BY DEF TypeInv, BuyerType
<1>1. /\ pc = "idle" => r.pc = "idle" /\ r.no = 0
      /\ pc # "idle" => r.pc = pc /\ r.no = buyer[y].no /\ r.b = buyer[y].b
  BY <1>0 DEF BuyerIdle, BuyerState
<1>2. buyer' = [buyer EXCEPT ![y] = r]
  BY DEF Goto
<1> HIDE DEF r
<1> QED
  BY <1>1, <1>2
     DEF NumbersInv, BuyerNumbers, Real, TicketsOf, SoldGrows, TypeInv, BuyerType

LEMMA BuyerAgain ==
  ASSUME TypeInv, NumbersInv, SoldGrows,
         NEW y \in Buyers, NEW retries,
         NEW giveUp \in BuyerPc \ {"printTicket", "completeWithZinc"},
         Again(y, retries, giveUp)
  PROVE  BuyerNumbers'
<1>1. CASE buyer[y].tries + 1 < retries
  <2> DEFINE r == [buyer[y] EXCEPT !.tries = @ + 1]
  <2>1. r.pc = buyer[y].pc /\ r.no = buyer[y].no /\ r.b = buyer[y].b
    BY DEF TypeInv, BuyerType, BuyerState
  <2>2. buyer' = [buyer EXCEPT ![y] = r]
    BY <1>1 DEF Again
  <2> HIDE DEF r
  <2> QED
    BY <2>1, <2>2
       DEF NumbersInv, BuyerNumbers, Real, TicketsOf, SoldGrows, TypeInv, BuyerType
<1>2. CASE ~(buyer[y].tries + 1 < retries)
  BY <1>2, BuyerGoto DEF Again
<1> QED
  BY <1>1, <1>2

LEMMA BuyerSame ==
  ASSUME NumbersInv, SoldGrows, UNCHANGED buyer
  PROVE  BuyerNumbers'
BY DEF NumbersInv, BuyerNumbers, Real, TicketsOf, SoldGrows

LEMMA BuyerNumbersStep ==
  ASSUME TypeInv, NumbersInv, BuyerNext, UNCHANGED recovererVars
  PROVE  SoldGrows /\ BuyerNumbers' /\ QueueNumbers' /\ CollectedTicketIsReal'
<1> USE DEF BuyerPc
<1> DEFINE Goal == BuyerNumbers' /\ QueueNumbers' /\ CollectedTicketIsReal'
<1>1. PICK y \in Buyers :
        (\E b \in Bookings : Pick(y, b)) \/ BuyerStep(y) \/ BuyerCrash(y)
  BY DEF BuyerNext
<1>b. buyer[y].pc # "idle" => buyer[y].b \in Bookings /\ buyer[y].no \in KtmbNo
  BY DEF TypeInv, BuyerType, BuyerState
<1>g. SoldGrows
  <2>1. CASE Complete(y)
    BY <2>1, <1>b, SoldStable DEF Complete, Capture
  <2>2. CASE ~Complete(y)
    BY <1>1, <2>2, SoldStable
       DEF Pick, zincVars, BuyerStep, PostBuying, SetPassenger, Pay, PrintTicket,
           CompleteWithZinc, PushRecover, TransitionRecovering, Revert, BuyerCrash
  <2> QED
    BY <2>1, <2>2
<1>n. /\ buyer[y].no # 0 => Real(buyer[y].b, buyer[y].no)
      /\ buyer[y].pc \in {"printTicket", "completeWithZinc"} => buyer[y].no # 0
  BY DEF NumbersInv, BuyerNumbers
<1>2. ASSUME NEW b \in Bookings, Pick(y, b) PROVE Goal
  <2> DEFINE r == [BuyerIdle EXCEPT !.pc = "postBuying", !.b = b]
  <2>1. r.pc = "postBuying" /\ r.no = 0
    BY DEF BuyerIdle
  <2>2. buyer' = [buyer EXCEPT ![y] = r]
    BY <1>2 DEF Pick
  <2> HIDE DEF r
  <2>3. BuyerNumbers'
    BY <1>g, <2>1, <2>2
       DEF NumbersInv, BuyerNumbers, Real, TicketsOf, SoldGrows, TypeInv, BuyerType
  <2> QED
    BY <1>2, <1>g, <2>3, RowsSame, QueueSame DEF Pick, zincVars
<1>3. CASE PostBuying(y)
  <2>1. PICK reply \in Reply :
          /\ Post("buying", buyer[y].b, 0, reply)
          /\ Goto(y, "setPassenger") \/ Goto(y, "idle")
    BY <1>3 DEF PostBuying, Stop
  <2> QED
    BY <1>3, <1>b, <1>g, <2>1, ZeroNo, RowsPost, QueueSame, BuyerGoto
       DEF PostBuying, Ops
<1>4. CASE SetPassenger(y)
  BY <1>4, <1>g, RowsSame, QueueSame, BuyerGoto DEF SetPassenger, Stop
<1>5. CASE Pay(y)
  BY <1>5, <1>g, RowsSame, QueueSame, BuyerGoto DEF Pay, Stop
<1>6. CASE Complete(y)
  <2>1. ASSUME Capture(y),
               buyer' = [buyer EXCEPT ![y].pc = "printTicket", ![y].no = Len(sold) + 1]
        PROVE  BuyerNumbers'
    <3> DEFINE no == Len(sold) + 1
               r == [buyer[y] EXCEPT !.pc = "printTicket", !.no = no]
    <3>1. r.b = buyer[y].b /\ r.no = no
      BY DEF TypeInv, BuyerType, BuyerState
    <3>2. buyer' = [buyer EXCEPT ![y] = r]
      BY <2>1
    <3>3. no # 0 /\ no \in DOMAIN sold' /\ sold'[no] = buyer[y].b
      BY <2>1, <1>6, <1>b DEF Complete, Capture, TypeInv, ZincType
    <3> HIDE DEF r, no
    <3> QED
      BY <1>g, <3>1, <3>2, <3>3
         DEF NumbersInv, BuyerNumbers, Real, TicketsOf, SoldGrows, TypeInv, BuyerType
  <2>2. Goto(y, "pushRecover") \/ Goto(y, "idle") => BuyerNumbers'
    BY <1>g, BuyerGoto
  <2>3. BuyerNumbers'
    BY <1>6, <2>1, <2>2 DEF Complete, Stop
  <2> QED
    BY <1>6, <1>g, <2>3, RowsSame, QueueSame DEF Complete
<1>7. CASE PrintTicket(y)
  BY <1>7, <1>g, <1>n, RowsSame, QueueSame, BuyerGoto DEF PrintTicket
<1>8. CASE CompleteWithZinc(y)
  <2>1. PICK reply \in Reply :
          /\ Post("complete", buyer[y].b, buyer[y].no, reply)
          /\ Goto(y, "idle") \/ Again(y, CompleteRetries, "pushRecover")
    BY <1>8 DEF CompleteWithZinc, Stop
  <2>2. BuyerNumbers'
    BY <1>g, <2>1, BuyerGoto, BuyerAgain
  <2> QED
    BY <1>8, <1>b, <1>g, <1>n, <2>1, <2>2, RowsPost, QueueSame
       DEF CompleteWithZinc, Ops
<1>9. CASE PushRecover(y)
  <2> DEFINE item == [b |-> buyer[y].b, no |-> buyer[y].no, attempts |-> 0]
  <2>1. PICK reply \in Reply :
          /\ PushItem(item, reply)
          /\ Goto(y, "transitionRecovering") \/ Again(y, ParkRetries, "idle")
    BY <1>9 DEF PushRecover
  <2>2. item \in Item /\ item.b = buyer[y].b /\ item.no = buyer[y].no
    BY <1>9, <1>b DEF PushRecover, Item
  <2> HIDE DEF item
  <2>3. BuyerNumbers'
    BY <1>g, <2>1, BuyerGoto, BuyerAgain
  <2>4. QueueNumbers'
    BY <1>g, <1>n, <2>1, <2>2, QueuePush
  <2> QED
    BY <1>9, <1>g, <2>3, <2>4, RowsSame DEF PushRecover
<1>10. CASE TransitionRecovering(y)
  <2>1. PICK reply \in Reply :
          /\ Post("recovering", buyer[y].b, 0, reply)
          /\ Goto(y, "idle") \/ Again(y, ParkRetries, "idle")
    BY <1>10 DEF TransitionRecovering, Stop
  <2>2. BuyerNumbers'
    BY <1>g, <2>1, BuyerGoto, BuyerAgain
  <2> QED
    BY <1>10, <1>b, <1>g, <2>1, <2>2, ZeroNo, RowsPost, QueueSame
       DEF TransitionRecovering, Ops
<1>11. CASE Revert(y)
  <2>1. PICK reply \in Reply : Post("revert", buyer[y].b, 0, reply)
    BY <1>11 DEF Revert
  <2> QED
    BY <1>11, <1>b, <1>g, <2>1, ZeroNo, RowsPost, QueueSame, BuyerGoto
       DEF Revert, Stop, Ops
<1>12. CASE BuyerCrash(y)
  BY <1>12, <1>g, RowsSame, QueueSame, BuyerGoto DEF BuyerCrash, Stop
<1> QED
  BY <1>1, <1>g, <1>2, <1>3, <1>4, <1>5, <1>6, <1>7, <1>8, <1>9, <1>10, <1>11, <1>12
     DEF BuyerStep

\* Numbers a worker's next record may carry.
Numbered(r) ==
  /\ r.item.no # 0 => Real(r.item.b, r.item.no)
  /\ r.no # 0 => Real(r.item.b, r.no)
  /\ r.pc \in {"isClaimed", "print", "complete"} => r.no # 0

LEMMA WorkSet ==
  ASSUME TypeInv, NumbersInv, SoldGrows,
         NEW w \in Workers, NEW r, Numbered(r),
         work' = [work EXCEPT ![w] = r]
  PROVE  WorkNumbers'
BY DEF NumbersInv, WorkNumbers, Numbered, Real, TicketsOf, SoldGrows, TypeInv, WorkType

LEMMA WorkSame ==
  ASSUME NumbersInv, SoldGrows, UNCHANGED work
  PROVE  WorkNumbers'
BY DEF NumbersInv, WorkNumbers, Real, TicketsOf, SoldGrows

LEMMA WorkDone ==
  ASSUME TypeInv, NumbersInv, SoldGrows, NEW w \in Workers, Done(w)
  PROVE  WorkNumbers'
<1>1. Numbered(WorkIdle)
  BY DEF Numbered, WorkIdle, NoItem
<1> QED
  BY <1>1, WorkSet DEF Done

LEMMA WorkBegin ==
  ASSUME TypeInv, NumbersInv, SoldGrows,
         NEW w \in Workers, NEW item, item.no # 0 => Real(item.b, item.no),
         NEW pc, pc \notin {"isClaimed", "print", "complete"}, Begin(w, item, pc)
  PROVE  WorkNumbers'
<1> DEFINE r == [WorkIdle EXCEPT !.pc = pc, !.item = item]
<1>1. r.pc = pc /\ r.item = item /\ r.no = 0
  BY DEF WorkIdle
<1>2. work' = [work EXCEPT ![w] = r]
  BY DEF Begin
<1> HIDE DEF r
<1>3. Numbered(r)
  BY <1>1 DEF Numbered
<1> QED
  BY <1>2, <1>3, WorkSet

LEMMA WorkEnter ==
  ASSUME TypeInv, NumbersInv, SoldGrows, NEW w \in Workers,
         NEW pc, pc \in {"isClaimed", "print", "complete"} => work[w].no # 0,
         Enter(w, pc)
  PROVE  WorkNumbers'
<1> DEFINE r == [work[w] EXCEPT !.pc = pc]
<1>1. r.pc = pc /\ r.item = work[w].item /\ r.no = work[w].no
  BY DEF TypeInv, WorkType, WorkState
<1>2. work' = [work EXCEPT ![w] = r]
  BY DEF Enter
<1> HIDE DEF r
<1>3. Numbered(r)
  BY <1>1 DEF Numbered, NumbersInv, WorkNumbers
<1> QED
  BY <1>2, <1>3, WorkSet

LEMMA WorkFailed ==
  ASSUME TypeInv, NumbersInv, SoldGrows, NEW w \in Workers, Failed(w)
  PROVE  WorkNumbers'
BY WorkEnter, WorkDone DEF Failed

LEMMA WorkDecide ==
  ASSUME TypeInv, NumbersInv, SoldGrows, NEW w \in Workers, Decide(w)
  PROVE  WorkNumbers'
<1> DEFINE item == work[w].item
           pc == IF item.no # 0 THEN "print"
                 ELSE IF clock[item.b] = "departed" THEN "manual" ELSE "scan"
           r == [work[w] EXCEPT !.pc = pc, !.no = item.no]
<1>1. r.pc = pc /\ r.item = item /\ r.no = item.no
  BY DEF TypeInv, WorkType, WorkState
<1>2. work' = [work EXCEPT ![w] = r]
  BY DEF Decide
<1>3. pc \in {"isClaimed", "print", "complete"} => item.no # 0
  OBVIOUS
<1> HIDE DEF r, pc
<1>4. Numbered(r)
  BY <1>1, <1>3 DEF Numbered, NumbersInv, WorkNumbers
<1> QED
  BY <1>2, <1>4, WorkSet

LEMMA ProcessItemNumbers ==
  ASSUME TypeInv, NumbersInv, SoldGrows, NEW w \in Workers, ProcessItem(w)
  PROVE  WorkNumbers' /\ QueueNumbers' /\ CollectedTicketIsReal'
<1>n. /\ work[w].no # 0 => Real(work[w].item.b, work[w].no)
      /\ work[w].pc \in {"isClaimed", "print", "complete"} => work[w].no # 0
  BY DEF NumbersInv, WorkNumbers
<1>t. WorkType
  BY DEF TypeInv
<1>1. CASE GetBooking(w)
  <2>1. Done(w) \/ Enter(w, "manual") \/ Enter(w, "recovering") \/ Decide(w)
    BY <1>1 DEF GetBooking
  <2> QED
    BY <1>1, <2>1, WorkDone, WorkEnter, WorkDecide, RowsSame, QueueSame
       DEF GetBooking, zincVars
<1>2. CASE MarkRecovering(w)
  <2>0. work[w].pc # "idle"
    BY <1>2 DEF MarkRecovering, At
  <2>1. PICK reply \in Reply :
          /\ Post("recovering", work[w].item.b, 0, reply)
          /\ Decide(w) \/ Failed(w)
    BY <1>2 DEF MarkRecovering
  <2> QED
    BY <1>2, <1>t, <2>0, <2>1, ZeroNo, WorkFacts, WorkDecide, WorkFailed, RowsPost,
       QueueSame DEF MarkRecovering, Ops
<1>3. CASE Scan(w)
  <2>1. ASSUME NEW t \in TicketsOf(PassengerOf[work[w].item.b]),
               work' = [work EXCEPT ![w].pc = "isClaimed", ![w].no = t]
        PROVE  WorkNumbers'
    <3> DEFINE r == [work[w] EXCEPT !.pc = "isClaimed", !.no = t]
    <3>1. r.item = work[w].item /\ r.no = t
      BY DEF TypeInv, WorkType, WorkState
    <3>2. work' = [work EXCEPT ![w] = r]
      BY <2>1
    <3>3. t # 0
      BY DEF TicketsOf, TypeInv, ZincType
    <3> HIDE DEF r
    <3>4. Numbered(r)
      BY <3>1, <3>3 DEF Numbered, NumbersInv, WorkNumbers, Real
    <3> QED
      BY <3>2, <3>4, WorkSet
  <2>2. WorkNumbers'
    BY <1>3, <2>1, WorkEnter DEF Scan
  <2> QED
    BY <1>3, <2>2, RowsSame, QueueSame DEF Scan, zincVars
<1>4. CASE IsClaimed(w)
  <2>1. Enter(w, "duplicate") \/ (Enter(w, "print") /\ work[w].no # 0)
    BY <1>4, <1>n DEF IsClaimed, At
  <2> QED
    BY <1>4, <2>1, WorkEnter, RowsSame, QueueSame DEF IsClaimed, zincVars
<1>5. CASE FetchPdf(w)
  <2>1. Enter(w, "complete") /\ work[w].no # 0
    BY <1>5, <1>n DEF FetchPdf, At
  <2> QED
    BY <1>5, <2>1, WorkEnter, RowsSame, QueueSame DEF FetchPdf, zincVars
<1>6. CASE ReadFails(w)
  BY <1>6, WorkFailed, RowsSame, QueueSame DEF ReadFails
<1>7. CASE Resolve(w)
  <2>0. /\ work[w].pc # "idle" /\ work[w].pc \in Ops
        /\ work[w].pc = "complete" => Real(work[w].item.b, work[w].no)
    BY <1>7, <1>n DEF Resolve, Ops
  <2>1. PICK reply \in Reply :
          /\ Post(work[w].pc, work[w].item.b, work[w].no, reply)
          /\ Done(w) \/ Failed(w)
    BY <1>7 DEF Resolve
  <2> QED
    BY <1>7, <1>t, <2>0, <2>1, WorkFacts, WorkDone, WorkFailed, RowsPost, QueueSame
       DEF Resolve
<1>8. CASE Recycle(w)
  <2>0. work[w].pc # "idle"
    BY <1>8 DEF Recycle, At
  <2>1. PICK reply \in Reply :
          /\ Post("recoverRevert", work[w].item.b, 0, reply)
          /\ Failed(w) \/ Enter(w, "duplicate") \/ Done(w)
    BY <1>8 DEF Recycle
  <2>2. WorkNumbers'
    BY <2>1, WorkFailed, WorkEnter, WorkDone
  <2> QED
    BY <1>8, <1>t, <2>0, <2>1, <2>2, ZeroNo, WorkFacts, RowsPost, QueueSame
       DEF Recycle, Ops
<1> QED
  BY <1>1, <1>2, <1>3, <1>4, <1>5, <1>6, <1>7, <1>8 DEF ProcessItem

LEMMA RequeueNumbers ==
  ASSUME TypeInv, NumbersInv, SoldGrows, Requeue \/ ParkExhausted \/ PushBack
  PROVE  WorkNumbers' /\ QueueNumbers' /\ CollectedTicketIsReal'
<1>w. "loop" \in Workers
  BY DEF Workers
<1>i. work["loop"].pc # "idle"
  BY DEF Requeue, ParkExhausted, PushBack, At
<1>t. work["loop"] \in WorkState /\ work["loop"].item \in Item
        /\ work["loop"].item.b \in Bookings
  BY <1>w, <1>i, WorkFacts DEF TypeInv
<1>n. Numbered(work["loop"])
  BY <1>w DEF NumbersInv, WorkNumbers, Numbered
<1>1. CASE Requeue
  <2> DEFINE n == work["loop"].item.attempts + 1
             pc == IF n >= MaxAttempts THEN "parkExhausted" ELSE "push"
             item == [work["loop"].item EXCEPT !.attempts = n]
             r == [work["loop"] EXCEPT !.item = item, !.pc = pc]
  <2>1. item.b = work["loop"].item.b /\ item.no = work["loop"].item.no
    BY <1>t DEF Item
  <2>2. work' = [work EXCEPT !["loop"] = r]
    BY <1>1 DEF Requeue
  <2>3. pc \in {"parkExhausted", "push"}
    OBVIOUS
  <2> HIDE DEF item, pc
  <2>4. r.item = item /\ r.pc = pc /\ r.no = work["loop"].no
    BY <1>t DEF WorkState
  <2> HIDE DEF r
  <2>5. Numbered(r)
    BY <1>n, <2>1, <2>3, <2>4 DEF Numbered
  <2>6. WorkNumbers'
    BY <1>w, <2>2, <2>5, WorkSet
  <2> QED
    BY <1>1, <2>6, RowsSame, QueueSame DEF Requeue, zincVars
<1>2. CASE ParkExhausted
  <2>1. PICK reply \in Reply :
          /\ Post("manual", work["loop"].item.b, 0, reply)
          /\ Done("loop") \/ Enter("loop", "push")
    BY <1>2 DEF ParkExhausted
  <2>2. WorkNumbers'
    BY <1>w, <2>1, WorkDone, WorkEnter
  <2> QED
    BY <1>2, <1>t, <2>1, <2>2, ZeroNo, RowsPost, QueueSame DEF ParkExhausted, Ops
<1>3. CASE PushBack
  <2> DEFINE r == [work["loop"] EXCEPT !.tries = @ + 1]
  <2>1. PICK reply \in Reply :
          /\ PushItem(work["loop"].item, reply)
          /\ Done("loop") \/ work' = [work EXCEPT !["loop"] = r]
    BY <1>3 DEF PushBack
  <2>2. Numbered(r)
    BY <1>n, <1>t DEF Numbered, WorkState
  <2> HIDE DEF r
  <2>3. WorkNumbers'
    BY <1>w, <2>1, <2>2, WorkDone, WorkSet
  <2>4. QueueNumbers'
    BY <1>n, <1>t, <2>1, QueuePush DEF Numbered
  <2> QED
    BY <1>3, <2>3, <2>4, RowsSame DEF PushBack
<1> QED
  BY <1>1, <1>2, <1>3

LEMMA ExpireNumbers ==
  ASSUME TypeInv, NumbersInv, SoldGrows, ExpireAll
  PROVE  CollectedTicketIsReal'
<1>1. ASSUME NEW b \in Bookings
      PROVE  booking'[b].collects = booking[b].collects
               /\ booking'[b].bookingNo = booking[b].bookingNo
  BY DEF ExpireAll, TypeInv, ZincType, Row
<1> QED
  BY <1>1 DEF NumbersInv, CollectedTicketIsReal, Real, TicketsOf, SoldGrows

LEMMA LoopNumbers ==
  ASSUME TypeInv, NumbersInv, SoldGrows,
         \/ \E sweep \in BOOLEAN : StartCycle(sweep)
         \/ DrainPop \/ DrainEnd \/ ExpireRecovery \/ ListRecovering
         \/ SkipQueued \/ SweepNext \/ SweepEnd \/ LoopCrash
  PROVE  WorkNumbers' /\ QueueNumbers' /\ CollectedTicketIsReal'
<1>w. "loop" \in Workers
  BY DEF Workers
<1>1. CASE DrainPop
  <2>1. /\ Head(queue) = queue[1] /\ 1 \in DOMAIN queue
        /\ DOMAIN Tail(queue) = 1..(Len(queue) - 1)
        /\ \A i \in 1..(Len(queue) - 1) :
             Tail(queue)[i] = queue[i + 1] /\ i + 1 \in DOMAIN queue
    BY <1>1 DEF DrainPop, TypeInv, ZincType
  <2>2. Head(queue).no # 0 => Real(Head(queue).b, Head(queue).no)
    BY <2>1 DEF NumbersInv, QueueNumbers
  <2>3. WorkNumbers'
    BY <1>1, <1>w, <2>2, WorkBegin DEF DrainPop
  <2>4. QueueNumbers'
    BY <1>1, <2>1
       DEF DrainPop, NumbersInv, QueueNumbers, Real, TicketsOf, SoldGrows
  <2> QED
    BY <1>1, <2>3, <2>4, RowsSame DEF DrainPop
<1>2. CASE SweepNext
  <2>1. PICK b \in cycle.todo : Begin("loop", Reconstruct(b), "getBooking")
    BY <1>2 DEF SweepNext
  <2>2. WorkNumbers'
    BY <1>w, <2>1, WorkBegin DEF Reconstruct
  <2> QED
    BY <1>2, <2>2, RowsSame, QueueSame DEF SweepNext, zincVars
<1>3. CASE LoopCrash
  BY <1>3, <1>w, WorkDone, RowsSame, QueueSame DEF LoopCrash
<1>4. CASE ExpireRecovery
  BY <1>4, WorkSame, QueueSame, RowsSame, ExpireNumbers DEF ExpireRecovery
<1>5. CASE \/ \E sweep \in BOOLEAN : StartCycle(sweep)
           \/ DrainEnd \/ ListRecovering \/ SkipQueued \/ SweepEnd
  BY <1>5, WorkSame, QueueSame, RowsSame
     DEF StartCycle, DrainEnd, ListRecovering, SkipQueued, SweepEnd, zincVars
<1> QED
  BY <1>1, <1>2, <1>3, <1>4, <1>5

LEMMA CliNumbers ==
  ASSUME TypeInv, NumbersInv, SoldGrows,
         CliBuying \/ CliRecovering \/ \E b \in Bookings : CliStart(b)
  PROVE  WorkNumbers' /\ QueueNumbers' /\ CollectedTicketIsReal'
<1>w. "cli" \in Workers
  BY DEF Workers
<1>t. work["cli"].pc # "idle" => work["cli"].item.b \in Bookings
  BY <1>w, WorkFacts DEF TypeInv
<1>1. ASSUME NEW b \in Bookings, CliStart(b)
      PROVE  WorkNumbers' /\ QueueNumbers' /\ CollectedTicketIsReal'
  <2>1. PICK pc \in {"cliBuying", "cliRecovering", "getBooking"} :
          Begin("cli", Reconstruct(b), pc)
    BY <1>1 DEF CliStart, Live
  <2>2. WorkNumbers'
    BY <1>w, <2>1, WorkBegin DEF Reconstruct
  <2> QED
    BY <1>1, <2>2, RowsSame, QueueSame DEF CliStart, zincVars
<1>2. CASE CliBuying
  <2>1. PICK reply \in Reply :
          /\ Post("buying", work["cli"].item.b, 0, reply)
          /\ Enter("cli", "cliRecovering") \/ Done("cli")
    BY <1>2 DEF CliBuying
  <2> QED
    BY <1>2, <1>w, <1>t, <2>1, ZeroNo, WorkEnter, WorkDone, RowsPost, QueueSame
       DEF CliBuying, At, Ops
<1>3. CASE CliRecovering
  <2>1. PICK reply \in Reply :
          /\ Post("recovering", work["cli"].item.b, 0, reply)
          /\ Enter("cli", "getBooking") \/ Done("cli")
    BY <1>3 DEF CliRecovering
  <2> QED
    BY <1>3, <1>w, <1>t, <2>1, ZeroNo, WorkEnter, WorkDone, RowsPost, QueueSame
       DEF CliRecovering, At, Ops
<1> QED
  BY <1>1, <1>2, <1>3

LEMMA EnvironmentNumbers ==
  ASSUME TypeInv, NumbersInv, SoldGrows, Environment
  PROVE  QueueNumbers' /\ CollectedTicketIsReal'
<1>1. ASSUME NEW b \in Bookings, Cancel(b)
      PROVE  QueueNumbers' /\ CollectedTicketIsReal'
  <2>1. ASSUME NEW c \in Bookings
        PROVE  booking'[c].collects = booking[c].collects
                 /\ booking'[c].bookingNo = booking[c].bookingNo
    BY <1>1 DEF Cancel, TypeInv, ZincType, Row
  <2>2. CollectedTicketIsReal'
    BY <2>1 DEF NumbersInv, CollectedTicketIsReal, Real, TicketsOf, SoldGrows
  <2> QED
    BY <1>1, <2>2, QueueSame DEF Cancel
<1>2. ASSUME NEW b \in Bookings, Advance(b)
      PROVE  QueueNumbers' /\ CollectedTicketIsReal'
  BY <1>2, RowsSame, QueueSame DEF Advance
<1> QED
  BY <1>1, <1>2 DEF Environment

LEMMA NumbersInit == Init => NumbersInv
<1> SUFFICES ASSUME Init PROVE NumbersInv
  OBVIOUS
<1>1. BuyerNumbers
  BY DEF Init, BuyerInit, BuyerIdle, BuyerNumbers
<1>2. WorkNumbers
  BY DEF Init, RecovererInit, WorkIdle, NoItem, WorkNumbers
<1>3. QueueNumbers /\ CollectedTicketIsReal
  BY DEF Init, ZincInit, NewRow, QueueNumbers, CollectedTicketIsReal
<1> QED
  BY <1>1, <1>2, <1>3 DEF NumbersInv

LEMMA NumbersNext == TypeInv /\ NumbersInv /\ [Next]_vars => NumbersInv'
<1> SUFFICES ASSUME TypeInv, NumbersInv, [Next]_vars PROVE NumbersInv'
  OBVIOUS
<1>w. "loop" \in Workers /\ "cli" \in Workers
  BY DEF Workers
<1>1. CASE BuyerNext /\ UNCHANGED recovererVars
  BY <1>1, BuyerNumbersStep, WorkSame DEF recovererVars, NumbersInv
<1>2. CASE RecovererNext /\ UNCHANGED buyer
  <2>1. UNCHANGED sold
    BY <1>2
       DEF RecovererNext, LoopStep, CliStep, ProcessItem, StartCycle, Requeue,
           ParkExhausted, PushBack, DrainPop, DrainEnd, ExpireRecovery,
           ListRecovering, SkipQueued, SweepNext, SweepEnd, LoopCrash, CliBuying,
           CliRecovering, GetBooking, MarkRecovering, Scan, IsClaimed, FetchPdf,
           ReadFails, Resolve, Recycle, zincVars
  <2>2. SoldGrows
    BY <2>1, SoldStable
  <2>3. WorkNumbers' /\ QueueNumbers' /\ CollectedTicketIsReal'
    BY <1>2, <1>w, <2>2, LoopNumbers, RequeueNumbers, CliNumbers, ProcessItemNumbers
       DEF RecovererNext, LoopStep, CliStep
  <2> QED
    BY <1>2, <2>2, <2>3, BuyerSame DEF NumbersInv
<1>3. CASE (\E b \in Bookings : ManualStart(b)) /\ UNCHANGED buyer
  <2>1. PICK b \in Bookings : CliStart(b)
    BY <1>3 DEF ManualStart
  <2>2. SoldGrows
    BY <2>1, SoldStable DEF CliStart, zincVars
  <2> QED
    BY <1>3, <2>1, <2>2, CliNumbers, BuyerSame DEF NumbersInv
<1>4. CASE Environment /\ UNCHANGED <<buyer, recovererVars>>
  <2>1. SoldGrows
    BY <1>4, SoldStable DEF Environment, Cancel, Advance
  <2> QED
    BY <1>4, <2>1, EnvironmentNumbers, BuyerSame, WorkSame
       DEF NumbersInv, recovererVars
<1>5. CASE UNCHANGED vars
  <2>1. SoldGrows
    BY <1>5, SoldStable DEF vars
  <2> QED
    BY <1>5, <2>1, BuyerSame, WorkSame, QueueSame, RowsSame DEF NumbersInv, vars
<1> QED
  BY <1>1, <1>2, <1>3, <1>4, <1>5 DEF Next

(* Whoever reports a purchase to zinc, and however often replies are lost  *)
(* or processes crash, a booking's money is collected only against a       *)
(* ticket our account holds for its passenger.                             *)
THEOREM NumbersCorrect == Spec => []CollectedTicketIsReal
<1>1. Init => TypeInv /\ NumbersInv
  BY InitType, NumbersInit
<1>2. TypeInv /\ NumbersInv /\ [Next]_vars => (TypeInv /\ NumbersInv)'
  BY NextType, NumbersNext
<1>3. NumbersInv => CollectedTicketIsReal
  BY DEF NumbersInv
<1> QED
  BY <1>1, <1>2, <1>3, PTL DEF Spec
=============================================================================
