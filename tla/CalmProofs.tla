----------------------------- MODULE CalmProofs -----------------------------
(***************************************************************************)
(* What holds of Recovery in the deployment docs/RECOVERY.md assumes: one  *)
(* buyer replica, calls whose failure means they did not take effect, and  *)
(* nobody running the recover command; for any bookings and bounds.        *)
(***************************************************************************)
EXTENDS RecoveryProofs

Calm ==
  /\ \A y, z \in Buyers : y = z
  /\ LostReplies = FALSE
  /\ ManualRecover = FALSE

Loop == work["loop"]

\* A recover record of the booking is queued, or the loop holds it.
HasRecord(b) == b \in QueuedBookingIds \/ Loop.item.b = b

-----------------------------------------------------------------------------
(* Who may act on a booking: the invariant behind the order properties.    *)

\* A purchase in flight is Buying in zinc, and recovery knows nothing of it.
PurchaseAlone ==
  \A y \in Buyers : buyer[y].pc \in InPurchase =>
    booking[buyer[y].b].status = "Buying" /\ ~HasRecord(buyer[y].b)

\* A booking that can be bought again left no record behind.
RecordNotPending ==
  \A b \in Bookings : HasRecord(b) => booking[b].status # "Pending"

\* What is left of a sweep is Recovering, and nobody else's record.
SweepTargets ==
  /\ cycle.pc \notin {"queued", "sweep"} => cycle.todo = {}
  /\ \A b \in cycle.todo : booking[b].status = "Recovering" /\ Loop.item.b # b

\* Past its status checks the loop works on a booking zinc has in Recovering.
WorkOnRecovering ==
  Loop.pc \in {"scan", "isClaimed", "print", "complete", "duplicate", "recoverRevert"}
    => booking[Loop.item.b].status = "Recovering"

IdleHoldsNothing ==
  /\ Loop.pc = "idle" => Loop.item = NoItem
  /\ work["cli"] = WorkIdle

OrderInv ==
  /\ PurchaseAlone /\ RecordNotPending /\ SweepTargets /\ WorkOnRecovering
  /\ IdleHoldsNothing /\ OneRecordPerBooking /\ SweepSkipsLiveRecords

-----------------------------------------------------------------------------
(* What a call does when a failed one did nothing.                         *)

LEMMA CalmPost ==
  ASSUME Calm, NEW op, NEW b, NEW no, NEW reply, Post(op, b, no, reply)
  PROVE  \/ /\ reply = "ok" /\ Admits(op, b)
            /\ booking' = [booking EXCEPT ![b] = After(op, b, no)]
         \/ /\ reply # "ok" /\ UNCHANGED booking
            /\ reply = "rejected" => ~Admits(op, b)
BY DEF Post, Commit, Calm

LEMMA CalmPush ==
  ASSUME Calm, NEW item, NEW reply, PushItem(item, reply)
  PROVE  \/ reply = "ok" /\ queue' = Append(queue, item)
         \/ reply # "ok" /\ UNCHANGED queue
BY DEF PushItem, Calm

LEMMA PushedIds ==
  ASSUME queue \in Seq(Item), NEW item \in Item, queue' = Append(queue, item)
  PROVE  /\ QueuedBookingIds' = QueuedBookingIds \cup {item.b}
         /\ DOMAIN queue' = 1..(Len(queue) + 1) /\ DOMAIN queue = 1..Len(queue)
         /\ queue'[Len(queue) + 1] = item
         /\ \A i \in DOMAIN queue : queue'[i] = queue[i]
<1>1. /\ DOMAIN queue' = 1..(Len(queue) + 1) /\ DOMAIN queue = 1..Len(queue)
      /\ queue'[Len(queue) + 1] = item
      /\ \A i \in DOMAIN queue : queue'[i] = queue[i]
  OBVIOUS
<1>2. Len(queue) \in Nat
  OBVIOUS
<1>3. QueuedBookingIds' = QueuedBookingIds \cup {item.b}
  BY <1>1, <1>2 DEF QueuedBookingIds
<1> QED
  BY <1>1, <1>3

LEMMA PoppedIds ==
  ASSUME queue \in Seq(Item), queue # <<>>, OneRecordPerBooking, queue' = Tail(queue)
  PROVE  /\ QueuedBookingIds' = QueuedBookingIds \ {Head(queue).b}
         /\ Head(queue).b \in QueuedBookingIds
         /\ Head(queue) \in Item
         /\ \A i \in DOMAIN queue' : i + 1 \in DOMAIN queue /\ queue'[i] = queue[i + 1]
<1>1. /\ DOMAIN queue = 1..Len(queue) /\ DOMAIN queue' = 1..(Len(queue) - 1)
      /\ Len(queue) \in Nat \ {0} /\ Head(queue) = queue[1]
      /\ \A i \in 1..(Len(queue) - 1) : queue'[i] = queue[i + 1]
  OBVIOUS
<1>2. \A i \in DOMAIN queue : i # 1 => queue[i].b # queue[1].b
  BY <1>1 DEF OneRecordPerBooking
<1>3. QueuedBookingIds' \subseteq QueuedBookingIds \ {queue[1].b}
  BY <1>1, <1>2 DEF QueuedBookingIds
<1>4. ASSUME NEW i \in DOMAIN queue, queue[i].b # queue[1].b
      PROVE  queue[i].b \in QueuedBookingIds'
  <2>1. i - 1 \in DOMAIN queue' /\ queue'[i - 1] = queue[i]
    BY <1>1, <1>4
  <2> QED
    BY <2>1 DEF QueuedBookingIds
<1>5. QueuedBookingIds \ {queue[1].b} \subseteq QueuedBookingIds'
  BY <1>4 DEF QueuedBookingIds
<1>6. QueuedBookingIds' = QueuedBookingIds \ {queue[1].b}
  BY <1>3, <1>5
<1>7. queue[1].b \in QueuedBookingIds /\ queue[1] \in Item
  BY <1>1 DEF QueuedBookingIds
<1>8. \A i \in DOMAIN queue' : i + 1 \in DOMAIN queue /\ queue'[i] = queue[i + 1]
  BY <1>1
<1> QED
  BY <1>1, <1>6, <1>7, <1>8

-----------------------------------------------------------------------------
(* The order invariant is inductive.                                       *)

OrderButPurchase ==
  /\ RecordNotPending /\ SweepTargets /\ WorkOnRecovering
  /\ IdleHoldsNothing /\ OneRecordPerBooking /\ SweepSkipsLiveRecords

\* A change of one row that recovery is not working on.
LEMMA RowStep ==
  ASSUME TypeInv, OrderInv, NEW b \in Bookings,
         \A c \in Bookings \ {b} : booking'[c] = booking[c],
         booking[b].status # "Recovering",
         booking'[b].status = "Pending" => ~HasRecord(b),
         UNCHANGED <<queue, work, cycle>>
  PROVE  OrderButPurchase'
<1> USE DEF OrderInv
<1>1. UNCHANGED QueuedBookingIds /\ UNCHANGED Loop
  BY DEF QueuedBookingIds, Loop
<1>2. \A c : HasRecord(c)' <=> HasRecord(c)
  BY <1>1 DEF HasRecord
<1>3. RecordNotPending'
  BY <1>2 DEF RecordNotPending
<1>4. SweepTargets'
  BY <1>1 DEF SweepTargets, TypeInv, CycleState
<1>5. WorkOnRecovering'
  <2>1. Loop.pc # "idle" => Loop.item.b \in Bookings
    BY WorkFacts DEF TypeInv, Loop, Workers
  <2> QED
    BY <1>1, <2>1 DEF WorkOnRecovering
<1>6. IdleHoldsNothing' /\ OneRecordPerBooking' /\ SweepSkipsLiveRecords'
  BY <1>1 DEF IdleHoldsNothing, OneRecordPerBooking, SweepSkipsLiveRecords
<1> QED
  BY <1>3, <1>4, <1>5, <1>6 DEF OrderButPurchase

\* A purchase step that leaves the rows and the queue alone, or ends the purchase.
LEMMA PurchaseStep ==
  ASSUME Calm, TypeInv, OrderInv, NEW y \in Buyers,
         buyer'[y].pc \in InPurchase =>
           buyer[y].pc \in InPurchase /\ buyer'[y].b = buyer[y].b,
         UNCHANGED <<booking, queue, work>>
  PROVE  PurchaseAlone'
<1>1. \A c : HasRecord(c)' <=> HasRecord(c)
  BY DEF HasRecord, QueuedBookingIds, Loop
<1> QED
  BY <1>1 DEF PurchaseAlone, OrderInv, Calm

LEMMA PurchaseOver ==
  ASSUME Calm, NEW y \in Buyers, buyer'[y].pc \notin InPurchase
  PROVE  PurchaseAlone'
BY DEF PurchaseAlone, Calm

LEMMA RowsAlone ==
  ASSUME TypeInv, OrderInv, UNCHANGED <<booking, queue, work, cycle>>
  PROVE  OrderButPurchase'
<1>1. UNCHANGED QueuedBookingIds /\ UNCHANGED Loop
  BY DEF QueuedBookingIds, Loop
<1>2. \A c : HasRecord(c)' <=> HasRecord(c)
  BY <1>1 DEF HasRecord
<1> QED
  BY <1>1, <1>2
     DEF OrderInv, OrderButPurchase, RecordNotPending, SweepTargets, WorkOnRecovering,
         IdleHoldsNothing, OneRecordPerBooking, SweepSkipsLiveRecords

\* Where the buyer's control goes.
LEMMA GotoPc ==
  ASSUME TypeInv, NEW y \in Buyers, NEW pc, Goto(y, pc)
  PROVE  /\ buyer'[y].pc = pc
         /\ pc # "idle" => buyer'[y].b = buyer[y].b
BY DEF Goto, BuyerIdle, TypeInv, BuyerType, BuyerState

LEMMA AgainPc ==
  ASSUME TypeInv, NEW y \in Buyers, NEW retries, NEW giveUp, Again(y, retries, giveUp)
  PROVE  /\ buyer'[y].pc \in {buyer[y].pc, giveUp}
         /\ buyer'[y].pc # "idle" => buyer'[y].b = buyer[y].b
<1>1. CASE buyer[y].tries + 1 < retries
  BY <1>1 DEF Again, TypeInv, BuyerType, BuyerState
<1>2. CASE ~(buyer[y].tries + 1 < retries)
  BY <1>2, GotoPc DEF Again
<1> QED
  BY <1>1, <1>2

LEMMA BuyerOrder ==
  ASSUME Calm, TypeInv, OrderInv, BuyerNext, UNCHANGED recovererVars
  PROVE  OrderInv'
<1> SUFFICES PurchaseAlone' /\ OrderButPurchase'
  BY DEF OrderInv, OrderButPurchase
<1>in. /\ {"setPassenger", "pay", "complete", "printTicket", "completeWithZinc",
           "pushRecover", "revert"} \subseteq InPurchase
       /\ {"idle", "postBuying", "transitionRecovering"} \cap InPurchase = {}
  BY DEF InPurchase, BuyerPc
<1>u. UNCHANGED work /\ UNCHANGED cycle
  BY DEF recovererVars
<1>1. PICK y \in Buyers :
        (\E b \in Bookings : Pick(y, b)) \/ BuyerStep(y) \/ BuyerCrash(y)
  BY DEF BuyerNext
<1>b. buyer[y].pc # "idle" => buyer[y].b \in Bookings
  BY DEF TypeInv, BuyerType
<1>p. buyer[y].pc \in InPurchase =>
        booking[buyer[y].b].status = "Buying" /\ ~HasRecord(buyer[y].b)
  BY DEF OrderInv, PurchaseAlone
<1>row. \A b \in Bookings : booking[b] \in Row
  BY DEF TypeInv, ZincType
<1>2. ASSUME NEW b \in Bookings, Pick(y, b)
      PROVE  PurchaseAlone' /\ OrderButPurchase'
  <2>1. buyer'[y].pc = "postBuying"
    BY <1>2 DEF Pick, BuyerIdle, TypeInv, BuyerType
  <2> QED
    BY <1>in, <1>2, <1>u, <2>1, PurchaseOver, RowsAlone DEF Pick, zincVars
<1>3. CASE PostBuying(y)
  <2>1. PICK reply \in Reply :
          /\ Post("buying", buyer[y].b, 0, reply)
          /\ IF reply = "ok" THEN Goto(y, "setPassenger") ELSE Stop(y)
    BY <1>3 DEF PostBuying
  <2>2. CASE reply # "ok"
    BY <1>in, <1>3, <1>u, <2>1, <2>2, CalmPost, GotoPc, PurchaseOver, RowsAlone
       DEF PostBuying, Stop
  <2>3. CASE reply = "ok"
    <3> DEFINE b == buyer[y].b
    <3>1. /\ b \in Bookings /\ booking[b].status = "Pending"
          /\ booking' = [booking EXCEPT ![b] = After("buying", b, 0)]
      BY <1>3, <1>b, <2>1, <2>3, CalmPost DEF PostBuying, Admits, From
    <3>2. /\ booking'[b].status = "Buying"
          /\ \A c \in Bookings \ {b} : booking'[c] = booking[c]
      BY <3>1 DEF After, To, TypeInv, ZincType
    <3>3. buyer'[y].pc = "setPassenger" /\ buyer'[y].b = b
      BY <2>1, <2>3, GotoPc
    <3>4. ~HasRecord(b) /\ ~HasRecord(b)'
      BY <1>3, <1>u, <3>1, <3>3
         DEF OrderInv, RecordNotPending, HasRecord, QueuedBookingIds, Loop, PostBuying
    <3>5. PurchaseAlone'
      BY <1>in, <3>2, <3>3, <3>4 DEF PurchaseAlone, Calm
    <3>6. OrderButPurchase'
      BY <1>3, <1>u, <3>1, <3>2, RowStep DEF PostBuying
    <3> QED
      BY <3>5, <3>6
  <2> QED
    BY <2>2, <2>3
<1>4. CASE SetPassenger(y) \/ Pay(y) \/ Complete(y) \/ PrintTicket(y) \/ BuyerCrash(y)
  <2>1. UNCHANGED <<booking, queue>>
    BY <1>4 DEF SetPassenger, Pay, Complete, PrintTicket, BuyerCrash
  <2>2. buyer'[y].pc \in InPurchase =>
           buyer[y].pc \in InPurchase /\ buyer'[y].b = buyer[y].b
    <3>1. CASE SetPassenger(y)
      BY <1>in, <3>1, GotoPc DEF SetPassenger, Stop
    <3>2. CASE Pay(y)
      BY <1>in, <3>2, GotoPc DEF Pay, Stop
    <3>3. CASE Complete(y)
      BY <1>in, <3>3, GotoPc DEF Complete, Stop, TypeInv, BuyerType, BuyerState
    <3>4. CASE PrintTicket(y)
      BY <1>in, <3>4, GotoPc DEF PrintTicket
    <3>5. CASE BuyerCrash(y)
      BY <1>in, <3>5, GotoPc DEF BuyerCrash, Stop
    <3> QED
      BY <1>4, <3>1, <3>2, <3>3, <3>4, <3>5
  <2> QED
    BY <1>u, <2>1, <2>2, PurchaseStep, RowsAlone
<1>5. CASE CompleteWithZinc(y) \/ TransitionRecovering(y) \/ Revert(y)
  <2>1. PICK op \in {"complete", "recovering", "revert"}, no \in KtmbNo, reply \in Reply :
          /\ Post(op, buyer[y].b, no, reply)
          /\ reply = "ok" => buyer'[y].pc = "idle"
          /\ buyer'[y].pc \in InPurchase =>
               buyer[y].pc \in InPurchase /\ buyer'[y].b = buyer[y].b
          /\ op \in {"complete", "revert"} => buyer[y].pc \in InPurchase
    <3>1. CASE CompleteWithZinc(y)
      <4>1. PICK reply \in Reply :
              /\ Post("complete", buyer[y].b, buyer[y].no, reply)
              /\ IF reply = "ok" THEN Goto(y, "idle")
                 ELSE Again(y, CompleteRetries, "pushRecover")
        BY <3>1 DEF CompleteWithZinc, Stop
      <4>2. buyer[y].no \in KtmbNo /\ buyer[y].pc \in InPurchase
        BY <1>in, <3>1 DEF CompleteWithZinc, TypeInv, BuyerType, BuyerState
      <4>3. /\ reply = "ok" => buyer'[y].pc = "idle"
            /\ buyer'[y].pc # "idle" => buyer'[y].b = buyer[y].b
        BY <4>1, GotoPc, AgainPc
      <4> QED
        BY <1>in, <4>1, <4>2, <4>3
    <3>2. CASE TransitionRecovering(y)
      <4>1. PICK reply \in Reply :
              /\ Post("recovering", buyer[y].b, 0, reply)
              /\ IF reply = "ok" THEN Goto(y, "idle") ELSE Again(y, ParkRetries, "idle")
        BY <3>2 DEF TransitionRecovering, Stop
      <4>2. /\ reply = "ok" => buyer'[y].pc = "idle"
            /\ buyer'[y].pc \in {"idle", "transitionRecovering"}
        BY <3>2, <4>1, GotoPc, AgainPc DEF TransitionRecovering
      <4> QED
        BY <1>in, <4>1, <4>2, ZeroNo
    <3>3. CASE Revert(y)
      <4>1. PICK reply \in Reply : Post("revert", buyer[y].b, 0, reply)
        BY <3>3 DEF Revert
      <4>2. buyer'[y].pc = "idle" /\ buyer[y].pc = "revert"
        BY <3>3, GotoPc DEF Revert, Stop
      <4> QED
        BY <1>in, <4>1, <4>2, ZeroNo
    <3> QED
      BY <1>5, <3>1, <3>2, <3>3
  <2>u. UNCHANGED queue /\ buyer[y].pc # "idle"
    BY <1>5 DEF CompleteWithZinc, TransitionRecovering, Revert
  <2>2. CASE reply # "ok"
    BY <1>u, <2>1, <2>2, <2>u, CalmPost, PurchaseStep, RowsAlone
  <2>3. CASE reply = "ok"
    <3> DEFINE b == buyer[y].b
    <3>1. /\ b \in Bookings /\ booking[b].status \in From(op)
          /\ booking' = [booking EXCEPT ![b] = After(op, b, no)]
      BY <1>b, <2>1, <2>3, <2>u, CalmPost DEF Admits
    <3>2. /\ booking'[b].status = To(op)
          /\ \A c \in Bookings \ {b} : booking'[c] = booking[c]
      BY <3>1 DEF After, TypeInv, ZincType
    <3>3. op = "complete" => booking[b].status # "Recovering"
      BY <1>p, <2>1
    <3>4. booking[b].status # "Recovering"
      BY <3>1, <3>3, <2>1 DEF From
    <3>5. booking'[b].status = "Pending" => ~HasRecord(b)
      BY <1>p, <2>1, <3>2 DEF To
    <3>6. OrderButPurchase'
      BY <1>u, <2>u, <3>1, <3>2, <3>4, <3>5, RowStep
    <3> QED
      BY <1>in, <2>1, <2>3, <3>6, PurchaseOver
  <2> QED
    BY <2>2, <2>3
<1>6. CASE PushRecover(y)
  <2> DEFINE item == [b |-> buyer[y].b, no |-> buyer[y].no, attempts |-> 0]
  <2>1. PICK reply \in Reply :
          /\ PushItem(item, reply)
          /\ IF reply = "ok" THEN Goto(y, "transitionRecovering")
             ELSE Again(y, ParkRetries, "idle")
    BY <1>6 DEF PushRecover
  <2>2. item \in Item /\ item.b = buyer[y].b
    BY <1>6, <1>b DEF PushRecover, Item, TypeInv, BuyerType, BuyerState
  <2> HIDE DEF item
  <2>3. CASE reply # "ok"
    <3>1. buyer'[y].pc \in InPurchase => buyer'[y].b = buyer[y].b
      BY <1>in, <2>1, <2>3, AgainPc
    <3> QED
      BY <1>in, <1>6, <1>u, <2>1, <2>3, <3>1, CalmPush, PurchaseStep, RowsAlone DEF PushRecover
  <2>4. CASE reply = "ok"
    <3>1. queue' = Append(queue, item) /\ buyer'[y].pc = "transitionRecovering"
      BY <2>1, <2>4, CalmPush, GotoPc
    <3>2. /\ QueuedBookingIds' = QueuedBookingIds \cup {item.b}
          /\ DOMAIN queue' = 1..(Len(queue) + 1) /\ DOMAIN queue = 1..Len(queue)
          /\ queue'[Len(queue) + 1] = item
          /\ \A i \in DOMAIN queue : queue'[i] = queue[i]
          /\ Len(queue) \in Nat
      BY <3>1, <2>2, PushedIds DEF TypeInv, ZincType
    <3>3. booking[item.b].status = "Buying" /\ ~HasRecord(item.b) /\ item.b \in Bookings
      BY <1>in, <1>6, <1>b, <1>p, <2>2 DEF PushRecover
    <3>4. UNCHANGED booking /\ UNCHANGED Loop
      BY <1>6, <1>u DEF PushRecover, Loop
    <3>5. RecordNotPending'
      BY <3>2, <3>3, <3>4 DEF OrderInv, RecordNotPending, HasRecord
    <3>6. SweepTargets' /\ WorkOnRecovering' /\ IdleHoldsNothing'
      BY <1>u, <3>4 DEF OrderInv, SweepTargets, WorkOnRecovering, IdleHoldsNothing
    <3>7. SweepSkipsLiveRecords'
      BY <1>u, <3>2, <3>3 DEF OrderInv, SweepTargets, SweepSkipsLiveRecords
    <3>8. OneRecordPerBooking'
      <4>1. \A i \in DOMAIN queue : queue[i].b # item.b
        BY <3>3 DEF HasRecord, QueuedBookingIds
      <4>2. item.b # Loop.item.b
        BY <3>3 DEF HasRecord
      <4> QED
        BY <3>2, <3>4, <4>1, <4>2 DEF OrderInv, OneRecordPerBooking, Loop
    <3>9. PurchaseAlone'
      BY <1>in, <3>1, PurchaseOver
    <3> QED
      BY <3>5, <3>6, <3>7, <3>8, <3>9 DEF OrderButPurchase
  <2> QED
    BY <2>3, <2>4
<1> QED
  BY <1>1, <1>2, <1>3, <1>4, <1>5, <1>6 DEF BuyerStep

LEMMA QueueItems ==
  ASSUME TypeInv
  PROVE  \A i \in DOMAIN queue : queue[i].b \in Bookings
<1>1. queue \in Seq(Item)
  BY DEF TypeInv, ZincType
<1>2. \A i \in DOMAIN queue : queue[i] \in Item
  BY <1>1
<1> QED
  BY <1>2 DEF Item

\* The loop finishes an item, or takes a step with it, and may move its row.
LEMMA ItemStep ==
  ASSUME TypeInv, OrderInv, Loop.pc # "idle", NEW r,
         \A c \in Bookings \ {Loop.item.b} : booking'[c] = booking[c],
         work' = [work EXCEPT !["loop"] = r],
         \/ r = WorkIdle
         \/ /\ r.pc # "idle" /\ r.item.b = Loop.item.b
            /\ booking'[r.item.b].status # "Pending"
            /\ r.pc \in {"scan", "isClaimed", "print", "complete", "duplicate",
                         "recoverRevert"} => booking'[r.item.b].status = "Recovering",
         UNCHANGED <<queue, cycle, buyer>>
  PROVE  OrderInv'
<1> USE DEF OrderInv
<1>b. Loop.item.b \in Bookings /\ work \in [Workers -> WorkState]
  BY WorkFacts DEF TypeInv, Loop, Workers, WorkType
<1>r. Loop' = r /\ UNCHANGED QueuedBookingIds /\ work'["cli"] = work["cli"]
  BY <1>b DEF Loop, QueuedBookingIds, Workers
<1>i. NoItem.b \notin Bookings /\ WorkIdle.item = NoItem /\ WorkIdle.pc = "idle"
  BY ZincAssumption DEF NoItem, WorkIdle
<1>q. Loop.item.b \notin QueuedBookingIds
  BY DEF QueuedBookingIds, OneRecordPerBooking, Loop
<1>t. \A i \in DOMAIN queue : queue[i].b \in Bookings
  BY QueueItems
<1>h. \A c \in Bookings : HasRecord(c)' => HasRecord(c)
  BY <1>i, <1>r DEF HasRecord
<1>1. PurchaseAlone'
  <2>1. ASSUME NEW y \in Buyers, buyer[y].pc \in InPurchase
        PROVE  buyer[y].b \in Bookings /\ buyer[y].b # Loop.item.b
    BY <2>1 DEF TypeInv, BuyerType, InPurchase, PurchaseAlone, HasRecord
  <2> QED
    BY <1>i, <1>r, <2>1 DEF PurchaseAlone, HasRecord
<1>2. RecordNotPending'
  BY <1>b, <1>i, <1>q, <1>r DEF RecordNotPending, HasRecord
<1>3. SweepTargets'
  BY <1>i, <1>r DEF SweepTargets, TypeInv, CycleState
<1>4. WorkOnRecovering'
  BY <1>i, <1>r DEF WorkOnRecovering
<1>5. IdleHoldsNothing'
  BY <1>i, <1>r DEF IdleHoldsNothing
<1>6. OneRecordPerBooking'
  <2>1. \A i \in DOMAIN queue : queue[i].b # r.item.b
    BY <1>i, <1>q, <1>t DEF QueuedBookingIds
  <2> QED
    BY <1>r, <2>1 DEF OneRecordPerBooking, Loop
<1>7. SweepSkipsLiveRecords'
  BY <1>r DEF SweepSkipsLiveRecords
<1> QED
  BY <1>1, <1>2, <1>3, <1>4, <1>5, <1>6, <1>7

\* The same, for the steps' own vocabulary.
LEMMA EnterOrder ==
  ASSUME TypeInv, OrderInv, Loop.pc # "idle", NEW pc,
         Enter("loop", pc), pc # "idle",
         pc \in {"scan", "isClaimed", "print", "complete", "duplicate", "recoverRevert"}
           => booking[Loop.item.b].status = "Recovering",
         UNCHANGED <<booking, queue, cycle, buyer>>
  PROVE  OrderInv'
<1> DEFINE r == [Loop EXCEPT !.pc = pc]
<1>1. Loop \in WorkState /\ Loop.item.b \in Bookings
  BY WorkFacts DEF TypeInv, WorkType, Workers, Loop
<1>2. r.pc = pc /\ r.item = Loop.item
  BY <1>1 DEF WorkState
<1>3. work' = [work EXCEPT !["loop"] = r]
  BY DEF Enter, Loop
<1>4. booking[Loop.item.b].status # "Pending"
  BY <1>1 DEF OrderInv, RecordNotPending, HasRecord
<1> HIDE DEF r
<1> QED
  BY <1>2, <1>3, <1>4, ItemStep

LEMMA DoneOrder ==
  ASSUME TypeInv, OrderInv, Loop.pc # "idle", Done("loop"),
         \A c \in Bookings \ {Loop.item.b} : booking'[c] = booking[c],
         UNCHANGED <<queue, cycle, buyer>>
  PROVE  OrderInv'
BY ItemStep DEF Done

LEMMA FailedOrder ==
  ASSUME TypeInv, OrderInv, Loop.pc # "idle", Failed("loop"),
         UNCHANGED <<booking, queue, cycle, buyer>>
  PROVE  OrderInv'
BY EnterOrder DEF Failed

LEMMA DecideOrder ==
  ASSUME TypeInv, OrderInv, Loop.pc # "idle", Decide("loop"),
         \A c \in Bookings \ {Loop.item.b} : booking'[c] = booking[c],
         booking'[Loop.item.b].status = "Recovering",
         UNCHANGED <<queue, cycle, buyer>>
  PROVE  OrderInv'
<1> DEFINE item == Loop.item
           pc == IF item.no # 0 THEN "print"
                 ELSE IF clock[item.b] = "departed" THEN "manual" ELSE "scan"
           r == [Loop EXCEPT !.pc = pc, !.no = item.no]
<1>1. Loop \in WorkState
  BY DEF TypeInv, WorkType, Workers, Loop
<1>2. r.pc = pc /\ r.item = item
  BY <1>1 DEF WorkState
<1>3. work' = [work EXCEPT !["loop"] = r]
  BY DEF Decide, Loop
<1>4. pc # "idle"
  OBVIOUS
<1> HIDE DEF r, pc
<1> QED
  BY <1>2, <1>3, <1>4, ItemStep

LEMMA ProcessItemOrder ==
  ASSUME Calm, TypeInv, OrderInv, ProcessItem("loop"), UNCHANGED buyer
  PROVE  OrderInv'
<1> DEFINE b == Loop.item.b
<1>i. Loop.pc # "idle"
  BY DEF ProcessItem, GetBooking, MarkRecovering, Scan, IsClaimed, FetchPdf,
         ReadFails, Resolve, Recycle, At, Loop
<1>b. b \in Bookings /\ Loop \in WorkState
  BY <1>i, WorkFacts DEF TypeInv, WorkType, Workers, Loop
<1>w. Loop.pc \in {"scan", "isClaimed", "print", "complete", "duplicate", "recoverRevert"}
        => booking[b].status = "Recovering"
  BY DEF OrderInv, WorkOnRecovering
<1>1. CASE GetBooking("loop")
  <2>1. UNCHANGED <<booking, queue, cycle, buyer>>
    BY <1>1 DEF GetBooking, zincVars
  <2>2. \/ Done("loop") \/ Enter("loop", "manual") \/ Enter("loop", "recovering")
        \/ Decide("loop") /\ booking[b].status = "Recovering"
    BY <1>1 DEF GetBooking, Loop
  <2> QED
    BY <1>i, <2>1, <2>2, DoneOrder, EnterOrder, DecideOrder
<1>2. CASE MarkRecovering("loop")
  <2>1. PICK reply \in Reply :
          /\ Post("recovering", b, 0, reply)
          /\ IF reply = "ok" THEN Decide("loop") ELSE Failed("loop")
    BY <1>2 DEF MarkRecovering, Loop
  <2>2. UNCHANGED <<queue, cycle, buyer>>
    BY <1>2 DEF MarkRecovering
  <2>3. CASE reply = "ok"
    <3>1. booking' = [booking EXCEPT ![b] = After("recovering", b, 0)]
      BY <2>1, <2>3, CalmPost
    <3>2. /\ booking'[b].status = "Recovering"
          /\ \A c \in Bookings \ {b} : booking'[c] = booking[c]
      BY <1>b, <3>1 DEF After, To, TypeInv, ZincType
    <3> QED
      BY <1>i, <2>1, <2>2, <2>3, <3>2, DecideOrder
  <2>4. CASE reply # "ok"
    BY <1>i, <2>1, <2>2, <2>4, CalmPost, FailedOrder
  <2> QED
    BY <2>3, <2>4
<1>3. CASE Scan("loop")
  <2>1. UNCHANGED <<booking, queue, cycle, buyer>> /\ Loop.pc = "scan"
    BY <1>3 DEF Scan, zincVars, At, Loop
  <2>2. ASSUME NEW t, work' = [work EXCEPT !["loop"].pc = "isClaimed", !["loop"].no = t]
        PROVE  OrderInv'
    <3> DEFINE r == [Loop EXCEPT !.pc = "isClaimed", !.no = t]
    <3>1. r.pc = "isClaimed" /\ r.item = Loop.item
      BY <1>b DEF WorkState
    <3>2. work' = [work EXCEPT !["loop"] = r]
      BY <2>2 DEF Loop
    <3> HIDE DEF r
    <3> QED
      BY <1>i, <1>w, <2>1, <3>1, <3>2, ItemStep
  <2> QED
    BY <1>3, <1>i, <1>w, <2>1, <2>2, EnterOrder DEF Scan
<1>4. CASE IsClaimed("loop") \/ FetchPdf("loop")
  <2>1. UNCHANGED <<booking, queue, cycle, buyer>> /\ Loop.pc \in {"isClaimed", "print"}
    BY <1>4 DEF IsClaimed, FetchPdf, zincVars, At, Loop
  <2> QED
    BY <1>4, <1>i, <1>w, <2>1, EnterOrder DEF IsClaimed, FetchPdf
<1>5. CASE ReadFails("loop")
  <2>1. UNCHANGED <<booking, queue, cycle, buyer>>
    BY <1>5 DEF ReadFails
  <2> QED
    BY <1>5, <1>i, <2>1, FailedOrder DEF ReadFails
<1>6. CASE Resolve("loop")
  <2>1. PICK reply \in Reply :
          /\ Post(Loop.pc, b, Loop.no, reply)
          /\ IF reply = "ok" THEN Done("loop") ELSE Failed("loop")
    BY <1>6 DEF Resolve, Loop
  <2>2. UNCHANGED <<queue, cycle, buyer>>
    BY <1>6 DEF Resolve
  <2>3. reply = "ok" => \A c \in Bookings \ {b} : booking'[c] = booking[c]
    BY <2>1, CalmPost DEF TypeInv, ZincType
  <2> QED
    BY <1>i, <2>1, <2>2, <2>3, CalmPost, DoneOrder, FailedOrder
<1>7. CASE Recycle("loop")
  <2>1. PICK reply \in Reply :
          /\ Post("recoverRevert", b, 0, reply)
          /\ \/ reply = "error" /\ Failed("loop")
             \/ reply # "ok" /\ Enter("loop", "duplicate")
             \/ Done("loop")
    BY <1>7 DEF Recycle, Loop
  <2>2. UNCHANGED <<queue, cycle, buyer>> /\ Loop.pc = "recoverRevert"
    BY <1>7 DEF Recycle, At, Loop
  <2>3. \A c \in Bookings \ {b} : booking'[c] = booking[c]
    BY <2>1, CalmPost DEF TypeInv, ZincType
  <2>4. reply # "ok" => UNCHANGED booking
    BY <2>1, CalmPost
  <2> QED
    BY <1>i, <1>w, <2>1, <2>2, <2>3, <2>4, DoneOrder, FailedOrder, EnterOrder
<1> QED
  BY <1>1, <1>2, <1>3, <1>4, <1>5, <1>6, <1>7 DEF ProcessItem

\* The loop takes booking b in hand: nobody else has it.
LEMMA BeginOrder ==
  ASSUME TypeInv, OrderInv, Loop.pc = "idle",
         NEW item \in Item, Begin("loop", item, "getBooking"),
         \A c \in Bookings : c \in QueuedBookingIds' => c \in QueuedBookingIds /\ c # item.b,
         HasRecord(item.b) \/ booking[item.b].status = "Recovering",
         \A i \in DOMAIN queue' : \E j \in DOMAIN queue : queue'[i] = queue[j],
         \A i, j \in DOMAIN queue' : queue'[i].b = queue'[j].b => i = j,
         cycle'.todo = cycle.todo \ {item.b}, cycle'.pc = cycle.pc,
         UNCHANGED <<booking, buyer>>
  PROVE  OrderInv'
<1> USE DEF OrderInv
<1> DEFINE r == [WorkIdle EXCEPT !.pc = "getBooking", !.item = item]
<1>1. r.pc = "getBooking" /\ r.item = item /\ item.b \in Bookings
  BY DEF WorkIdle, Item
<1>2. work' = [work EXCEPT !["loop"] = r]
  BY DEF Begin
<1> HIDE DEF r
<1>3. Loop' = r /\ work'["cli"] = work["cli"]
  BY <1>2 DEF Loop, TypeInv, WorkType, Workers
<1>4. \A c \in Bookings : HasRecord(c)' => HasRecord(c) \/ c = item.b
  BY <1>1, <1>3 DEF HasRecord
<1>5. PurchaseAlone'
  <2>1. ASSUME NEW y \in Buyers, buyer[y].pc \in InPurchase
        PROVE  buyer[y].b \in Bookings /\ buyer[y].b # item.b
    BY <2>1 DEF TypeInv, BuyerType, InPurchase, PurchaseAlone
  <2> QED
    BY <1>4, <2>1 DEF PurchaseAlone
<1>6. RecordNotPending'
  BY <1>1, <1>4 DEF RecordNotPending
<1>7. SweepTargets'
  BY <1>1, <1>3 DEF SweepTargets, TypeInv, CycleState
<1>8. WorkOnRecovering' /\ IdleHoldsNothing'
  BY <1>1, <1>3 DEF WorkOnRecovering, IdleHoldsNothing
<1>9. OneRecordPerBooking'
  <2>1. \A i \in DOMAIN queue' : queue'[i].b # item.b
    BY <1>1 DEF QueuedBookingIds
  <2> QED
    BY <1>1, <1>3, <2>1 DEF OneRecordPerBooking, Loop
<1>10. SweepSkipsLiveRecords'
  BY DEF SweepSkipsLiveRecords, TypeInv, CycleState
<1> QED
  BY <1>5, <1>6, <1>7, <1>8, <1>9, <1>10

\* What a sweep still has to do, between two items.
CycleSound ==
  /\ cycle.pc \notin {"queued", "sweep"} => cycle.todo = {}
  /\ \A b \in cycle.todo : b \in Bookings /\ booking[b].status = "Recovering"
  /\ SweepSkipsLiveRecords

\* No booking moves, except that a recycled one may expire.
StatusKept ==
  \A b \in Bookings :
    \/ booking'[b].status = booking[b].status
    \/ booking[b].status = "Pending" /\ booking'[b].status = "Duplicate"

\* The loop moves between its phases with nothing in hand.
LEMMA CycleOrder ==
  ASSUME TypeInv, OrderInv, Loop.item = NoItem, StatusKept, CycleSound',
         UNCHANGED <<queue, work, buyer>>
  PROVE  OrderInv'
<1> USE DEF OrderInv, StatusKept, CycleSound
<1>1. UNCHANGED QueuedBookingIds /\ UNCHANGED Loop /\ NoItem.b \notin Bookings
  BY ZincAssumption DEF QueuedBookingIds, Loop, NoItem
<1>2. \A c : HasRecord(c)' <=> HasRecord(c)
  BY <1>1 DEF HasRecord
<1>3. PurchaseAlone'
  <2>1. \A y \in Buyers : buyer[y].pc \in InPurchase => buyer[y].b \in Bookings
    BY DEF TypeInv, BuyerType, InPurchase
  <2> QED
    BY <1>2, <2>1 DEF PurchaseAlone
<1>4. RecordNotPending'
  BY <1>2 DEF RecordNotPending
<1>5. SweepTargets'
  BY <1>1 DEF SweepTargets
<1>6. WorkOnRecovering'
  <2>1. Loop.pc # "idle" => Loop.item.b \in Bookings
    BY WorkFacts DEF TypeInv, Loop, Workers
  <2> QED
    BY <1>1, <2>1 DEF WorkOnRecovering
<1>7. IdleHoldsNothing' /\ OneRecordPerBooking' /\ SweepSkipsLiveRecords'
  BY <1>1 DEF IdleHoldsNothing, OneRecordPerBooking, SweepSkipsLiveRecords
<1> QED
  BY <1>3, <1>4, <1>5, <1>6, <1>7

LEMMA CrashOrder ==
  ASSUME TypeInv, OrderInv, LoopCrash, UNCHANGED buyer
  PROVE  OrderInv'
<1> USE DEF OrderInv
<1>1. /\ Loop' = WorkIdle /\ work'["cli"] = work["cli"]
      /\ UNCHANGED booking /\ UNCHANGED QueuedBookingIds /\ UNCHANGED queue
      /\ cycle' = CycleIdle
  BY DEF LoopCrash, Done, Loop, QueuedBookingIds, TypeInv, WorkType, Workers
<1>2. NoItem.b \notin Bookings /\ WorkIdle.item = NoItem /\ WorkIdle.pc = "idle"
  BY ZincAssumption DEF NoItem, WorkIdle
<1>3. \A c \in Bookings : HasRecord(c)' => HasRecord(c)
  BY <1>1, <1>2 DEF HasRecord
<1>4. PurchaseAlone'
  <2>1. \A y \in Buyers : buyer[y].pc \in InPurchase => buyer[y].b \in Bookings
    BY DEF TypeInv, BuyerType, InPurchase
  <2> QED
    BY <1>1, <1>3, <2>1 DEF PurchaseAlone
<1>5. RecordNotPending'
  BY <1>1, <1>3 DEF RecordNotPending
<1>6. SweepTargets' /\ WorkOnRecovering' /\ IdleHoldsNothing' /\ SweepSkipsLiveRecords'
  BY <1>1, <1>2
     DEF SweepTargets, WorkOnRecovering, IdleHoldsNothing, SweepSkipsLiveRecords, CycleIdle
<1>7. OneRecordPerBooking'
  BY <1>1, <1>2, QueueItems DEF OneRecordPerBooking, Loop
<1> QED
  BY <1>4, <1>5, <1>6, <1>7

LEMMA LoopOrder ==
  ASSUME TypeInv, OrderInv, UNCHANGED buyer,
         \/ \E sweep \in BOOLEAN : StartCycle(sweep)
         \/ DrainPop \/ DrainEnd \/ ExpireRecovery \/ ListRecovering
         \/ SkipQueued \/ SweepNext \/ SweepEnd \/ LoopCrash
  PROVE  OrderInv'
<1>c. /\ cycle.pc \notin {"queued", "sweep"} => cycle.todo = {}
      /\ \A b \in cycle.todo : b \in Bookings /\ booking[b].status = "Recovering"
      /\ cycle.pc = "sweep" => cycle.todo \cap QueuedBookingIds = {}
      /\ cycle \in CycleState
  BY DEF OrderInv, SweepTargets, SweepSkipsLiveRecords, TypeInv, CycleState
<1>l. Loop.pc = "idle" => Loop.item = NoItem
  BY DEF OrderInv, IdleHoldsNothing
<1>at. \A pc : LoopAt(pc) => cycle.pc = pc /\ Loop.pc = "idle"
  BY DEF LoopAt, At, Loop
<1>q. ASSUME Loop.item = NoItem, UNCHANGED <<booking, queue, work>>,
             cycle'.pc \notin {"queued", "sweep"} => cycle'.todo = {},
             \A b \in cycle'.todo : b \in Bookings /\ booking[b].status = "Recovering",
             cycle'.pc = "sweep" => cycle'.todo \cap QueuedBookingIds = {}
      PROVE  OrderInv'
  <2>1. StatusKept
    BY <1>q DEF StatusKept
  <2>2. CycleSound'
    <3>1. UNCHANGED QueuedBookingIds
      BY <1>q DEF QueuedBookingIds
    <3> QED
      BY <1>q, <3>1 DEF CycleSound, SweepSkipsLiveRecords
  <2>3. UNCHANGED <<queue, work, buyer>>
    BY <1>q
  <2> QED
    BY <1>q, <2>1, <2>2, <2>3, CycleOrder
<1>1. ASSUME NEW sweep \in BOOLEAN, StartCycle(sweep) PROVE OrderInv'
  <2>1. cycle'.pc = "drain" /\ cycle'.todo = {}
    BY <1>1 DEF StartCycle, CycleIdle
  <2>2. Loop.item = NoItem /\ UNCHANGED <<booking, queue, work>>
    BY <1>1, <1>l, <1>at DEF StartCycle, zincVars
  <2> QED
    BY <2>1, <2>2, <1>q
<1>2. CASE DrainPop
  <2>1. queue \in Seq(Item) /\ queue # <<>> /\ queue' = Tail(queue) /\ OneRecordPerBooking
    BY <1>2 DEF DrainPop, TypeInv, ZincType, OrderInv
  <2>2. /\ QueuedBookingIds' = QueuedBookingIds \ {Head(queue).b}
        /\ Head(queue).b \in QueuedBookingIds
        /\ Head(queue) \in Item
        /\ \A i \in DOMAIN queue' : i + 1 \in DOMAIN queue /\ queue'[i] = queue[i + 1]
    BY <2>1, PoppedIds
  <2>3. \A i, j \in DOMAIN queue' : queue'[i].b = queue'[j].b => i = j
    <3>1. DOMAIN queue' \subseteq Nat
      BY <2>1
    <3>2. ASSUME NEW i \in DOMAIN queue', NEW j \in DOMAIN queue',
                 queue'[i].b = queue'[j].b
          PROVE  i = j
      <4>1. i + 1 = j + 1
        BY <2>1, <2>2, <3>2 DEF OneRecordPerBooking
      <4> QED
        BY <3>1, <4>1
    <3> QED
      BY <3>2
  <2>4. cycle.pc = "drain" /\ cycle.todo = {} /\ Loop.pc = "idle"
    BY <1>2, <1>at, <1>c DEF DrainPop
  <2>5. cycle'.pc = cycle.pc /\ cycle'.todo = cycle.todo
    BY <1>2, <1>c DEF DrainPop, CycleState
  <2>6. HasRecord(Head(queue).b)
    BY <2>2 DEF HasRecord
  <2>7. Begin("loop", Head(queue), "getBooking") /\ UNCHANGED booking
    BY <1>2 DEF DrainPop
  <2> QED
    BY <2>2, <2>3, <2>4, <2>5, <2>6, <2>7, BeginOrder
<1>3. CASE DrainEnd
  <2>1. cycle'.pc = "expire" /\ cycle'.todo = cycle.todo /\ cycle.pc = "drain"
    BY <1>3, <1>at, <1>c DEF DrainEnd, LoopTo, CycleState
  <2>2. Loop.item = NoItem /\ UNCHANGED <<booking, queue, work>>
    BY <1>3, <1>l, <1>at DEF DrainEnd
  <2> QED
    BY <1>c, <2>1, <2>2, <1>q
<1>4. CASE ExpireRecovery
  <2>1. cycle'.pc \in {"list", "idle"} /\ cycle'.todo = {}
    BY <1>4, <1>at, <1>c DEF ExpireRecovery, LoopTo, CycleState, CycleIdle
  <2>2. ASSUME NEW b \in Bookings
        PROVE  \/ booking'[b].status = booking[b].status
               \/ booking[b].status = "Pending" /\ booking'[b].status = "Duplicate"
    <3> DEFINE row == [booking[b] EXCEPT !.status = "Duplicate", !.refunds = @ + 1]
    <3>1. row.status = "Duplicate"
      BY DEF TypeInv, ZincType, Row
    <3> HIDE DEF row
    <3>2. ExpireAll => booking'[b] = IF Expirable(b) THEN row ELSE booking[b]
      BY DEF ExpireAll, row
    <3>3. Expirable(b) => booking[b].status = "Pending"
      BY DEF Expirable
    <3>4. ExpireAll \/ UNCHANGED booking
      BY <1>4 DEF ExpireRecovery
    <3> QED
      BY <3>1, <3>2, <3>3, <3>4
  <2>3. Loop.item = NoItem /\ UNCHANGED <<queue, work>>
    BY <1>4, <1>l, <1>at DEF ExpireRecovery
  <2> QED
    <3>1. StatusKept
      BY <2>2 DEF StatusKept
    <3>2. CycleSound'
      BY <2>1 DEF CycleSound, SweepSkipsLiveRecords
    <3>3. UNCHANGED <<queue, work, buyer>>
      BY <2>3
    <3> QED
      BY <2>3, <3>1, <3>2, <3>3, CycleOrder
<1>5. CASE ListRecovering
  <2>1. /\ cycle'.pc = "queued"
        /\ cycle'.todo = {b \in Bookings : booking[b].status = "Recovering"}
    BY <1>5, <1>c DEF ListRecovering, CycleState
  <2>2. Loop.item = NoItem /\ UNCHANGED <<booking, queue, work>>
    BY <1>5, <1>l, <1>at DEF ListRecovering, zincVars
  <2> QED
    BY <2>1, <2>2, <1>q
<1>6. CASE SkipQueued
  <2>1. /\ cycle'.pc = "sweep"
        /\ cycle'.todo = cycle.todo \ (cycle.handled \cup QueuedBookingIds)
    BY <1>6, <1>c DEF SkipQueued, CycleState
  <2>2. Loop.item = NoItem /\ UNCHANGED <<booking, queue, work>>
    BY <1>6, <1>l, <1>at DEF SkipQueued, zincVars
  <2> QED
    BY <1>c, <2>1, <2>2, <1>q
<1>7. CASE SweepNext
  <2>1. PICK b \in cycle.todo :
          /\ Begin("loop", Reconstruct(b), "getBooking")
          /\ cycle' = [cycle EXCEPT !.todo = @ \ {b}]
    BY <1>7 DEF SweepNext
  <2>2. cycle'.pc = cycle.pc /\ cycle'.todo = cycle.todo \ {b} /\ cycle.pc = "sweep"
          /\ Loop.pc = "idle"
    BY <1>7, <1>at, <1>c, <2>1 DEF SweepNext, CycleState
  <2>3. /\ b \in Bookings /\ booking[b].status = "Recovering" /\ b \notin QueuedBookingIds
        /\ Reconstruct(b) \in Item /\ Reconstruct(b).b = b
    BY <1>c, <2>1, <2>2, ItemFacts DEF Reconstruct
  <2>4. UNCHANGED queue /\ UNCHANGED booking /\ UNCHANGED QueuedBookingIds
    BY <1>7 DEF SweepNext, zincVars, QueuedBookingIds
  <2>5. \A i, j \in DOMAIN queue' : queue'[i].b = queue'[j].b => i = j
    BY <2>4 DEF OrderInv, OneRecordPerBooking
  <2> QED
    BY <2>1, <2>2, <2>3, <2>4, <2>5, BeginOrder
<1>8. CASE SweepEnd
  <2>1. cycle'.pc = "idle" /\ cycle'.todo = {}
    BY <1>8 DEF SweepEnd, CycleIdle
  <2>2. Loop.item = NoItem /\ UNCHANGED <<booking, queue, work>>
    BY <1>8, <1>l, <1>at DEF SweepEnd
  <2> QED
    BY <2>1, <2>2, <1>q
<1>9. CASE LoopCrash
  BY <1>9, CrashOrder
<1> QED
  BY <1>1, <1>2, <1>3, <1>4, <1>5, <1>6, <1>7, <1>8, <1>9

LEMMA RequeueOrder ==
  ASSUME Calm, TypeInv, OrderInv, UNCHANGED buyer, Requeue \/ ParkExhausted \/ PushBack
  PROVE  OrderInv'
<1>i. Loop.pc # "idle"
  BY DEF Requeue, ParkExhausted, PushBack, At, Loop
<1>b. /\ Loop \in WorkState /\ Loop.item \in Item /\ Loop.item.b \in Bookings
      /\ booking[Loop.item.b].status # "Pending"
  BY <1>i, WorkFacts
     DEF TypeInv, WorkType, Workers, Loop, OrderInv, RecordNotPending, HasRecord
<1>1. CASE Requeue
  <2> DEFINE n == Loop.item.attempts + 1
             pc == IF n >= MaxAttempts THEN "parkExhausted" ELSE "push"
             item == [Loop.item EXCEPT !.attempts = n]
             r == [Loop EXCEPT !.item = item, !.pc = pc]
  <2>1. item.b = Loop.item.b
    BY <1>b DEF Item
  <2>2. work' = [work EXCEPT !["loop"] = r]
    BY <1>1 DEF Requeue, Loop
  <2>3. pc \in {"parkExhausted", "push"}
    OBVIOUS
  <2> HIDE DEF item, pc
  <2>4. r.item = item /\ r.pc = pc
    BY <1>b DEF WorkState
  <2> HIDE DEF r
  <2> QED
    BY <1>1, <1>b, <1>i, <2>1, <2>2, <2>3, <2>4, ItemStep DEF Requeue, zincVars
<1>2. CASE ParkExhausted
  <2>1. PICK reply \in Reply :
          /\ Post("manual", Loop.item.b, 0, reply)
          /\ IF reply = "ok" THEN Done("loop") ELSE Enter("loop", "push")
    BY <1>2 DEF ParkExhausted, Loop
  <2>2. UNCHANGED <<queue, cycle, buyer>>
    BY <1>2 DEF ParkExhausted
  <2>3. CASE reply = "ok"
    <3>1. \A c \in Bookings \ {Loop.item.b} : booking'[c] = booking[c]
      BY <2>1, CalmPost DEF TypeInv, ZincType
    <3> QED
      BY <1>i, <2>1, <2>2, <2>3, <3>1, DoneOrder
  <2>4. CASE reply # "ok"
    BY <1>i, <2>1, <2>2, <2>4, CalmPost, EnterOrder
  <2> QED
    BY <2>3, <2>4
<1>3. CASE PushBack
  <2>u. UNCHANGED <<booking, cycle, buyer>>
    BY <1>3 DEF PushBack
  <2>1. PICK reply \in Reply :
          /\ PushItem(Loop.item, reply)
          /\ IF reply = "ok" \/ Loop.tries + 1 >= RequeueRetries
               THEN Done("loop")
               ELSE work' = [work EXCEPT !["loop"].tries = @ + 1]
    BY <1>3 DEF PushBack, Loop
  <2>2. CASE reply # "ok"
    <3>1. UNCHANGED queue
      BY <2>1, <2>2, CalmPush
    <3>2. CASE Done("loop")
      BY <1>i, <2>u, <3>1, <3>2, DoneOrder
    <3>3. CASE work' = [work EXCEPT !["loop"].tries = @ + 1]
      <4> DEFINE r == [Loop EXCEPT !.tries = @ + 1]
      <4>1. r.item = Loop.item /\ r.pc = Loop.pc
        BY <1>b DEF WorkState
      <4>2. work' = [work EXCEPT !["loop"] = r]
        BY <3>3 DEF Loop
      <4>3. Loop.pc = "push"
        BY <1>3 DEF PushBack, At, Loop
      <4> HIDE DEF r
      <4> QED
        BY <1>b, <1>i, <2>u, <3>1, <4>1, <4>2, <4>3, ItemStep
    <3> QED
      BY <2>1, <2>2, <3>2, <3>3
  <2>3. CASE reply = "ok"
    <3>1. queue' = Append(queue, Loop.item) /\ Done("loop") /\ queue \in Seq(Item)
      BY <2>1, <2>3, CalmPush DEF TypeInv, ZincType
    <3>2. /\ QueuedBookingIds' = QueuedBookingIds \cup {Loop.item.b}
          /\ DOMAIN queue' = 1..(Len(queue) + 1) /\ DOMAIN queue = 1..Len(queue)
          /\ queue'[Len(queue) + 1] = Loop.item
          /\ \A i \in DOMAIN queue : queue'[i] = queue[i]
          /\ Len(queue) \in Nat
      BY <1>b, <3>1, PushedIds
    <3>3. Loop' = WorkIdle /\ work'["cli"] = work["cli"]
      BY <3>1 DEF Done, Loop, TypeInv, WorkType, Workers
    <3>4. NoItem.b \notin Bookings /\ WorkIdle.item = NoItem /\ WorkIdle.pc = "idle"
      BY ZincAssumption DEF NoItem, WorkIdle
    <3>5. \A c \in Bookings : HasRecord(c)' <=> HasRecord(c)
      BY <3>2, <3>3, <3>4 DEF HasRecord
    <3>6. PurchaseAlone'
      <4>1. \A y \in Buyers : buyer[y].pc \in InPurchase => buyer[y].b \in Bookings
        BY DEF TypeInv, BuyerType, InPurchase
      <4> QED
        BY <2>u, <3>5, <4>1 DEF OrderInv, PurchaseAlone
    <3>7. RecordNotPending'
      BY <2>u, <3>5 DEF OrderInv, RecordNotPending
    <3>8. SweepTargets' /\ WorkOnRecovering' /\ IdleHoldsNothing'
      BY <2>u, <3>3, <3>4
         DEF OrderInv, SweepTargets, WorkOnRecovering, IdleHoldsNothing, TypeInv, CycleState
    <3>9. SweepSkipsLiveRecords'
      BY <2>u, <3>2 DEF OrderInv, SweepTargets, SweepSkipsLiveRecords
    <3>10. OneRecordPerBooking'
      <4>1. \A i \in DOMAIN queue : queue[i].b # Loop.item.b
        BY DEF OrderInv, OneRecordPerBooking, Loop
      <4>2. \A i \in DOMAIN queue' : queue'[i].b \in Bookings
        BY <1>b, <3>2, QueueItems
      <4> QED
        BY <3>2, <3>3, <3>4, <4>1, <4>2 DEF OrderInv, OneRecordPerBooking, Loop
    <3> QED
      BY <3>6, <3>7, <3>8, <3>9, <3>10 DEF OrderInv
  <2> QED
    BY <2>2, <2>3
<1> QED
  BY <1>1, <1>2, <1>3

LEMMA EnvironmentOrder ==
  ASSUME TypeInv, OrderInv, Environment, UNCHANGED <<buyer, recovererVars>>
  PROVE  OrderInv'
<1>q. UNCHANGED <<queue, work, cycle, buyer>>
  BY DEF Environment, Cancel, Advance, recovererVars
<1>h. \A c : HasRecord(c)' <=> HasRecord(c)
  BY <1>q DEF HasRecord, QueuedBookingIds, Loop
<1>p. \A y \in Buyers : buyer[y].pc \in InPurchase =>
        booking[buyer[y].b].status = "Buying" /\ ~HasRecord(buyer[y].b)
  BY DEF OrderInv, PurchaseAlone
<1>1. ASSUME NEW b \in Bookings, Cancel(b) PROVE OrderInv'
  <2>1. /\ \A c \in Bookings \ {b} : booking'[c] = booking[c]
        /\ booking[b].status = "Pending" /\ booking'[b].status = "Cancelled"
    BY <1>1 DEF Cancel, TypeInv, ZincType, Row
  <2>2. OrderButPurchase'
    BY <1>q, <2>1, RowStep
  <2>3. PurchaseAlone'
    <3>1. \A y \in Buyers : buyer[y].pc \in InPurchase => buyer[y].b \in Bookings \ {b}
      BY <1>p, <2>1 DEF TypeInv, BuyerType, InPurchase
    <3> QED
      BY <1>q, <1>h, <1>p, <2>1, <3>1 DEF PurchaseAlone
  <2> QED
    BY <2>2, <2>3 DEF OrderInv, OrderButPurchase
<1>2. ASSUME NEW b \in Bookings, Advance(b) PROVE OrderInv'
  <2>1. UNCHANGED booking
    BY <1>2 DEF Advance
  <2>2. OrderButPurchase'
    BY <1>q, <2>1, RowsAlone
  <2>3. PurchaseAlone'
    BY <1>q, <1>h, <1>p, <2>1 DEF PurchaseAlone
  <2> QED
    BY <2>2, <2>3 DEF OrderInv, OrderButPurchase
<1> QED
  BY <1>1, <1>2 DEF Environment

LEMMA OrderInit == Init => OrderInv
<1> SUFFICES ASSUME Init PROVE OrderInv
  OBVIOUS
<1>1. /\ booking = [b \in Bookings |-> NewRow] /\ queue = <<>>
      /\ buyer = [y \in Buyers |-> BuyerIdle]
      /\ work = [w \in Workers |-> WorkIdle] /\ cycle = CycleIdle
  BY DEF Init, ZincInit, BuyerInit, RecovererInit
<1>2. /\ Loop = WorkIdle /\ work["cli"] = WorkIdle
      /\ WorkIdle.pc = "idle" /\ WorkIdle.item = NoItem
      /\ NoItem.b \notin Bookings
  BY <1>1, ZincAssumption DEF Loop, WorkIdle, NoItem, Workers
<1>3. DOMAIN queue = {} /\ QueuedBookingIds = {}
  BY <1>1 DEF QueuedBookingIds
<1>4. PurchaseAlone
  BY <1>1 DEF PurchaseAlone, BuyerIdle, InPurchase
<1>5. RecordNotPending
  BY <1>2, <1>3 DEF RecordNotPending, HasRecord
<1>6. SweepTargets /\ SweepSkipsLiveRecords
  BY <1>1 DEF SweepTargets, SweepSkipsLiveRecords, CycleIdle
<1>7. WorkOnRecovering /\ IdleHoldsNothing
  BY <1>2 DEF WorkOnRecovering, IdleHoldsNothing
<1>8. OneRecordPerBooking
  BY <1>3 DEF OneRecordPerBooking
<1> QED
  BY <1>4, <1>5, <1>6, <1>7, <1>8 DEF OrderInv

LEMMA OrderStutter ==
  ASSUME TypeInv, OrderInv, UNCHANGED vars
  PROVE  OrderInv'
<1>q. UNCHANGED <<booking, queue, work, cycle, buyer>>
  BY DEF vars
<1>1. OrderButPurchase'
  BY <1>q, RowsAlone
<1>2. PurchaseAlone'
  <2>1. \A c : HasRecord(c)' <=> HasRecord(c)
    BY <1>q DEF HasRecord, QueuedBookingIds, Loop
  <2> QED
    BY <1>q, <2>1 DEF OrderInv, PurchaseAlone
<1> QED
  BY <1>1, <1>2 DEF OrderInv, OrderButPurchase

LEMMA OrderNext ==
  ASSUME Calm
  PROVE  TypeInv /\ OrderInv /\ [Next]_vars => OrderInv'
<1> SUFFICES ASSUME TypeInv, OrderInv, [Next]_vars PROVE OrderInv'
  OBVIOUS
<1>1. CASE BuyerNext /\ UNCHANGED recovererVars
  BY <1>1, BuyerOrder
<1>2. CASE RecovererNext /\ UNCHANGED buyer
  <2>1. ~CliStep
    BY DEF OrderInv, IdleHoldsNothing, WorkIdle, CliStep, CliBuying, CliRecovering,
           ProcessItem, GetBooking, MarkRecovering, Scan, IsClaimed, FetchPdf,
           ReadFails, Resolve, Recycle, At
  <2> QED
    BY <1>2, <2>1, ProcessItemOrder, RequeueOrder, LoopOrder
       DEF RecovererNext, LoopStep
<1>3. CASE (\E b \in Bookings : ManualStart(b)) /\ UNCHANGED buyer
  BY <1>3 DEF ManualStart, Calm
<1>4. CASE Environment /\ UNCHANGED <<buyer, recovererVars>>
  BY <1>4, EnvironmentOrder
<1>5. CASE UNCHANGED vars
  BY <1>5, OrderStutter
<1> QED
  BY <1>1, <1>2, <1>3, <1>4, <1>5 DEF Next

LEMMA OrderAlways ==
  ASSUME Calm
  PROVE  Spec => []OrderInv
<1>1. Init => TypeInv /\ OrderInv
  BY InitType, OrderInit
<1>2. TypeInv /\ OrderInv /\ [Next]_vars => (TypeInv /\ OrderInv)'
  BY NextType, OrderNext
<1> QED
  BY <1>1, <1>2, PTL DEF Spec

(* With one replica and definite answers, neither the drain nor the sweep  *)
(* takes the booking of a purchase in flight: it stays Buying until its    *)
(* buyer reports, reverts or parks it.                                     *)
THEOREM PurchaseStaysBuying ==
  ASSUME Calm
  PROVE  Spec => []PurchaseIsBuying
<1>1. OrderInv => PurchaseIsBuying
  BY DEF OrderInv, PurchaseAlone, PurchaseIsBuying
<1> QED
  BY <1>1, OrderAlways, PTL

(* With one replica and definite answers, at most one recover record of a  *)
(* booking exists, queued or in the loop's hands, whatever is retried,     *)
(* re-queued, reconstructed or lost in a crash.                            *)
THEOREM OneWorkerPerBooking ==
  ASSUME Calm
  PROVE  Spec => []OneRecordPerBooking
<1>1. OrderInv => OneRecordPerBooking
  BY DEF OrderInv
<1> QED
  BY <1>1, OrderAlways, PTL

(* With one replica and definite answers, a sweep never re-derives a       *)
(* booking whose record is still queued, even one a buyer parked after the *)
(* sweep had read the queue.                                               *)
THEOREM SweepLeavesQueued ==
  ASSUME Calm
  PROVE  Spec => []SweepSkipsLiveRecords
<1>1. OrderInv => SweepSkipsLiveRecords
  BY DEF OrderInv
<1> QED
  BY <1>1, OrderAlways, PTL
=============================================================================
