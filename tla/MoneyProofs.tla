----------------------------- MODULE MoneyProofs ----------------------------
(***************************************************************************)
(* What the pipeline does to money in the calm deployment of CalmProofs,   *)
(* for any bookings, bounds and schedule, however many bookings of one     *)
(* departure a passenger has: no paid money is given back, and the pipeline*)
(* implements the abstract ledger Settlement.                              *)
(***************************************************************************)
EXTENDS CalmProofs

-----------------------------------------------------------------------------
(* Where the money and the tickets are.                                    *)

\* Whatever was captured for the booking, somebody has paid for.
Accounted(b) == \A t \in DOMAIN sold : sold[t] = b => ClaimedBy(t) # {}

OneTicketEach ==
  \A t, u \in DOMAIN sold : PassengerOf[sold[t]] = PassengerOf[sold[u]] => t = u

\* From the seat to the capture our account has no ticket of the passenger.
BuyWithoutTicket ==
  \A y \in Buyers : buyer[y].pc \in {"pay", "complete", "revert"} =>
    TicketsOf(PassengerOf[buyer[y].b]) = {}

\* The loop gives a booking back only when it has no ticket left to pay.
ReleaseAccounted ==
  Loop.pc \in {"recoverRevert", "duplicate"} => Accounted(Loop.item.b)

\* The status tells what happened to the money.
LedgerAgrees ==
  \A b \in Bookings :
    /\ booking[b].refunds > 0 <=> booking[b].status \in Refunding
    /\ booking[b].collects > 0 <=> booking[b].status = "Completed"
    /\ booking[b].bookingNo # 0 <=> booking[b].status = "Completed"

MoneyInv ==
  /\ CapturedNotReleased /\ OneTicketEach /\ BuyWithoutTicket /\ ReleaseAccounted
  /\ LedgerAgrees

\* What an event that ends bookings or sells a ticket leaves to the process.
Rows == CapturedNotReleased /\ OneTicketEach /\ LedgerAgrees

\* No step takes back a number zinc has recorded.
ClaimsStay == \A t \in DOMAIN sold : ClaimedBy(t) \subseteq ClaimedBy(t)'

\* A step of Settlement, or none.
PromiseStep == [Promise!Next]_(Promise!vars)

-----------------------------------------------------------------------------
(* The rows.                                                               *)

LEMMA SoldFacts ==
  ASSUME TypeInv
  PROVE  \A t \in DOMAIN sold : t \in Nat \ {0} /\ sold[t] \in Bookings
BY DEF TypeInv, ZincType

\* A booking without a passenger's ticket has none to account for.
LEMMA NothingToAccount ==
  ASSUME TypeInv, NEW b \in Bookings, TicketsOf(PassengerOf[b]) = {}
  PROVE  Accounted(b)
BY DEF Accounted, TicketsOf

\* The passenger has one ticket, so a claim on it accounts for all the booking's.
LEMMA ClaimAccounts ==
  ASSUME OneTicketEach, NEW b, NEW t, Real(b, t), ClaimedBy(t) # {}
  PROVE  Accounted(b)
BY DEF Accounted, OneTicketEach, Real, TicketsOf

\* A ticket is accounted for in zinc's rows as it is in the ledger.
LEMMA AccountedInPromise ==
  ASSUME NEW b, Accounted(b)
  PROVE  Promise!Accounted(b)
BY DEF Accounted, ClaimedBy, Promise!Accounted

\* Nothing happens to the rows or to our account.
LEMMA NoMoney ==
  ASSUME MoneyInv, UNCHANGED <<booking, sold>>, BuyWithoutTicket',
         ClaimsStay => ReleaseAccounted'
  PROVE  MoneyInv' /\ PromiseStep
<1>1. Rows'
  BY DEF MoneyInv, Rows, CapturedNotReleased, ClaimedBy, OneTicketEach, LedgerAgrees
<1>2. PromiseStep
  BY DEF PromiseStep, Promise!vars, Money
<1>3. ClaimsStay
  BY DEF ClaimsStay, ClaimedBy
<1> QED
  BY <1>1, <1>2, <1>3 DEF MoneyInv, Rows

LEMMA KeepsRelease ==
  ASSUME UNCHANGED <<sold, work>>, ReleaseAccounted
  PROVE  ClaimsStay => ReleaseAccounted'
<1>1. UNCHANGED Loop
  BY DEF Loop
<1>2. ASSUME ClaimsStay, Accounted(Loop.item.b) PROVE Accounted(Loop.item.b)'
  BY <1>1, <1>2 DEF ClaimsStay, Accounted
<1> QED
  BY <1>1, <1>2 DEF ReleaseAccounted

\* The numbers of a row before and after an endpoint commits.
LEMMA AfterRow ==
  ASSUME TypeInv, NEW op \in Ops, NEW b \in Bookings, NEW no
  PROVE  /\ After(op, b, no).status = To(op)
         /\ After(op, b, no).bookingNo = IF op = "complete" THEN no ELSE booking[b].bookingNo
         /\ After(op, b, no).collects = IF op = "complete" THEN booking[b].collects + 1
                                                           ELSE booking[b].collects
         /\ After(op, b, no).refunds = IF op = "duplicate" THEN booking[b].refunds + 1
                                                           ELSE booking[b].refunds
         /\ booking[b].collects \in Nat /\ booking[b].refunds \in Nat
<1>1. booking[b].collects \in Nat /\ booking[b].refunds \in Nat
  BY DEF TypeInv, ZincType, Row
<1> QED
  BY <1>1 DEF After

LEMMA CallMoney ==
  ASSUME TypeInv, NumbersInv, MoneyInv,
         NEW op \in Ops, NEW b \in Bookings, NEW no \in KtmbNo,
         Admits(op, b), booking' = [booking EXCEPT ![b] = After(op, b, no)],
         UNCHANGED sold,
         op = "complete" => Real(b, no),
         op \in {"revert", "recoverRevert", "duplicate"} => Accounted(b)
  PROVE  Rows' /\ ClaimsStay /\ PromiseStep
<1> DEFINE row == After(op, b, no)
<1>r. /\ row.status = To(op)
      /\ row.bookingNo = IF op = "complete" THEN no ELSE booking[b].bookingNo
      /\ row.collects = IF op = "complete" THEN booking[b].collects + 1
                                           ELSE booking[b].collects
      /\ row.refunds = IF op = "duplicate" THEN booking[b].refunds + 1
                                           ELSE booking[b].refunds
      /\ booking[b].collects \in Nat /\ booking[b].refunds \in Nat
  BY AfterRow
<1>c. /\ booking'[b] = row
      /\ \A c \in Bookings \ {b} : booking'[c] = booking[c]
  BY DEF TypeInv, ZincType
<1> HIDE DEF row
<1>f. /\ booking[b].status \in From(op)
      /\ From(op) \subseteq {"Pending", "Buying", "Recovering", "RequireManualIntervention"}
  BY DEF Admits, From, Ops, Live
<1>l. /\ booking[b].refunds = 0 /\ booking[b].collects = 0 /\ booking[b].bookingNo = 0
  BY <1>f, <1>r DEF MoneyInv, LedgerAgrees, Refunding
<1>n. op = "complete" => no # 0 /\ no \in DOMAIN sold
  BY SoldFacts DEF Real, TicketsOf
<1>k. ClaimsStay
  BY <1>c, <1>l, SoldFacts DEF ClaimsStay, ClaimedBy
<1>1. CapturedNotReleased'
  <2> DEFINE Held == {"Buying", "Recovering", "RequireManualIntervention"}
  <2> SUFFICES ASSUME NEW t \in DOMAIN sold, ClaimedBy(t)' = {}
               PROVE  booking'[sold[t]].status \in Held
    BY DEF CapturedNotReleased
  <2>1. sold[t] \in Bookings /\ booking[sold[t]].status \in Held
    BY <1>k, SoldFacts DEF ClaimsStay, MoneyInv, CapturedNotReleased
  <2>2. CASE sold[t] # b
    BY <1>c, <2>1, <2>2
  <2>3. CASE sold[t] = b
    <3>1. op \notin {"revert", "recoverRevert", "duplicate"}
      BY <1>k, <2>3 DEF ClaimsStay, Accounted
    <3>2. ASSUME op = "complete" PROVE FALSE
      <4>1. no = t
        BY <1>n, <2>3, <3>2 DEF MoneyInv, OneTicketEach, Real, TicketsOf
      <4>2. b \in ClaimedBy(t)'
        BY <1>c, <1>r, <3>2, <4>1 DEF ClaimedBy
      <4> QED
        BY <4>2
    <3>3. To(op) \in Held
      BY <3>1, <3>2 DEF To, Ops
    <3> QED
      BY <1>c, <1>r, <2>3, <3>3
  <2> QED
    BY <2>2, <2>3
<1>2. OneTicketEach'
  BY DEF MoneyInv, OneTicketEach
<1>3. LedgerAgrees'
  <2>1. /\ row.refunds > 0 <=> row.status \in Refunding
        /\ row.collects > 0 <=> row.status = "Completed"
        /\ row.bookingNo # 0 <=> row.status = "Completed"
    BY <1>r, <1>l, <1>n DEF To, Ops, Refunding
  <2> QED
    BY <1>c, <2>1 DEF MoneyInv, LedgerAgrees
<1>4. PromiseStep
  <2>1. Money(b) = "held" /\ \A c \in Bookings \ {b} : Money(c)' = Money(c)
    BY <1>l, <1>c DEF Money
  <2>2. CASE op = "complete"
    <3>1. Money(b)' = "collected" /\ booking'[b].bookingNo = no
      BY <1>c, <1>r, <1>l, <2>2 DEF Money
    <3>2. \A c \in Bookings : Money(c)' = IF c = b THEN "collected" ELSE Money(c)
      BY <2>1, <3>1
    <3>3. \A c \in Bookings :
            booking'[c].bookingNo = IF c = b THEN no ELSE booking[c].bookingNo
      BY <1>c, <3>1
    <3>4. no \in DOMAIN sold /\ no \in Promise!Tickets(b)
      BY <2>2 DEF Real, TicketsOf, Promise!Tickets
    <3>5. Promise!Collect(b, no)
      <4> DEFINE m == [c \in Bookings |-> Money(c)]
                 k == [c \in Bookings |-> booking[c].bookingNo]
      <4>1. m' = [m EXCEPT ![b] = "collected"]
        BY <3>2
      <4>2. k' = [k EXCEPT ![b] = no]
        BY <3>3
      <4> QED
        BY <2>1, <3>4, <4>1, <4>2 DEF Promise!Collect
    <3> QED
      BY <3>4, <3>5 DEF PromiseStep, Promise!Next
  <2>3. CASE op = "duplicate"
    <3>1. Money(b)' = "refunded" /\ booking'[b].bookingNo = booking[b].bookingNo
      BY <1>c, <1>r, <1>l, <2>3 DEF Money
    <3>2. Promise!Accounted(b)
      BY <2>3, AccountedInPromise
    <3>3. \A c \in Bookings : Money(c)' = IF c \in {b} THEN "refunded" ELSE Money(c)
      BY <2>1, <3>1
    <3>4. \A c \in Bookings : booking'[c].bookingNo = booking[c].bookingNo
      BY <1>c, <3>1
    <3>5. Promise!Refund({b})
      BY <2>1, <3>2, <3>3, <3>4 DEF Promise!Refund
    <3> QED
      BY <3>5 DEF PromiseStep, Promise!Next
  <2>4. CASE op \notin {"complete", "duplicate"}
    <3>1. Money(b)' = Money(b) /\ booking'[b].bookingNo = booking[b].bookingNo
      BY <1>c, <1>r, <1>l, <2>4 DEF Money
    <3> QED
      BY <1>c, <2>1, <3>1 DEF PromiseStep, Promise!vars
  <2> QED
    BY <2>2, <2>3, <2>4
<1> QED
  BY <1>1, <1>2, <1>3, <1>4, <1>k DEF Rows

\* A call about b as its caller sees it, when a failed one did nothing.
LEMMA PostMoney ==
  ASSUME Calm, TypeInv, NumbersInv, MoneyInv,
         NEW op \in Ops, NEW b \in Bookings, NEW no \in KtmbNo, NEW reply,
         Post(op, b, no, reply), UNCHANGED sold,
         op = "complete" => Real(b, no),
         op \in {"revert", "recoverRevert", "duplicate"} => Accounted(b),
         BuyWithoutTicket', ClaimsStay => ReleaseAccounted'
  PROVE  MoneyInv' /\ PromiseStep
<1>1. CASE UNCHANGED booking
  BY <1>1, NoMoney
<1>2. CASE Admits(op, b) /\ booking' = [booking EXCEPT ![b] = After(op, b, no)]
  BY <1>2, CallMoney DEF MoneyInv, Rows
<1> QED
  BY <1>1, <1>2, CalmPost

-----------------------------------------------------------------------------
(* The buyer.                                                              *)

\* KTMB captures a ticket for the booking a buyer is paying.
LEMMA CaptureMoney ==
  ASSUME Calm, TypeInv, OrderInv, MoneyInv, NEW y \in Buyers,
         buyer[y].pc = "complete", Capture(y), UNCHANGED <<booking, work>>,
         buyer'[y].pc \in {"printTicket", "pushRecover", "idle"}
  PROVE  MoneyInv' /\ PromiseStep
<1> DEFINE b == buyer[y].b
<1>1. /\ b \in Bookings /\ booking[b].status = "Buying" /\ ~HasRecord(b)
  BY DEF TypeInv, BuyerType, OrderInv, PurchaseAlone, InPurchase, BuyerPc
<1>2. \A t \in DOMAIN sold : PassengerOf[sold[t]] # PassengerOf[b]
  BY DEF MoneyInv, BuyWithoutTicket, TicketsOf
<1>3. sold' = Append(sold, b) /\ sold \in Seq(Bookings)
  BY DEF Capture, TypeInv, ZincType
<1> HIDE DEF b
<1>4. /\ DOMAIN sold' = 1..(Len(sold) + 1) /\ DOMAIN sold = 1..Len(sold)
      /\ Len(sold) \in Nat /\ sold'[Len(sold) + 1] = b
      /\ \A t \in DOMAIN sold : sold'[t] = sold[t]
  BY <1>3
<1>5. \A t \in DOMAIN sold' : sold'[t] = b \/ t \in DOMAIN sold
  BY <1>4
<1>k. \A t : ClaimedBy(t)' = ClaimedBy(t)
  BY DEF ClaimedBy
<1>6. CapturedNotReleased'
  <2> SUFFICES ASSUME NEW t \in DOMAIN sold', ClaimedBy(t) = {}
               PROVE  booking[sold'[t]].status
                        \in {"Buying", "Recovering", "RequireManualIntervention"}
    BY <1>k DEF CapturedNotReleased
  <2> QED
    BY <1>1, <1>4, <1>5 DEF MoneyInv, CapturedNotReleased
<1>7. OneTicketEach'
  BY <1>2, <1>4 DEF MoneyInv, OneTicketEach
<1>8. BuyWithoutTicket'
  BY DEF BuyWithoutTicket, Calm
<1>9. ReleaseAccounted'
  <2>1. UNCHANGED Loop /\ Loop.item.b # b
    BY <1>1 DEF Loop, HasRecord
  <2> SUFFICES ASSUME Loop.pc \in {"recoverRevert", "duplicate"},
                      NEW t \in DOMAIN sold', sold'[t] = Loop.item.b
               PROVE  ClaimedBy(t) # {}
    BY <1>k, <2>1 DEF ReleaseAccounted, Accounted
  <2>2. t \in DOMAIN sold /\ sold[t] = Loop.item.b
    BY <1>4, <1>5, <2>1
  <2> QED
    BY <2>2 DEF MoneyInv, ReleaseAccounted, Accounted
<1>10. LedgerAgrees'
  BY DEF MoneyInv, LedgerAgrees
<1>11. PromiseStep
  <2>1. Money(b) = "held"
    BY <1>1 DEF MoneyInv, LedgerAgrees, Refunding, Money, TypeInv, ZincType, Row
  <2>2. \A c \in Bookings : Money(c)' = Money(c)
    BY DEF Money
  <2>3. Promise!Tickets(b) = {}
    BY <1>2 DEF Promise!Tickets
  <2>4. Promise!Buy(b)
    BY <1>1, <1>3, <2>1, <2>2, <2>3 DEF Promise!Buy
  <2> QED
    BY <1>1, <2>4 DEF PromiseStep, Promise!Next
<1> QED
  BY <1>6, <1>7, <1>8, <1>9, <1>10, <1>11 DEF MoneyInv

LEMMA BuyerMoney ==
  ASSUME Calm, TypeInv, OrderInv, NumbersInv, MoneyInv,
         BuyerNext, UNCHANGED recovererVars
  PROVE  MoneyInv' /\ PromiseStep
<1>1. PICK y \in Buyers :
        (\E b \in Bookings : Pick(y, b)) \/ BuyerStep(y) \/ BuyerCrash(y)
  BY DEF BuyerNext
<1>u. UNCHANGED work
  BY DEF recovererVars
<1>b. buyer[y].pc # "idle" => buyer[y].b \in Bookings
  BY DEF TypeInv, BuyerType
<1>r. UNCHANGED sold => (ClaimsStay => ReleaseAccounted')
  BY <1>u, KeepsRelease DEF MoneyInv
<1>n. buyer'[y].pc \notin {"pay", "complete", "revert"} => BuyWithoutTicket'
  BY DEF BuyWithoutTicket, Calm
<1>p. ASSUME NEW op \in Ops, NEW no \in KtmbNo, NEW reply, buyer[y].pc # "idle",
             Post(op, buyer[y].b, no, reply), UNCHANGED sold,
             op = "complete" => Real(buyer[y].b, no),
             op \in {"revert", "recoverRevert", "duplicate"} => Accounted(buyer[y].b),
             buyer'[y].pc \notin {"pay", "complete", "revert"}
      PROVE  MoneyInv' /\ PromiseStep
  BY <1>b, <1>n, <1>p, <1>r, PostMoney
<1>q. ASSUME UNCHANGED <<booking, sold>>, buyer'[y].pc \notin {"pay", "complete", "revert"}
      PROVE  MoneyInv' /\ PromiseStep
  BY <1>n, <1>q, <1>r, NoMoney
<1>2. ASSUME NEW b \in Bookings, Pick(y, b) PROVE MoneyInv' /\ PromiseStep
  <2>1. buyer'[y].pc = "postBuying"
    BY <1>2 DEF Pick, TypeInv, BuyerType, BuyerIdle
  <2> QED
    BY <1>2, <1>q, <2>1 DEF Pick, zincVars
<1>3. CASE PostBuying(y)
  <2>1. PICK reply \in Reply :
          /\ Post("buying", buyer[y].b, 0, reply)
          /\ IF reply = "ok" THEN Goto(y, "setPassenger") ELSE Stop(y)
    BY <1>3 DEF PostBuying
  <2>2. buyer'[y].pc \in {"setPassenger", "idle"}
    BY <2>1, GotoPc DEF Stop
  <2>3. buyer[y].pc # "idle" /\ UNCHANGED sold /\ "buying" \in Ops
    BY <1>3 DEF PostBuying, Ops
  <2> QED
    BY <1>p, <2>1, <2>2, <2>3, ZeroNo
<1>4. CASE SetPassenger(y)
  <2>1. UNCHANGED <<booking, sold>>
    BY <1>4 DEF SetPassenger
  <2>2. CASE TicketsOf(PassengerOf[buyer[y].b]) = {} /\ Goto(y, "pay")
    <3>1. buyer'[y].pc = "pay" /\ buyer'[y].b = buyer[y].b /\ buyer[y].b \in Bookings
      BY <1>4, <1>b, <2>2, GotoPc DEF SetPassenger
    <3>2. BuyWithoutTicket'
      BY <2>1, <2>2, <3>1 DEF BuyWithoutTicket, TicketsOf, Calm
    <3> QED
      BY <1>r, <2>1, <3>2, NoMoney
  <2>3. CASE Goto(y, "pushRecover") \/ Stop(y)
    BY <1>q, <2>1, <2>3, GotoPc DEF Stop
  <2> QED
    BY <1>4, <2>2, <2>3 DEF SetPassenger
<1>5. CASE Pay(y)
  <2>1. UNCHANGED <<booking, sold>>
    BY <1>5 DEF Pay
  <2>2. buyer'[y].pc = "idle" \/ buyer'[y].b = buyer[y].b
    BY <1>5, GotoPc DEF Pay, Stop
  <2>3. TicketsOf(PassengerOf[buyer[y].b]) = {}
    BY <1>5 DEF Pay, MoneyInv, BuyWithoutTicket
  <2>4. BuyWithoutTicket'
    BY <2>1, <2>2, <2>3 DEF BuyWithoutTicket, TicketsOf, Calm
  <2> QED
    BY <1>r, <2>1, <2>4, NoMoney
<1>6. CASE Complete(y)
  <2>1. UNCHANGED <<booking, work>> /\ buyer[y].pc = "complete"
    BY <1>6, <1>u DEF Complete
  <2>2. buyer'[y].pc \in {"printTicket", "pushRecover", "idle"}
    BY <1>6, GotoPc DEF Complete, Stop, TypeInv, BuyerType, BuyerState
  <2>3. Capture(y) \/ UNCHANGED sold
    BY <1>6 DEF Complete
  <2> QED
    BY <1>q, <2>1, <2>2, <2>3, CaptureMoney
<1>7. CASE PrintTicket(y) \/ PushRecover(y) \/ BuyerCrash(y)
  <2>1. UNCHANGED <<booking, sold>>
    BY <1>7 DEF PrintTicket, PushRecover, BuyerCrash
  <2>2. buyer'[y].pc \in {"completeWithZinc", "pushRecover", "transitionRecovering", "idle"}
    BY <1>7, GotoPc, AgainPc DEF PrintTicket, PushRecover, BuyerCrash, Stop
  <2> QED
    BY <1>q, <2>1, <2>2
<1>8. CASE CompleteWithZinc(y)
  <2>1. PICK reply \in Reply :
          /\ Post("complete", buyer[y].b, buyer[y].no, reply)
          /\ IF reply = "ok" THEN Stop(y) ELSE Again(y, CompleteRetries, "pushRecover")
    BY <1>8 DEF CompleteWithZinc
  <2>2. buyer[y].pc = "completeWithZinc" /\ UNCHANGED sold /\ "complete" \in Ops
    BY <1>8 DEF CompleteWithZinc, Ops
  <2>3. buyer'[y].pc \in {"completeWithZinc", "pushRecover", "idle"}
    BY <2>1, <2>2, GotoPc, AgainPc DEF Stop
  <2>4. Real(buyer[y].b, buyer[y].no) /\ buyer[y].no \in KtmbNo
    BY <2>2 DEF NumbersInv, BuyerNumbers, TypeInv, BuyerType, BuyerState
  <2> QED
    BY <1>p, <2>1, <2>2, <2>3, <2>4
<1>9. CASE TransitionRecovering(y)
  <2>1. PICK reply \in Reply :
          /\ Post("recovering", buyer[y].b, 0, reply)
          /\ IF reply = "ok" THEN Stop(y) ELSE Again(y, ParkRetries, "idle")
    BY <1>9 DEF TransitionRecovering
  <2>2. buyer[y].pc = "transitionRecovering" /\ UNCHANGED sold /\ "recovering" \in Ops
    BY <1>9 DEF TransitionRecovering, Ops
  <2>3. buyer'[y].pc \in {"transitionRecovering", "idle"}
    BY <2>1, <2>2, GotoPc, AgainPc DEF Stop
  <2> QED
    BY <1>p, <2>1, <2>2, <2>3, ZeroNo
<1>10. CASE Revert(y)
  <2>1. PICK reply \in Reply : Post("revert", buyer[y].b, 0, reply)
    BY <1>10 DEF Revert
  <2>2. buyer[y].pc = "revert" /\ UNCHANGED sold /\ "revert" \in Ops
    BY <1>10 DEF Revert, Ops
  <2>3. buyer'[y].pc = "idle" /\ TicketsOf(PassengerOf[buyer[y].b]) = {}
    BY <1>10, <2>2, GotoPc DEF Revert, Stop, MoneyInv, BuyWithoutTicket
  <2>4. Accounted(buyer[y].b)
    BY <1>b, <2>2, <2>3, NothingToAccount
  <2> QED
    BY <1>p, <2>1, <2>2, <2>3, <2>4, ZeroNo
<1> QED
  BY <1>1, <1>2, <1>3, <1>4, <1>5, <1>6, <1>7, <1>8, <1>9, <1>10 DEF BuyerStep

-----------------------------------------------------------------------------
(* The recoverer.                                                          *)

\* Where the loop's control goes.
LEMMA LoopMoves ==
  ASSUME TypeInv, NEW pc
  PROVE  /\ Enter("loop", pc) => Loop'.pc = pc /\ Loop'.item = Loop.item
         /\ Done("loop") => Loop'.pc = "idle"
         /\ Failed("loop") => Loop'.pc = "requeue"
         /\ Decide("loop") => Loop'.pc \in {"print", "manual", "scan"}
<1>1. work \in [Workers -> WorkState] /\ "loop" \in Workers /\ Loop \in WorkState
  BY DEF TypeInv, WorkType, Workers, Loop
<1>2. ASSUME NEW q, Enter("loop", q) PROVE Loop'.pc = q /\ Loop'.item = Loop.item
  BY <1>1, <1>2 DEF Enter, Loop, WorkState
<1>3. Done("loop") => Loop'.pc = "idle"
  BY <1>1 DEF Done, Loop, WorkIdle
<1>4. Failed("loop") => Loop'.pc = "requeue"
  BY <1>2 DEF Failed
<1>5. Decide("loop") => Loop'.pc \in {"print", "manual", "scan"}
  BY <1>1 DEF Decide, Loop, WorkState
<1> QED
  BY <1>2, <1>3, <1>4, <1>5

LEMMA ProcessItemMoney ==
  ASSUME Calm, TypeInv, NumbersInv, MoneyInv, ProcessItem("loop"), UNCHANGED buyer
  PROVE  MoneyInv' /\ PromiseStep
<1> DEFINE b == Loop.item.b
<1>i. Loop.pc # "idle"
  BY DEF ProcessItem, GetBooking, MarkRecovering, Scan, IsClaimed, FetchPdf,
         ReadFails, Resolve, Recycle, At, Loop
<1>b. b \in Bookings /\ Loop \in WorkState /\ Loop.no \in KtmbNo
  BY <1>i, WorkFacts DEF TypeInv, Loop, Workers
<1>w. /\ work \in [Workers -> WorkState] /\ "loop" \in Workers
  BY DEF TypeInv, WorkType, Workers
<1>s. UNCHANGED sold
  BY DEF ProcessItem, GetBooking, MarkRecovering, Scan, IsClaimed, FetchPdf,
         ReadFails, Resolve, Recycle, zincVars
<1>y. BuyWithoutTicket'
  BY <1>s DEF MoneyInv, BuyWithoutTicket, TicketsOf
<1>n. Loop'.pc \notin {"recoverRevert", "duplicate"} => ReleaseAccounted'
  BY DEF ReleaseAccounted
<1>k. Loop.pc \in {"recoverRevert", "duplicate"} => Accounted(b)
  BY DEF MoneyInv, ReleaseAccounted
<1>r. Loop'.item = Loop.item /\ Accounted(b) => (ClaimsStay => ReleaseAccounted')
  BY <1>s DEF ReleaseAccounted, ClaimsStay, Accounted
<1>p. ASSUME NEW op \in Ops, NEW no \in KtmbNo, NEW reply, Post(op, b, no, reply),
             op = "complete" => Real(b, no),
             op \in {"revert", "recoverRevert", "duplicate"} => Accounted(b),
             ClaimsStay => ReleaseAccounted'
      PROVE  MoneyInv' /\ PromiseStep
  BY <1>b, <1>p, <1>s, <1>y, PostMoney
<1>q. ASSUME UNCHANGED booking, ClaimsStay => ReleaseAccounted'
      PROVE  MoneyInv' /\ PromiseStep
  BY <1>q, <1>s, <1>y, NoMoney
<1> HIDE DEF b
<1>1. CASE GetBooking("loop")
  <2>1. UNCHANGED booking /\ Loop'.pc \notin {"recoverRevert", "duplicate"}
    BY <1>1, LoopMoves DEF GetBooking, zincVars
  <2> QED
    BY <1>n, <1>q, <2>1
<1>2. CASE MarkRecovering("loop")
  <2>1. PICK reply \in Reply :
          /\ Post("recovering", b, 0, reply)
          /\ IF reply = "ok" THEN Decide("loop") ELSE Failed("loop")
    BY <1>2 DEF MarkRecovering, Loop, b
  <2>2. Loop'.pc \notin {"recoverRevert", "duplicate"}
    BY <2>1, LoopMoves
  <2>3. "recovering" \in Ops
    BY DEF Ops
  <2> QED
    BY <1>n, <1>p, <2>1, <2>2, <2>3, ZeroNo
<1>3. CASE Scan("loop")
  <2>1. UNCHANGED booking
    BY <1>3 DEF Scan, zincVars
  <2>2. CASE TicketsOf(PassengerOf[b]) = {} /\ Enter("loop", "recoverRevert")
    <3>1. Accounted(b)
      BY <1>b, <2>2, NothingToAccount
    <3> QED
      BY <1>q, <1>r, <2>1, <2>2, <3>1, LoopMoves
  <2>3. ASSUME NEW t, work' = [work EXCEPT !["loop"].pc = "isClaimed", !["loop"].no = t]
        PROVE  MoneyInv' /\ PromiseStep
    <3>1. Loop'.pc = "isClaimed"
      BY <1>w, <2>3 DEF Loop, WorkState
    <3> QED
      BY <1>n, <1>q, <2>1, <3>1
  <2> QED
    BY <1>3, <2>2, <2>3 DEF Scan, Loop, b
<1>4. CASE IsClaimed("loop")
  <2>1. UNCHANGED booking /\ Loop.pc = "isClaimed"
    BY <1>4 DEF IsClaimed, zincVars, At, Loop
  <2>2. Real(b, Loop.no)
    BY <1>w, <2>1 DEF NumbersInv, WorkNumbers, Loop, b
  <2>3. CASE Claimants(Loop.no) # {} /\ Enter("loop", "duplicate")
    <3>1. ClaimedBy(Loop.no) # {}
      BY <2>3 DEF Claimants, ClaimedBy
    <3>2. Accounted(b)
      BY <2>2, <3>1, ClaimAccounts DEF MoneyInv
    <3> QED
      BY <1>q, <1>r, <2>1, <2>3, <3>2, LoopMoves
  <2>4. CASE Enter("loop", "print")
    BY <1>n, <1>q, <2>1, <2>4, LoopMoves
  <2> QED
    BY <1>4, <2>3, <2>4 DEF IsClaimed, Loop
<1>5. CASE FetchPdf("loop")
  <2>1. UNCHANGED booking /\ Enter("loop", "complete")
    BY <1>5 DEF FetchPdf, zincVars
  <2> QED
    BY <1>n, <1>q, <2>1, LoopMoves
<1>6. CASE ReadFails("loop")
  <2>1. UNCHANGED booking /\ Failed("loop")
    BY <1>6 DEF ReadFails
  <2> QED
    BY <1>n, <1>q, <2>1, LoopMoves
<1>7. CASE Resolve("loop")
  <2>1. PICK reply \in Reply :
          /\ Post(Loop.pc, b, Loop.no, reply)
          /\ IF reply = "ok" THEN Done("loop") ELSE Failed("loop")
    BY <1>7 DEF Resolve, Loop, b
  <2>2. Loop.pc \in {"complete", "duplicate", "manual"}
    BY <1>7 DEF Resolve, Loop
  <2>3. Loop.pc \in Ops /\ Loop'.pc \notin {"recoverRevert", "duplicate"}
    BY <2>1, <2>2, LoopMoves DEF Ops
  <2>4. Loop.pc = "complete" => Real(b, Loop.no)
    BY <1>w DEF NumbersInv, WorkNumbers, Loop, b
  <2> QED
    BY <1>b, <1>k, <1>n, <1>p, <2>1, <2>2, <2>3, <2>4
<1>8. CASE Recycle("loop")
  <2>1. PICK reply \in Reply :
          /\ Post("recoverRevert", b, 0, reply)
          /\ Failed("loop") \/ Enter("loop", "duplicate") \/ Done("loop")
    BY <1>8 DEF Recycle, Loop, b
  <2>2. Loop.pc = "recoverRevert" /\ "recoverRevert" \in Ops
    BY <1>8 DEF Recycle, At, Loop, Ops
  <2>3. Accounted(b)
    BY <1>k, <2>2
  <2>4. ClaimsStay => ReleaseAccounted'
    BY <1>n, <1>r, <2>1, <2>3, LoopMoves
  <2> QED
    BY <1>p, <2>1, <2>2, <2>3, <2>4, ZeroNo
<1> QED
  BY <1>1, <1>2, <1>3, <1>4, <1>5, <1>6, <1>7, <1>8 DEF ProcessItem

LEMMA RequeueMoney ==
  ASSUME Calm, TypeInv, NumbersInv, MoneyInv, UNCHANGED buyer,
         Requeue \/ ParkExhausted \/ PushBack
  PROVE  MoneyInv' /\ PromiseStep
<1>s. UNCHANGED sold
  BY DEF Requeue, ParkExhausted, PushBack, zincVars
<1>y. BuyWithoutTicket'
  BY <1>s DEF MoneyInv, BuyWithoutTicket, TicketsOf
<1>w. work \in [Workers -> WorkState] /\ "loop" \in Workers
  BY DEF TypeInv, WorkType, Workers
<1>n. Loop'.pc \notin {"recoverRevert", "duplicate"} => ReleaseAccounted'
  BY DEF ReleaseAccounted
<1>1. CASE Requeue
  <2>1. UNCHANGED booking
    BY <1>1 DEF Requeue, zincVars
  <2>2. Loop'.pc \in {"parkExhausted", "push"}
    BY <1>1, <1>w DEF Requeue, Loop, WorkState
  <2> QED
    BY <1>n, <1>s, <1>y, <2>1, <2>2, NoMoney
<1>2. CASE ParkExhausted
  <2>1. PICK reply \in Reply :
          /\ Post("manual", Loop.item.b, 0, reply)
          /\ IF reply = "ok" THEN Done("loop") ELSE Enter("loop", "push")
    BY <1>2 DEF ParkExhausted, Loop
  <2>2. Loop'.pc \notin {"recoverRevert", "duplicate"}
    BY <2>1, LoopMoves
  <2>3. Loop.item.b \in Bookings /\ "manual" \in Ops
    BY <1>2, <1>w, WorkFacts DEF ParkExhausted, At, Loop, TypeInv, Ops
  <2> QED
    BY <1>n, <1>s, <1>y, <2>1, <2>2, <2>3, ZeroNo, PostMoney
<1>3. CASE PushBack
  <2>1. UNCHANGED booking
    BY <1>3 DEF PushBack
  <2>2. Loop'.pc \in {"idle", "push"}
    <3>1. CASE Done("loop")
      BY <3>1, LoopMoves
    <3>2. CASE work' = [work EXCEPT !["loop"].tries = @ + 1]
      BY <1>3, <1>w, <3>2 DEF PushBack, At, Loop, WorkState
    <3> QED
      BY <1>3, <3>1, <3>2 DEF PushBack
  <2> QED
    BY <1>n, <1>s, <1>y, <2>1, <2>2, NoMoney
<1> QED
  BY <1>1, <1>2, <1>3

\* No money moved yet for a booking that can still be bought.
LEMMA PendingRow ==
  ASSUME TypeInv, MoneyInv, NEW b \in Bookings, booking[b].status = "Pending"
  PROVE  booking[b].collects = 0 /\ booking[b].bookingNo = 0 /\ booking[b].refunds = 0
<1>1. booking[b].collects \in Nat /\ booking[b].refunds \in Nat
  BY DEF TypeInv, ZincType, Row
<1>2. ~(booking[b].refunds > 0) /\ ~(booking[b].collects > 0) /\ ~(booking[b].bookingNo # 0)
  BY DEF MoneyInv, LedgerAgrees, Refunding
<1> QED
  BY <1>1, <1>2

\* zinc ends Pending bookings on its own: a user cancels, or a recycled one expires.
Ends(S, status) ==
  booking' = [b \in Bookings |->
    IF b \in S THEN [booking[b] EXCEPT !.status = status, !.refunds = @ + 1]
               ELSE booking[b]]

LEMMA RefundMoney ==
  ASSUME TypeInv, NumbersInv, MoneyInv,
         NEW S \in SUBSET Bookings, NEW status \in Refunding,
         \A b \in S : booking[b].status = "Pending", Ends(S, status), UNCHANGED sold
  PROVE  Rows' /\ ClaimsStay /\ PromiseStep
<1>1. \A b \in S : Accounted(b)
  BY DEF MoneyInv, CapturedNotReleased, Accounted
<1>2. ASSUME NEW b \in S
      PROVE  /\ booking'[b].status = status /\ booking'[b].refunds > 0
             /\ booking'[b].collects = 0 /\ booking'[b].bookingNo = 0
             /\ booking[b].collects = 0 /\ booking[b].bookingNo = 0
             /\ booking[b].refunds = 0
  <2>1. b \in Bookings /\ booking[b] \in Row /\ booking[b].status = "Pending"
    BY DEF TypeInv, ZincType
  <2>2. booking[b].collects = 0 /\ booking[b].bookingNo = 0 /\ booking[b].refunds = 0
    BY <2>1, PendingRow
  <2>3. booking'[b] = [booking[b] EXCEPT !.status = status, !.refunds = @ + 1]
    BY <2>1 DEF Ends
  <2>4. /\ booking'[b].status = status /\ booking'[b].refunds = booking[b].refunds + 1
        /\ booking'[b].collects = booking[b].collects
        /\ booking'[b].bookingNo = booking[b].bookingNo
    BY <2>1, <2>3 DEF Row
  <2> QED
    BY <2>2, <2>4
<1>3. \A b \in Bookings \ S : booking'[b] = booking[b]
  BY DEF Ends
<1>k. ClaimsStay
  BY <1>2, <1>3, SoldFacts DEF ClaimsStay, ClaimedBy
<1>4. CapturedNotReleased'
  <2> SUFFICES ASSUME NEW t \in DOMAIN sold, ClaimedBy(t)' = {}
               PROVE  booking'[sold[t]].status
                        \in {"Buying", "Recovering", "RequireManualIntervention"}
    BY DEF CapturedNotReleased
  <2>1. ClaimedBy(t) = {} /\ sold[t] \in Bookings \ S
    BY <1>1, <1>k, SoldFacts DEF ClaimsStay, Accounted
  <2> QED
    BY <1>3, <2>1 DEF MoneyInv, CapturedNotReleased
<1>5. OneTicketEach'
  BY DEF MoneyInv, OneTicketEach
<1>6. LedgerAgrees'
  <2>1. status \in Refunding /\ "Completed" \notin Refunding
    BY DEF Refunding
  <2>2. ASSUME NEW b \in Bookings
        PROVE  /\ booking'[b].refunds > 0 <=> booking'[b].status \in Refunding
               /\ booking'[b].collects > 0 <=> booking'[b].status = "Completed"
               /\ booking'[b].bookingNo # 0 <=> booking'[b].status = "Completed"
    <3>1. CASE b \in S
      BY <1>2, <2>1, <3>1
    <3>2. CASE b \notin S
      BY <1>3, <3>2 DEF MoneyInv, LedgerAgrees
    <3> QED
      BY <3>1, <3>2
  <2> QED
    BY <2>2 DEF LedgerAgrees
<1>7. PromiseStep
  <2>1. \A b \in S : Money(b) = "held" /\ Money(b)' = "refunded"
    BY <1>2 DEF Money
  <2>2. \A b \in Bookings : Money(b)' = IF b \in S THEN "refunded" ELSE Money(b)
    BY <1>3, <2>1 DEF Money
  <2>3. \A b \in Bookings : booking'[b].bookingNo = booking[b].bookingNo
    BY <1>2, <1>3
  <2>4. \A b \in S : Promise!Accounted(b)
    BY <1>1, AccountedInPromise
  <2>5. Promise!Refund(S)
    BY <2>1, <2>2, <2>3, <2>4 DEF Promise!Refund
  <2> QED
    BY <2>5 DEF PromiseStep, Promise!Next
<1> QED
  BY <1>4, <1>5, <1>6, <1>7, <1>k DEF Rows

LEMMA LoopMoney ==
  ASSUME TypeInv, NumbersInv, MoneyInv, UNCHANGED buyer,
         \/ \E sweep \in BOOLEAN : StartCycle(sweep)
         \/ DrainPop \/ DrainEnd \/ ExpireRecovery \/ ListRecovering
         \/ SkipQueued \/ SweepNext \/ SweepEnd \/ LoopCrash
  PROVE  MoneyInv' /\ PromiseStep
<1>s. UNCHANGED sold
  BY DEF StartCycle, DrainPop, DrainEnd, ExpireRecovery, ListRecovering, SkipQueued,
         SweepNext, SweepEnd, LoopCrash, zincVars
<1>y. BuyWithoutTicket'
  BY <1>s DEF MoneyInv, BuyWithoutTicket, TicketsOf
<1>w. work \in [Workers -> WorkState] /\ "loop" \in Workers
  BY DEF TypeInv, WorkType, Workers
<1>m. ASSUME NEW item, Begin("loop", item, "getBooking") PROVE Loop'.pc = "getBooking"
  BY <1>m, <1>w DEF Begin, Loop, WorkIdle
<1>l. Loop'.pc \in {"idle", "getBooking"} \/ UNCHANGED work
  BY <1>m, LoopMoves
     DEF StartCycle, DrainPop, DrainEnd, ExpireRecovery, ListRecovering, SkipQueued,
         SweepNext, SweepEnd, LoopCrash
<1>r. ClaimsStay => ReleaseAccounted'
  BY <1>l, <1>s, KeepsRelease DEF MoneyInv, ReleaseAccounted
<1>1. CASE UNCHANGED booking
  BY <1>1, <1>r, <1>s, <1>y, NoMoney
<1>2. CASE ExpireAll
  <2> DEFINE S == {b \in Bookings : Expirable(b)}
  <2>1. Ends(S, "Duplicate")
    BY <1>2 DEF ExpireAll, Ends
  <2>2. S \in SUBSET Bookings /\ \A b \in S : booking[b].status = "Pending"
    BY DEF Expirable
  <2>3. "Duplicate" \in Refunding
    BY DEF Refunding
  <2> HIDE DEF S
  <2> QED
    BY <1>r, <1>s, <1>y, <2>1, <2>2, <2>3, RefundMoney DEF MoneyInv, Rows
<1> QED
  BY <1>1, <1>2
     DEF StartCycle, DrainPop, DrainEnd, ExpireRecovery, ListRecovering, SkipQueued,
         SweepNext, SweepEnd, LoopCrash, zincVars

LEMMA EnvironmentMoney ==
  ASSUME TypeInv, NumbersInv, MoneyInv, Environment, UNCHANGED <<buyer, recovererVars>>
  PROVE  MoneyInv' /\ PromiseStep
<1>s. UNCHANGED <<sold, buyer, work>>
  BY DEF Environment, Cancel, Advance, recovererVars
<1>r. BuyWithoutTicket' /\ (ClaimsStay => ReleaseAccounted')
  BY <1>s, KeepsRelease DEF MoneyInv, BuyWithoutTicket, TicketsOf
<1>1. ASSUME NEW b \in Bookings, Cancel(b) PROVE MoneyInv' /\ PromiseStep
  <2>1. Ends({b}, "Cancelled")
    BY <1>1 DEF Cancel, Ends, TypeInv, ZincType
  <2>2. {b} \in SUBSET Bookings /\ \A c \in {b} : booking[c].status = "Pending"
    BY <1>1 DEF Cancel
  <2>3. "Cancelled" \in Refunding
    BY DEF Refunding
  <2> QED
    BY <1>r, <1>s, <2>1, <2>2, <2>3, RefundMoney DEF MoneyInv, Rows
<1>2. ASSUME NEW b \in Bookings, Advance(b) PROVE MoneyInv' /\ PromiseStep
  BY <1>2, <1>r, <1>s, NoMoney DEF Advance
<1> QED
  BY <1>1, <1>2 DEF Environment

-----------------------------------------------------------------------------
(* The specification.                                                      *)

LEMMA MoneyInit == Init => MoneyInv /\ Promise!Init
<1> SUFFICES ASSUME Init PROVE MoneyInv /\ Promise!Init
  OBVIOUS
<1>1. /\ booking = [b \in Bookings |-> NewRow] /\ sold = <<>>
      /\ buyer = [y \in Buyers |-> BuyerIdle] /\ Loop = WorkIdle
  BY DEF Init, ZincInit, BuyerInit, RecovererInit, Loop, Workers
<1>s. DOMAIN sold = {}
  BY <1>1
<1>2. CapturedNotReleased /\ OneTicketEach
  BY <1>s DEF CapturedNotReleased, OneTicketEach
<1>3. MoneyInv
  BY <1>1, <1>2
     DEF MoneyInv, BuyWithoutTicket, ReleaseAccounted, LedgerAgrees, NewRow, Refunding,
         BuyerIdle, WorkIdle
<1>4. Promise!Init
  BY <1>1 DEF Promise!Init, Money, NewRow
<1> QED
  BY <1>3, <1>4

LEMMA MoneyNext ==
  ASSUME Calm
  PROVE  TypeInv /\ OrderInv /\ NumbersInv /\ MoneyInv /\ [Next]_vars
           => MoneyInv' /\ PromiseStep
<1> SUFFICES ASSUME TypeInv, OrderInv, NumbersInv, MoneyInv, [Next]_vars
             PROVE  MoneyInv' /\ PromiseStep
  OBVIOUS
<1>1. CASE BuyerNext /\ UNCHANGED recovererVars
  BY <1>1, BuyerMoney
<1>2. CASE RecovererNext /\ UNCHANGED buyer
  <2>1. ~CliStep
    BY DEF OrderInv, IdleHoldsNothing, WorkIdle, CliStep, CliBuying, CliRecovering,
           ProcessItem, GetBooking, MarkRecovering, Scan, IsClaimed, FetchPdf,
           ReadFails, Resolve, Recycle, At
  <2> QED
    BY <1>2, <2>1, ProcessItemMoney, RequeueMoney, LoopMoney
       DEF RecovererNext, LoopStep
<1>3. CASE (\E b \in Bookings : ManualStart(b)) /\ UNCHANGED buyer
  BY <1>3 DEF ManualStart, Calm
<1>4. CASE Environment /\ UNCHANGED <<buyer, recovererVars>>
  BY <1>4, EnvironmentMoney
<1>5. CASE UNCHANGED vars
  <2>1. UNCHANGED <<booking, sold, buyer, work>>
    BY <1>5 DEF vars
  <2>2. BuyWithoutTicket' /\ (ClaimsStay => ReleaseAccounted')
    BY <2>1, KeepsRelease DEF MoneyInv, BuyWithoutTicket, TicketsOf
  <2> QED
    BY <2>1, <2>2, NoMoney
<1> QED
  BY <1>1, <1>2, <1>3, <1>4, <1>5 DEF Next

\* A refunded booking is not in purchase or recovery any more.
LEMMA RefundIsAccounted ==
  ASSUME TypeInv, MoneyInv
  PROVE  NoRefundOfPaidTicket
<1> SUFFICES ASSUME NEW t \in DOMAIN sold, booking[sold[t]].refunds > 0
             PROVE  ClaimedBy(t) # {}
  BY DEF NoRefundOfPaidTicket
<1>1. booking[sold[t]].status \in Refunding
  BY SoldFacts DEF MoneyInv, LedgerAgrees
<1> QED
  BY <1>1 DEF MoneyInv, CapturedNotReleased, Refunding

LEMMA MoneyAlways ==
  ASSUME Calm
  PROVE  Spec => [](TypeInv /\ MoneyInv)
<1>1. Init => TypeInv /\ OrderInv /\ NumbersInv /\ MoneyInv
  BY InitType, OrderInit, NumbersInit, MoneyInit
<1>2. TypeInv /\ OrderInv /\ NumbersInv /\ MoneyInv /\ [Next]_vars
        => (TypeInv /\ OrderInv /\ NumbersInv /\ MoneyInv)'
  BY NextType, OrderNext, NumbersNext, MoneyNext
<1> QED
  BY <1>1, <1>2, PTL DEF Spec

(* In the calm deployment, a booking whose purchase captured a ticket      *)
(* stays in purchase, in recovery or with a human until that ticket is     *)
(* reported, also when a passenger has several bookings of one departure:  *)
(* no scan, retry or sweep releases it to be cancelled or bought again.    *)
THEOREM PaidBookingIsKept ==
  ASSUME Calm
  PROVE  Spec => []CapturedNotReleased
<1>1. MoneyInv => CapturedNotReleased
  BY DEF MoneyInv
<1> QED
  BY <1>1, MoneyAlways, PTL

(* In the calm deployment a captured ticket is refunded only after it was  *)
(* charged to another booking of the same passenger, however scans, calls, *)
(* cancellations and expiries of the passenger's bookings interleave.      *)
THEOREM PaidMoneyIsKept ==
  ASSUME Calm
  PROVE  Spec => []NoRefundOfPaidTicket
<1>1. TypeInv /\ MoneyInv => NoRefundOfPaidTicket
  BY RefundIsAccounted
<1> QED
  BY <1>1, MoneyAlways, PTL

(* In the calm deployment the buyers, the queue and the recoverer together *)
(* implement Settlement, for any number of bookings per passenger: each    *)
(* reserve is collected once, for a ticket of its own passenger, or        *)
(* refunded once and only when what was bought for the booking has been    *)
(* charged to another; KTMB never captures a ticket for a booking that is  *)
(* settled, nor a second one for a passenger.                              *)
THEOREM RecoverySettles ==
  ASSUME Calm
  PROVE  Spec => ImplementsSettlement
<1>1. Init => TypeInv /\ OrderInv /\ NumbersInv /\ MoneyInv /\ Promise!Init
  BY InitType, OrderInit, NumbersInit, MoneyInit
<1>2. TypeInv /\ OrderInv /\ NumbersInv /\ MoneyInv /\ [Next]_vars
        => (TypeInv /\ OrderInv /\ NumbersInv /\ MoneyInv)'
  BY NextType, OrderNext, NumbersNext, MoneyNext
<1>3. TypeInv /\ OrderInv /\ NumbersInv /\ MoneyInv /\ [Next]_vars
        => [Promise!Next]_(Promise!vars)
  BY MoneyNext DEF PromiseStep
<1> QED
  BY <1>1, <1>2, <1>3, PTL DEF Spec, ImplementsSettlement, Promise!Spec
=============================================================================
