------------------------------ MODULE Recovery ------------------------------
(***************************************************************************)
(* The purchase and recovery pipeline: buyers, the recoverer and the       *)
(* `recover` command, interleaved around zinc, the KTMB account and the    *)
(* recover queue.                                                          *)
(***************************************************************************)
EXTENDS Buyer, Recoverer, FiniteSets

CONSTANT
  ManualRecover    \* TRUE when a human runs `recover` on stuck bookings

ASSUME RecoveryAssumption == ManualRecover \in BOOLEAN

vars == <<booking, clock, sold, queue, faults, buyer, work, cycle>>

Init == ZincInit /\ BuyerInit /\ RecovererInit

\* No buyer, record or worker has the booking: nothing is in flight for it.
Unattended(b) ==
  /\ \A y \in Buyers : buyer[y].b # b
  /\ b \notin QueuedBookingIds
  /\ \A w \in Workers : work[w].item.b # b

(* A human looks a booking up and confirms it.  docs/RECOVERY.md section 5 *)
(* reserves the command for bookings nothing else is working on.           *)
ManualStart(b) == ManualRecover /\ Unattended(b) /\ CliStart(b)

Stuck(b) == booking[b].status \in {"Buying", "Recovering"}

Environment == \E b \in Bookings : Cancel(b) \/ Advance(b)

Next ==
  \/ BuyerNext /\ UNCHANGED recovererVars
  \/ RecovererNext /\ UNCHANGED buyer
  \/ (\E b \in Bookings : ManualStart(b)) /\ UNCHANGED buyer
  \/ Environment /\ UNCHANGED <<buyer, recovererVars>>

Spec == Init /\ [][Next]_vars

\* Replicas keep running: BRPOP loops, and Kubernetes restarts what exits.
BuyerFairness == \A y \in Buyers : WF_vars(BuyerStep(y) /\ UNCHANGED recovererVars)

(* The loop never blocks for good, and an hourly sweep tick finds it free  *)
(* again and again: its channel holds two ticks and drains every cycle.    *)
RecovererFairness ==
  /\ WF_vars(LoopStep /\ UNCHANGED buyer)
  /\ SF_vars(StartCycle(TRUE) /\ UNCHANGED buyer)

FairSpec == Spec /\ BuyerFairness /\ RecovererFairness

TypeOK ==
  /\ booking \in [Bookings -> Row]
  /\ clock \in [Bookings -> Clock]
  /\ sold \in Seq(Bookings) /\ Len(sold) <= MaxTickets
  /\ queue \in Seq(Item)
  /\ faults \in 0..MaxFaults
  /\ buyer \in [Buyers -> BuyerState]
  /\ work \in [Workers -> WorkState]
  /\ cycle \in CycleState

-----------------------------------------------------------------------------

(* Tickets and money, docs/RECOVERY.md section 3.                          *)

(* Money is only ever collected against a ticket our account holds for     *)
(* that passenger, whichever of the buyer, a queued record, a scan or a    *)
(* human brought the number to zinc's complete endpoint.                   *)
CollectedTicketIsReal ==
  \A b \in Bookings : booking[b].collects > 0 =>
    booking[b].bookingNo \in TicketsOf(PassengerOf[b])

\* The bookings a ticket was charged to.
ClaimedBy(t) == {b \in Bookings : booking[b].bookingNo = t}

(* One ticket is never charged to two bookings: isClaimed exists to turn   *)
(* the second one into a duplicate instead of collecting its reserve.      *)
OneCollectPerTicket == \A t \in DOMAIN sold : Cardinality(ClaimedBy(t)) <= 1

(* A booking whose purchase captured a ticket is refunded only when the    *)
(* ticket went to another booking of the passenger: what the recoverer     *)
(* scans, and when, never makes it give paid money back.                   *)
NoRefundOfPaidTicket ==
  \A t \in DOMAIN sold : booking[sold[t]].refunds > 0 => ClaimedBy(t) # {}

(* Until its ticket is reported, a booking that has one stays where only   *)
(* recovery or a human can end it: never back in Pending, where a user can *)
(* cancel it, expiry refunds it and a buyer buys it again.                 *)
CapturedNotReleased ==
  \A t \in DOMAIN sold :
    ClaimedBy(t) = {} =>
      booking[sold[t]].status \in {"Buying", "Recovering", "RequireManualIntervention"}

-----------------------------------------------------------------------------
(* The order of steps that keeps buyers and the recoverer apart.           *)

InPurchase == BuyerPc \ {"idle", "postBuying", "transitionRecovering"}

(* While a buyer still holds a purchase, its booking is Buying: neither    *)
(* the drain nor the sweep takes the booking of a purchase in flight.      *)
PurchaseIsBuying ==
  \A y \in Buyers : buyer[y].pc \in InPurchase =>
     booking[buyer[y].b].status = "Buying"

(* At most one recover record of a booking exists, queued or being         *)
(* processed, so no booking is resolved from two records.                  *)
OneRecordPerBooking ==
  \A i, j \in DOMAIN queue :
    /\ queue[i].b = queue[j].b => i = j
    /\ queue[i].b # work["loop"].item.b

(* The sweep never re-derives a booking whose record is on the queue, even *)
(* one parked after it read the queue: the buyer pushes the record before  *)
(* the booking becomes Recovering, and the sweep lists Recovering first.   *)
SweepSkipsLiveRecords ==
  cycle.pc = "sweep" => cycle.todo \cap QueuedBookingIds = {}

-----------------------------------------------------------------------------
(* What must eventually happen.                                            *)

(* No booking stays in Recovering: its record or the hourly sweep gets it  *)
(* resolved, recycled or parked, whatever crashed or was lost.             *)
EveryRecoveringResolved ==
  \A b \in Bookings :
    booking[b].status = "Recovering" ~> booking[b].status # "Recovering"

\* A human eventually looks at a booking that stays stuck, and answers yes.
HumanFairness ==
  /\ \A b \in Bookings : WF_vars(Stuck(b) /\ ManualStart(b) /\ UNCHANGED buyer)
  /\ WF_vars(CliStep /\ UNCHANGED buyer)

(* With a human running `recover` on what is stuck, no booking's money     *)
(* stays in Buying or Recovering: every way of getting stuck has a way out.*)
NoStrandedMoney ==
  HumanFairness => \A b \in Bookings : Stuck(b) ~> ~Stuck(b)

-----------------------------------------------------------------------------
(* The abstract ledger, Settlement.                                        *)

Money(b) ==
  IF booking[b].collects > 0 THEN "collected"
  ELSE IF booking[b].refunds > 0 THEN "refunded" ELSE "held"

Promise == INSTANCE Settlement WITH
  money <- [b \in Bookings |-> Money(b)],
  ticket <- [b \in Bookings |-> booking[b].bookingNo],
  bought <- sold

(* Whatever the interleaving, the pipeline's effect on money and tickets   *)
(* is one of Settlement's: buy once per passenger while the money is held, *)
(* collect it against that passenger's ticket, refund a booking only when  *)
(* it has no ticket or a booking of the passenger was charged for it.      *)
ImplementsSettlement == Promise!Spec
=============================================================================
