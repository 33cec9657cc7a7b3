-------------------------------- MODULE Buyer -------------------------------
(***************************************************************************)
(* The buyer (lib/buyer): each replica pops a reservation, marks a booking *)
(* Buying, drives the KTMB purchase and reports the ticket to zinc, or     *)
(* parks or reverts the booking.  One action per remote call, so that      *)
(* other replicas and the recoverer act between any two calls.             *)
(*                                                                         *)
(* The KTMB reservation itself is left out: releasing it is the last, best *)
(* effort call of the paths that do it and changes nothing kept here.      *)
(***************************************************************************)
EXTENDS Zinc

CONSTANTS
  Buyers,           \* the buyer replicas
  CompleteRetries,  \* buyer.completeRetries
  ParkRetries       \* buyer.parkRetries

ASSUME BuyerAssumption ==
  CompleteRetries \in Nat \ {0} /\ ParkRetries \in Nat \ {0}

VARIABLE buyer   \* what each replica is doing

BuyerPc == {"idle", "postBuying", "setPassenger", "pay", "complete",
            "printTicket", "completeWithZinc", "pushRecover",
            "transitionRecovering", "revert"}

\* tries is the attempt counter of retryBackoff; no the KTMB booking number.
BuyerState == [pc: BuyerPc, b: Bookings \cup {NoBooking}, no: KtmbNo, tries: Nat]

BuyerIdle == [pc |-> "idle", b |-> NoBooking, no |-> 0, tries |-> 0]

BuyerInit == buyer = [y \in Buyers |-> BuyerIdle]

-----------------------------------------------------------------------------

Goto(y, pc) ==
  buyer' = [buyer EXCEPT
              ![y] = IF pc = "idle" THEN BuyerIdle
                                    ELSE [@ EXCEPT !.pc = pc, !.tries = 0]]
Stop(y) == Goto(y, "idle")

\* retryBackoff: another attempt while any is left, then `giveUp`.
Again(y, retries, giveUp) ==
  IF buyer[y].tries + 1 < retries
    THEN buyer' = [buyer EXCEPT ![y].tries = @ + 1]
    ELSE Goto(y, giveUp)

\* Pop a reservation and ask zinc which booking it is for: some Pending one.
\* With none, or on an error, the reservation is dropped and nothing changes.
Pick(y, b) ==
  /\ buyer[y].pc = "idle"
  /\ booking[b].status = "Pending"
  /\ buyer' = [buyer EXCEPT ![y] = [BuyerIdle EXCEPT !.pc = "postBuying", !.b = b]]
  /\ UNCHANGED zincVars

PostBuying(y) ==
  /\ buyer[y].pc = "postBuying"
  /\ \E reply \in Reply :
       /\ Post("buying", buyer[y].b, 0, reply)
       /\ IF reply = "ok" THEN Goto(y, "setPassenger") ELSE Stop(y)
  /\ UNCHANGED <<clock, sold, queue>>

(* BookStart and SetPassenger.  KTMB refuses a passenger who holds a       *)
(* ticket for the departure, ours or from another channel (so the refusal  *)
(* is always possible); any other failure strands the booking in Buying.   *)
SetPassenger(y) ==
  /\ buyer[y].pc = "setPassenger"
  /\ \/ /\ TicketsOf(PassengerOf[buyer[y].b]) = {}
        /\ Goto(y, "pay") /\ UNCHANGED faults
     \/ Goto(y, "pushRecover") /\ UNCHANGED faults
     \/ Fault /\ Stop(y)
  /\ UNCHANGED <<booking, clock, sold, queue>>

\* Payment: accepted, refused with a revert pattern, or failed otherwise.
Pay(y) ==
  /\ buyer[y].pc = "pay"
  /\ \/ Goto(y, "complete") /\ UNCHANGED faults
     \/ Fault /\ Goto(y, "revert")
     \/ Fault /\ Stop(y)
  /\ UNCHANGED <<booking, clock, sold, queue>>

(* KTMB Complete captures the ticket.  The answer may carry its numbers,   *)
(* be malformed (PurchasedError without them), or be lost, which the buyer *)
(* takes for a failed purchase; or nothing was captured at all.            *)
Capture(y) == sold' = Append(sold, buyer[y].b)

Complete(y) ==
  /\ buyer[y].pc = "complete"
  /\ \/ /\ Len(sold) < MaxTickets /\ Capture(y) /\ UNCHANGED faults
        /\ buyer' = [buyer EXCEPT ![y].pc = "printTicket", ![y].no = Len(sold) + 1]
     \/ /\ Len(sold) < MaxTickets /\ Capture(y) /\ Fault
        /\ Goto(y, "pushRecover") \/ Stop(y)
     \/ Fault /\ Stop(y) /\ UNCHANGED sold
  /\ UNCHANGED <<booking, clock, queue>>

\* Mutant: a missing PDF is taken for a failed purchase.
PrintTicketReverts(y) ==
  /\ buyer[y].pc = "printTicket"
  /\ \/ Goto(y, "completeWithZinc") /\ UNCHANGED faults
     \/ Fault /\ Goto(y, "revert")
  /\ UNCHANGED <<booking, clock, sold, queue>>

PrintTicket(y) ==
  /\ buyer[y].pc = "printTicket"
  /\ \/ Goto(y, "completeWithZinc") /\ UNCHANGED faults
     \/ Fault /\ Goto(y, "pushRecover")
  /\ UNCHANGED <<booking, clock, sold, queue>>

\* Report the ticket, completeRetries times; then park it with its numbers.
CompleteWithZinc(y) ==
  /\ buyer[y].pc = "completeWithZinc"
  /\ \E reply \in Reply :
       /\ Post("complete", buyer[y].b, buyer[y].no, reply)
       /\ IF reply = "ok"
            THEN Stop(y)
            ELSE Again(y, CompleteRetries, "pushRecover")
  /\ UNCHANGED <<clock, sold, queue>>

\* park(), first half: the durable record, before the status changes.
PushRecover(y) ==
  /\ buyer[y].pc = "pushRecover"
  /\ \E reply \in Reply :
       /\ PushItem([b |-> buyer[y].b, no |-> buyer[y].no, attempts |-> 0], reply)
       /\ IF reply = "ok"
            THEN Goto(y, "transitionRecovering")
            ELSE Again(y, ParkRetries, "idle")
  /\ UNCHANGED <<booking, clock, sold>>

\* Mutant: a failed transition retries the whole park, record included.
ParkAgain(y) ==
  /\ buyer[y].pc = "transitionRecovering"
  /\ \E reply \in Reply :
       /\ Post("recovering", buyer[y].b, 0, reply)
       /\ IF reply = "ok" THEN Stop(y) ELSE Goto(y, "pushRecover")
  /\ UNCHANGED <<clock, sold, queue>>

\* park(), second half: best effort, the recoverer does it otherwise.
TransitionRecovering(y) ==
  /\ buyer[y].pc = "transitionRecovering"
  /\ \E reply \in Reply :
       /\ Post("recovering", buyer[y].b, 0, reply)
       /\ IF reply = "ok" THEN Stop(y) ELSE Again(y, ParkRetries, "idle")
  /\ UNCHANGED <<clock, sold, queue>>

\* Pay failed without a ticket: hand the booking back to the pipeline.
Revert(y) ==
  /\ buyer[y].pc = "revert"
  /\ \E reply \in Reply : Post("revert", buyer[y].b, 0, reply)
  /\ Stop(y)
  /\ UNCHANGED <<clock, sold, queue>>

\* The pod dies, or the handler errors out until Start exits the process.
BuyerCrash(y) ==
  /\ buyer[y].pc # "idle"
  /\ Fault /\ Stop(y)
  /\ UNCHANGED <<booking, clock, sold, queue>>

BuyerStep(y) ==
  \/ PostBuying(y) \/ SetPassenger(y) \/ Pay(y) \/ Complete(y)
  \/ PrintTicket(y) \/ CompleteWithZinc(y) \/ PushRecover(y)
  \/ TransitionRecovering(y) \/ Revert(y)

BuyerNext ==
  \E y \in Buyers :
    (\E b \in Bookings : Pick(y, b)) \/ BuyerStep(y) \/ BuyerCrash(y)
=============================================================================
