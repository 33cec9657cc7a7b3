------------------------------ MODULE Settlement ------------------------------
(***************************************************************************)
(* What the recovery pipeline promises about money (docs/RECOVERY.md       *)
(* section 3), with no buyer, queue or recoverer in it: each booking's     *)
(* reserve is held until it is collected once, against a ticket of its own *)
(* passenger, or refunded once, and only when whatever was bought for it   *)
(* has been charged to somebody.  KTMB never captures a ticket for settled *)
(* money, nor a second one for a passenger.  It does not promise that a    *)
(* ticket is charged to one booking only: the passenger's second booking   *)
(* may be charged for it too (find_double_collect).  A passenger with one  *)
(* booking is collected for the ticket bought for it, or refunded without. *)
(***************************************************************************)
EXTENDS Integers, Sequences

CONSTANTS Bookings, PassengerOf

VARIABLES
  money,    \* "held", "collected" or "refunded", per booking
  ticket,   \* the ticket a booking was collected for, 0 for none
  bought    \* ticket t was bought for booking bought[t]

vars == <<money, ticket, bought>>

Init ==
  /\ money = [b \in Bookings |-> "held"]
  /\ ticket = [b \in Bookings |-> 0]
  /\ bought = <<>>

\* The tickets in the name of a booking's passenger.
Tickets(b) == {t \in DOMAIN bought : PassengerOf[bought[t]] = PassengerOf[b]}

\* Our money buys a ticket for a passenger who has none, while it is held.
Buy(b) ==
  /\ money[b] = "held"
  /\ Tickets(b) = {}
  /\ bought' = Append(bought, b)
  /\ UNCHANGED <<money, ticket>>

Collect(b, t) ==
  /\ money[b] = "held"
  /\ t \in Tickets(b)
  /\ money' = [money EXCEPT ![b] = "collected"]
  /\ ticket' = [ticket EXCEPT ![b] = t]
  /\ UNCHANGED bought

\* What was bought for the booking, if anything, a booking was collected for.
Accounted(b) == \A t \in DOMAIN bought : bought[t] = b => \E c \in Bookings : ticket[c] = t

\* A batch, since recovery-expire ends several bookings in one request.
Refund(S) ==
  /\ \A b \in S : money[b] = "held" /\ Accounted(b)
  /\ money' = [b \in Bookings |-> IF b \in S THEN "refunded" ELSE money[b]]
  /\ UNCHANGED <<ticket, bought>>

Next ==
  \/ \E b \in Bookings : Buy(b)
  \/ \E b \in Bookings, t \in DOMAIN bought : Collect(b, t)
  \/ \E S \in SUBSET Bookings : Refund(S)

Spec == Init /\ [][Next]_vars
=============================================================================
