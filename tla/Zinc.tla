-------------------------------- MODULE Zinc --------------------------------
(***************************************************************************)
(* What tin relies on outside its own code: zinc, the system of record     *)
(* that owns the bookings and moves the money; the KTMB account that owns  *)
(* the tickets; and the Redis list behind the `recover` queue.  None of    *)
(* the three is under src/.  They are modelled from the requests tin sends *)
(* and the answers it branches on (lib/buyer, lib/recoverer, cmds), and    *)
(* from the transition guards docs/RECOVERY.md section 2 records.          *)
(***************************************************************************)
EXTENDS Integers, Sequences

CONSTANTS
  Bookings,      \* zinc bookings, all holding money in BookingReserve at first
  Passengers,    \* a passenger on a departure: what KTMB and a scan match on
  NoBooking,     \* the booking of an idle process
  PassengerOf,   \* the passenger and departure each booking is for
  MaxRetries,    \* zinc Recovery:MaxRetries, the recycle budget of a booking
  MaxTickets,    \* bound: tickets KTMB sells to our account
  MaxFaults,     \* bound: failed calls and crashes in one behaviour
  LostReplies    \* TRUE when a call may take effect and its reply be lost

ASSUME ZincAssumption ==
  /\ PassengerOf \in [Bookings -> Passengers]
  /\ MaxRetries \in Nat /\ MaxTickets \in Nat /\ MaxFaults \in Nat
  /\ LostReplies \in BOOLEAN
  /\ NoBooking \notin Bookings

VARIABLES
  booking,   \* zinc: the row of each booking
  clock,     \* zinc: how far each booking is into its recovery window
  sold,      \* KTMB: ticket number t was captured while buying for sold[t]
  queue,     \* Redis: the recover list, oldest record first
  faults     \* failures so far, to bound them

zincVars == <<booking, clock, sold, queue, faults>>

Live == {"Pending", "Buying", "Recovering"}
Refunding == {"Duplicate", "Cancelled"}
Status == Live \cup Refunding \cup {"Completed", "RequireManualIntervention"}
Clock == {"early", "late", "departed"}

\* KTMB booking numbers; 0 is "no number", the empty string of RecoverDto.
KtmbNo == 0 .. MaxTickets

Row == [status: Status, bookingNo: KtmbNo, retries: 0..MaxRetries,
        collects: Nat, refunds: Nat]

\* RecoverDto: the fields no step here tells apart are left out.
Item == [b: Bookings, no: KtmbNo, attempts: Nat]

NewRow == [status |-> "Pending", bookingNo |-> 0, retries |-> 0,
           collects |-> 0, refunds |-> 0]

ZincInit ==
  /\ booking = [b \in Bookings |-> NewRow]
  /\ clock = [b \in Bookings |-> "early"]
  /\ sold = <<>>
  /\ queue = <<>>
  /\ faults = 0

Fault == faults < MaxFaults /\ faults' = faults + 1

-----------------------------------------------------------------------------
(* The booking endpoints: the statuses each one accepts and the one it     *)
(* leaves behind.                                                          *)

From(op) ==
  CASE op = "buying"        -> {"Pending"}
    [] op = "revert"        -> {"Buying"}
    [] op = "recovering"    -> {"Buying"}
    [] op = "recoverRevert" -> {"Recovering"}
    [] op = "complete"      -> Live
    [] op = "duplicate"     -> {"Recovering", "RequireManualIntervention"}
    [] op = "manual"        -> Live

To(op) ==
  CASE op = "buying"        -> "Buying"
    [] op = "revert"        -> "Pending"
    [] op = "recovering"    -> "Recovering"
    [] op = "recoverRevert" -> "Pending"
    [] op = "complete"      -> "Completed"
    [] op = "duplicate"     -> "Duplicate"
    [] op = "manual"        -> "RequireManualIntervention"

\* Endpoints that refuse a booking whose reserve was already collected.
Uncaptured == {"revert", "complete", "duplicate"}

InBudget(b) == booking[b].retries < MaxRetries /\ clock[b] = "early"

Admits(op, b) ==
  /\ booking[b].status \in From(op)
  /\ op \in Uncaptured => booking[b].bookingNo = 0
  /\ op = "recoverRevert" => InBudget(b)

\* The row the endpoint commits: status, money and ledger in one transaction.
After(op, b, no) ==
  LET row == booking[b]
      oneIf(is) == IF is THEN 1 ELSE 0
  IN  [status    |-> To(op),
       bookingNo |-> IF op = "complete" THEN no ELSE row.bookingNo,
       retries   |-> row.retries + oneIf(op = "recoverRevert"),
       collects  |-> row.collects + oneIf(op = "complete"),
       refunds   |-> row.refunds + oneIf(op = "duplicate")]

Commit(op, b, no) ==
  /\ Admits(op, b)
  /\ booking' = [booking EXCEPT ![b] = After(op, b, no)]

Reply == {"ok", "rejected", "error"}

(* One POST as its caller sees it: committed and answered 200; refused     *)
(* with a 4xx; failed before zinc acted; or committed with the answer lost.*)
Post(op, b, no, reply) ==
  \/ reply = "ok" /\ Commit(op, b, no) /\ UNCHANGED faults
  \/ reply = "rejected" /\ ~Admits(op, b) /\ UNCHANGED <<booking, faults>>
  \/ reply = "error" /\ Fault /\ UNCHANGED booking
  \/ reply = "error" /\ Fault /\ LostReplies /\ Commit(op, b, no)

(* One LPUSH onto the recover queue, with the same three outcomes.         *)
PushItem(item, reply) ==
  \/ reply = "ok" /\ queue' = Append(queue, item) /\ UNCHANGED faults
  \/ reply = "error" /\ Fault /\ UNCHANGED queue
  \/ reply = "error" /\ Fault /\ LostReplies /\ queue' = Append(queue, item)

-----------------------------------------------------------------------------
(* zinc and time act on their own, too.                                    *)

\* A user cancels a booking, or zinc refunds it after departure: Pending only.
Cancel(b) ==
  /\ booking[b].status = "Pending"
  /\ booking' = [booking EXCEPT ![b].status = "Cancelled", ![b].refunds = @ + 1]
  /\ UNCHANGED <<clock, sold, queue, faults>>

\* The retry window (or departure lead) runs out, then the train leaves.
Advance(b) ==
  /\ clock[b] # "departed"
  /\ clock' = [clock EXCEPT ![b] = IF @ = "early" THEN "late" ELSE "departed"]
  /\ UNCHANGED <<booking, sold, queue, faults>>

\* recovery-expire: recycled bookings still Pending past their window.
Expirable(b) ==
  booking[b].status = "Pending" /\ booking[b].retries > 0 /\ clock[b] # "early"

ExpireAll ==
  booking' = [b \in Bookings |->
                IF Expirable(b)
                  THEN [booking[b] EXCEPT !.status = "Duplicate",
                                          !.refunds = @ + 1]
                  ELSE booking[b]]

\* The tickets our KTMB account holds for a passenger.
TicketsOf(p) == {t \in DOMAIN sold : PassengerOf[sold[t]] = p}
=============================================================================
