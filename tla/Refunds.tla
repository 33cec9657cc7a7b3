------------------------------- MODULE Refunds ------------------------------
(***************************************************************************)
(* The ticket of a terminated booking is given back to KTMB by one of the  *)
(* terminator's replicas (lib/terminator), which tells zinc what KTMB paid;*)
(* the backfill (lib/ktmbcost) asks KTMB for the costs and refunds that    *)
(* zinc has not been told.  A dry run of the backfill changes nothing and  *)
(* is left out.                                                            *)
(***************************************************************************)
EXTENDS Integers, Sequences, FiniteSets, SequencesExt

CONSTANTS
  Sold,          \* bookings, numbered in the order zinc lists them
  Terminators,   \* replicas of the terminator
  Exposed,       \* tickets whose refund KTMB shows once it is made
  Vague,         \* tickets whose refund policy has no usable amount
  Priceless,     \* tickets without a usable purchase amount
  BackfillMax,   \* --max
  MaxMishaps     \* bound: errors and crashes

ASSUME RefundsAssumption ==
  /\ Sold \subseteq Nat /\ IsFiniteSet(Sold)
  /\ Exposed \subseteq Sold /\ Vague \subseteq Sold /\ Priceless \subseteq Sold
  /\ BackfillMax \in Nat \ {0} /\ MaxMishaps \in Nat

VARIABLES
  terminated,     \* zinc: terminated bookings, the others are Completed
  costed,         \* zinc: bookings whose cost is known
  refund,         \* zinc: who told it the refund of a booking
  terminations,   \* the terminator's queue
  givenBack,      \* KTMB: refunded tickets
  terminator,     \* what each replica is doing
  backfill,       \* what the run of each kind is doing
  dropped,        \* history: terminations dropped before the ticket was refunded
  mishaps         \* errors and crashes so far

refundsVars ==
  <<terminated, costed, refund, terminations, givenBack, terminator, backfill, dropped, mishaps>>

BackfillKinds == {"cost", "refund"}
TerminatorIdle == [pc |-> "idle", b |-> 0]
TerminatorState == [pc : {"idle", "quote", "refund", "report"}, b : Sold \union {0}]
BackfillIdle == [pc |-> "idle", work |-> <<>>, retried |-> FALSE]
BackfillState == [pc : {"idle", "read", "post"}, work : Seq(Sold), retried : BOOLEAN]

RefundsInit ==
  /\ terminated = {} /\ costed = {} /\ refund = [b \in Sold |-> "none"]
  /\ terminations = <<>> /\ givenBack = {}
  /\ terminator = [t \in Terminators |-> TerminatorIdle]
  /\ backfill = [k \in BackfillKinds |-> BackfillIdle]
  /\ dropped = {} /\ mishaps = 0

RefundsTypeOK ==
  /\ terminated \subseteq Sold /\ costed \subseteq Sold /\ givenBack \subseteq Sold
  /\ refund \in [Sold -> {"none", "reported", "backfilled"}]
  /\ terminations \in Seq(Sold)
  /\ terminator \in [Terminators -> TerminatorState]
  /\ backfill \in [BackfillKinds -> BackfillState]
  /\ dropped \subseteq Sold /\ mishaps \in 0..MaxMishaps

Mishap == mishaps < MaxMishaps /\ mishaps' = mishaps + 1

\* zinc terminates a booking, and says so.
TerminateBooking(b) ==
  /\ b \notin terminated
  /\ terminated' = terminated \union {b} /\ terminations' = Append(terminations, b)
  /\ UNCHANGED <<costed, refund, givenBack, terminator, backfill, dropped, mishaps>>

-----------------------------------------------------------------------------
(* The terminator.                                                         *)

TerminatorTo(t, pc) == terminator' = [terminator EXCEPT ![t].pc = pc]
TerminatorDone(t) == terminator' = [terminator EXCEPT ![t] = TerminatorIdle]

\* BRPOP: the queue no longer has the message.
PopTermination(t) ==
  /\ terminator[t].pc = "idle" /\ terminations # <<>>
  /\ terminator' = [terminator EXCEPT ![t] = [pc |-> "quote", b |-> Head(terminations)]]
  /\ terminations' = Tail(terminations)
  /\ UNCHANGED <<terminated, costed, refund, givenBack, backfill, dropped, mishaps>>

\* Login, the ticket on the account's list, and its refund policy.
Quote(t) ==
  /\ terminator[t].pc = "quote"
  /\ TerminatorTo(t, "refund")
  /\ UNCHANGED <<terminated, costed, refund, terminations, givenBack, backfill, dropped, mishaps>>

\* The amount comes from the policy asked before the refund.
Refunded(t) ==
  /\ givenBack' = givenBack \union {terminator[t].b}
  /\ IF terminator[t].b \in Vague THEN TerminatorDone(t) ELSE TerminatorTo(t, "report")

\* Mutant: whatever KTMB answers is reported.
RefundUnchecked(t) ==
  /\ terminator[t].pc = "refund"
  /\ \/ Refunded(t) /\ UNCHANGED mishaps
     \/ Mishap /\ TerminatorTo(t, "report") /\ UNCHANGED givenBack
  /\ UNCHANGED <<terminated, costed, refund, terminations, backfill, dropped>>

\* RefundTicket, whose answer may be lost when KTMB has made the refund.
Refund(t) ==
  /\ terminator[t].pc = "refund"
  /\ \/ Refunded(t) /\ UNCHANGED mishaps
     \/ Mishap /\ givenBack' = givenBack \union {terminator[t].b} /\ TerminatorDone(t)
  /\ UNCHANGED <<terminated, costed, refund, terminations, backfill, dropped>>

ReportRefund(t) ==
  /\ terminator[t].pc = "report"
  /\ refund' = [refund EXCEPT ![terminator[t].b] = "reported"]
  /\ TerminatorDone(t)
  /\ UNCHANGED <<terminated, costed, terminations, givenBack, backfill, dropped, mishaps>>

\* Whatever fails, and a crash, drops the message; a report that fails is
\* only logged.
DropTermination(t) ==
  /\ terminator[t].pc # "idle" /\ Mishap
  /\ TerminatorDone(t)
  /\ dropped' = IF terminator[t].b \in givenBack THEN dropped ELSE dropped \union {terminator[t].b}
  /\ UNCHANGED <<terminated, costed, refund, terminations, givenBack, backfill>>

TerminatorStep(t) == PopTermination(t) \/ Quote(t) \/ Refund(t) \/ ReportRefund(t)

-----------------------------------------------------------------------------
(* The backfill.                                                           *)

Unbooked(k) ==
  IF k = "cost" THEN (Sold \ terminated) \ costed ELSE {b \in terminated : refund[b] = "none"}

First(S, n) == {b \in S : Cardinality({c \in S : c < b}) < n}

SetBackfill(k, new) == backfill' = [backfill EXCEPT ![k] = new]

\* listMissing and listMissingRefunds, and the login.
StartBackfill(k) ==
  /\ backfill[k].pc = "idle" /\ Unbooked(k) # {}
  /\ \E work \in SetToSeqs(First(Unbooked(k), BackfillMax)) :
       /\ \A i, j \in DOMAIN work : i < j => work[i] < work[j]
       /\ SetBackfill(k, [pc |-> "read", work |-> work, retried |-> FALSE])
  /\ UNCHANGED <<terminated, costed, refund, terminations, givenBack, terminator, dropped, mishaps>>

Item(k) == Head(backfill[k].work)
NextItem(k) ==
  SetBackfill(k, IF Len(backfill[k].work) = 1 THEN BackfillIdle
                 ELSE [pc |-> "read", work |-> Tail(backfill[k].work), retried |-> FALSE])

\* What KTMB's answers give: the cost; or the refund it shows, or else the
\* amount of the refund policy, which it quotes for a ticket it still holds
\* and refuses for one it has refunded.
AmountFound(k, b) ==
  IF k = "cost" THEN b \notin Priceless
  ELSE IF b \in givenBack THEN b \in Exposed
  ELSE b \notin Vague

\* Mutant: an item without an amount ends the run.
ReadOrAbort(k) ==
  /\ backfill[k].pc = "read"
  /\ SetBackfill(k, IF AmountFound(k, Item(k)) THEN [backfill[k] EXCEPT !.pc = "post"]
                    ELSE BackfillIdle)
  /\ UNCHANGED <<terminated, costed, refund, terminations, givenBack, terminator, dropped, mishaps>>

\* An item whose amount cannot be had is passed over; a session that KTMB
\* rejects is refreshed once for an item.
ReadItem(k) ==
  /\ backfill[k].pc = "read"
  /\ \/ /\ AmountFound(k, Item(k)) /\ UNCHANGED mishaps
        /\ SetBackfill(k, [backfill[k] EXCEPT !.pc = "post"])
     \/ ~AmountFound(k, Item(k)) /\ NextItem(k) /\ UNCHANGED mishaps
     \/ Mishap /\ NextItem(k)
     \/ ~backfill[k].retried /\ Mishap /\ SetBackfill(k, [backfill[k] EXCEPT !.retried = TRUE])
  /\ UNCHANGED <<terminated, costed, refund, terminations, givenBack, terminator, dropped>>

PostAmount(k) ==
  /\ backfill[k].pc = "post"
  /\ \/ /\ IF k = "cost"
             THEN costed' = costed \union {Item(k)} /\ UNCHANGED refund
             ELSE refund' = [refund EXCEPT ![Item(k)] = "backfilled"] /\ UNCHANGED costed
        /\ UNCHANGED mishaps
     \/ Mishap /\ UNCHANGED <<costed, refund>>
  /\ NextItem(k)
  /\ UNCHANGED <<terminated, terminations, givenBack, terminator, dropped>>

BackfillStep(k) == StartBackfill(k) \/ ReadItem(k) \/ PostAmount(k)

RefundsNext ==
  \/ \E b \in Sold : TerminateBooking(b)
  \/ \E t \in Terminators : TerminatorStep(t) \/ DropTermination(t)
  \/ \E k \in BackfillKinds : BackfillStep(k)

RefundsSpec == RefundsInit /\ [][RefundsNext]_refundsVars

-----------------------------------------------------------------------------

(* The terminator tells zinc of a refund only when KTMB has made it,       *)
(* whatever replica stops where: zinc's record of a refund of the          *)
(* terminator's is never of a ticket that is still paid for.               *)
ReportedRefundIsMade == \A b \in Sold : refund[b] = "reported" => b \in givenBack

(* "Backfill exact refunds for terminated bookings" (main.go:106): a refund*)
(* on zinc's record has been made.  The backfill asks for the refund policy*)
(* of a ticket that is still held as well, whose quote is no refund.       *)
RecordedRefundIsReal == \A b \in Sold : refund[b] # "none" => b \in givenBack
=============================================================================
