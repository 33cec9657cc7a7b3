------------------------------ MODULE Recoverer -----------------------------
(***************************************************************************)
(* The recoverer (lib/recoverer) and the manual `recover` command          *)
(* (cmds/recoverer.go).  The recoverer is one sequential loop: drain the   *)
(* queue, ask zinc to expire recycled bookings, and on a sweep tick        *)
(* reconcile every Recovering booking.  The command is a process of its    *)
(* own.  Both resolve a booking with the same ProcessItem, one action per  *)
(* remote call.                                                            *)
(***************************************************************************)
EXTENDS Zinc

CONSTANTS
  MaxAttempts,     \* recoverer.maxAttempts
  RequeueRetries   \* recoverRequeueRetries

ASSUME RecovererAssumption ==
  MaxAttempts \in Nat /\ RequeueRetries \in Nat \ {0}

VARIABLES
  work,    \* where each worker is inside ProcessItem and requeue
  cycle    \* where the recoverer's loop is between two items

Workers == {"loop", "cli"}

WorkPc == {"idle", "cliBuying", "cliRecovering", "getBooking", "recovering",
           "scan", "isClaimed", "print", "complete", "duplicate", "manual",
           "recoverRevert", "requeue", "parkExhausted", "push"}

NoItem == [b |-> NoBooking, no |-> 0, attempts |-> 0]

\* no: the ticket being force-completed, from the item or from the scan.
WorkState == [pc: WorkPc, item: Item \cup {NoItem}, no: KtmbNo, tries: Nat]
WorkIdle == [pc |-> "idle", item |-> NoItem, no |-> 0, tries |-> 0]

CycleState == [pc: {"idle", "drain", "expire", "list", "queued", "sweep"},
               sweep: BOOLEAN, left: Nat,
               handled: SUBSET Bookings, todo: SUBSET Bookings]
CycleIdle == [pc |-> "idle", sweep |-> FALSE, left |-> 0,
              handled |-> {}, todo |-> {}]

recovererVars == <<work, cycle>>

RecovererInit ==
  /\ work = [w \in Workers |-> WorkIdle]
  /\ cycle = CycleIdle

-----------------------------------------------------------------------------
(* ProcessItem.                                                            *)

\* ReconstructDto: zinc does not know a captured ticket's numbers.
Reconstruct(b) == [b |-> b, no |-> 0, attempts |-> 0]

Begin(w, item, pc) ==
  work' = [work EXCEPT ![w] = [WorkIdle EXCEPT !.pc = pc, !.item = item]]

At(w, pc) == work[w].pc = pc
Enter(w, pc) == work' = [work EXCEPT ![w].pc = pc]
Done(w) == work' = [work EXCEPT ![w] = WorkIdle]

\* An error: the loop re-queues the item, the command gives up on it.
Failed(w) == IF w = "loop" THEN Enter(w, "requeue") ELSE Done(w)

\* Mutant: a record without KTMB numbers is force-completed with them.
DecideUnnumbered(w) ==
  LET item == work[w].item IN
  work' = [work EXCEPT
    ![w].pc = IF clock[item.b] = "departed" THEN "manual" ELSE "print",
    ![w].no = item.no]

(* After the status checks: a record with both KTMB numbers is completed   *)
(* with them; a departed train cannot be verified; otherwise scan.         *)
Decide(w) ==
  LET item == work[w].item IN
  work' = [work EXCEPT
    ![w].pc = IF item.no # 0 THEN "print"
              ELSE IF clock[item.b] = "departed" THEN "manual" ELSE "scan",
    ![w].no = item.no]

\* Read the booking and classify it.
GetBooking(w) ==
  /\ At(w, "getBooking")
  /\ LET row == booking[work[w].item.b] IN
     \/ row.status \notin Live /\ Done(w)
     \/ row.status \in Live /\ row.bookingNo # 0 /\ Enter(w, "manual")
     \/ row.status = "Buying" /\ row.bookingNo = 0 /\ Enter(w, "recovering")
     \/ row.status = "Pending" /\ row.bookingNo = 0 /\ Enter(w, "manual")
     \/ row.status = "Recovering" /\ row.bookingNo = 0 /\ Decide(w)
  /\ UNCHANGED <<zincVars, cycle>>

MarkRecovering(w) ==
  /\ At(w, "recovering")
  /\ \E reply \in Reply :
       /\ Post("recovering", work[w].item.b, 0, reply)
       /\ IF reply = "ok" THEN Decide(w) ELSE Failed(w)
  /\ UNCHANGED <<clock, sold, queue, cycle>>

\* A conclusive scan: some ticket of the passenger on our account, or none.
Scan(w) ==
  /\ At(w, "scan")
  /\ LET found == TicketsOf(PassengerOf[work[w].item.b]) IN
     \/ /\ found = {}
        /\ Enter(w, "recoverRevert")
     \/ \E t \in found :
          work' = [work EXCEPT ![w].pc = "isClaimed", ![w].no = t]
  /\ UNCHANGED <<zincVars, cycle>>

\* Completed bookings of the same passenger and departure that record t.
Claimants(t) ==
  {b \in Bookings : booking[b].status = "Completed" /\ booking[b].bookingNo = t}

\* Mutant: any other booking of the passenger counts as a claim.
IsClaimedByPassenger(w) ==
  /\ At(w, "isClaimed")
  /\ LET b == work[w].item.b
         others == {c \in Bookings \ {b} : PassengerOf[c] = PassengerOf[b]}
     IN  Enter(w, IF others # {} THEN "duplicate" ELSE "print")
  /\ UNCHANGED <<zincVars, cycle>>

IsClaimed(w) ==
  /\ At(w, "isClaimed")
  /\ Enter(w, IF Claimants(work[w].no) # {} THEN "duplicate" ELSE "print")
  /\ UNCHANGED <<zincVars, cycle>>

\* forceComplete: the PDF first, then the report.
FetchPdf(w) ==
  /\ At(w, "print")
  /\ Enter(w, "complete")
  /\ UNCHANGED <<zincVars, cycle>>

\* Mutant: an inconclusive scan is taken for an absent ticket.
InconclusiveIsAbsent(w) ==
  /\ work[w].pc \in {"getBooking", "scan", "isClaimed", "print"}
  /\ Fault /\ IF At(w, "scan") THEN Enter(w, "recoverRevert") ELSE Failed(w)
  /\ UNCHANGED <<booking, clock, sold, queue, cycle>>

\* Any read may fail, and a scan may be inconclusive: retry later.
ReadFails(w) ==
  /\ work[w].pc \in {"getBooking", "scan", "isClaimed", "print"}
  /\ Fault /\ Failed(w)
  /\ UNCHANGED <<booking, clock, sold, queue, cycle>>

\* The three endings; a 200 resolves the item, anything else is an error.
Resolve(w) ==
  /\ work[w].pc \in {"complete", "duplicate", "manual"}
  /\ \E reply \in Reply :
       /\ Post(work[w].pc, work[w].item.b, work[w].no, reply)
       /\ IF reply = "ok" THEN Done(w) ELSE Failed(w)
  /\ UNCHANGED <<clock, sold, queue, cycle>>

(* recycleOrDuplicate: 200 and 400 resolve the item; 409, the budget of a  *)
(* booking still Recovering is spent, falls back to a refund.              *)
Recycle(w) ==
  /\ At(w, "recoverRevert")
  /\ \E reply \in Reply :
       /\ Post("recoverRevert", work[w].item.b, 0, reply)
       /\ IF reply = "error" THEN Failed(w)
          ELSE IF reply = "rejected" /\ booking[work[w].item.b].status = "Recovering"
            THEN Enter(w, "duplicate")
            ELSE Done(w)
  /\ UNCHANGED <<clock, sold, queue, cycle>>

-----------------------------------------------------------------------------
(* requeue, which only the loop reaches.                                   *)

Requeue ==
  /\ At("loop", "requeue")
  /\ LET attempts == work["loop"].item.attempts + 1 IN
     work' = [work EXCEPT
       !["loop"].item.attempts = attempts,
       !["loop"].pc = IF attempts >= MaxAttempts THEN "parkExhausted" ELSE "push"]
  /\ UNCHANGED <<zincVars, cycle>>

ParkExhausted ==
  /\ At("loop", "parkExhausted")
  /\ \E reply \in Reply :
       /\ Post("manual", work["loop"].item.b, 0, reply)
       /\ IF reply = "ok" THEN Done("loop") ELSE Enter("loop", "push")
  /\ UNCHANGED <<clock, sold, queue, cycle>>

\* After the last failed attempt the record is lost; zinc still has the booking.
PushBack ==
  /\ At("loop", "push")
  /\ \E reply \in Reply :
       /\ PushItem(work["loop"].item, reply)
       /\ IF reply = "ok" \/ work["loop"].tries + 1 >= RequeueRetries
            THEN Done("loop")
            ELSE work' = [work EXCEPT !["loop"].tries = @ + 1]
  /\ UNCHANGED <<booking, clock, sold, cycle>>

-----------------------------------------------------------------------------
(* The loop.  Its steps run only while it holds no item.                   *)

LoopAt(pc) == cycle.pc = pc /\ At("loop", "idle")
LoopTo(pc) == cycle' = [cycle EXCEPT !.pc = pc]

\* A tick: the queue length now caps the drain.
StartCycle(sweep) ==
  /\ LoopAt("idle")
  /\ cycle' = [CycleIdle EXCEPT !.pc = "drain", !.sweep = sweep, !.left = Len(queue)]
  /\ UNCHANGED <<zincVars, work>>

\* Mutant: the drain runs until the queue is empty.
DrainPopUncapped ==
  /\ LoopAt("drain") /\ queue # <<>>
  /\ queue' = Tail(queue)
  /\ Begin("loop", Head(queue), "getBooking")
  /\ cycle' = [cycle EXCEPT !.left = @ - 1, !.handled = @ \cup {Head(queue).b}]
  /\ UNCHANGED <<booking, clock, sold, faults>>

\* Destructive RPop of the oldest record.
DrainPop ==
  /\ LoopAt("drain") /\ cycle.left > 0 /\ queue # <<>>
  /\ queue' = Tail(queue)
  /\ Begin("loop", Head(queue), "getBooking")
  /\ cycle' = [cycle EXCEPT !.left = @ - 1, !.handled = @ \cup {Head(queue).b}]
  /\ UNCHANGED <<booking, clock, sold, faults>>

\* The drain ends at its cap or on an empty queue, or a pop fails.
DrainEnd ==
  /\ LoopAt("drain")
  /\ \/ (cycle.left = 0 \/ queue = <<>>) /\ UNCHANGED faults
     \/ Fault
  /\ LoopTo("expire")
  /\ UNCHANGED <<booking, clock, sold, queue, work>>

\* Mutant: the cycle ends here, so nothing is ever swept.
ExpireEndsCycle ==
  /\ LoopAt("expire")
  /\ \/ ExpireAll /\ UNCHANGED faults
     \/ Fault /\ UNCHANGED booking
  /\ cycle' = CycleIdle
  /\ UNCHANGED <<clock, sold, queue, work>>

\* ExpireRecovery; a failed call is only logged.
ExpireRecovery ==
  /\ LoopAt("expire")
  /\ \/ ExpireAll /\ UNCHANGED faults
     \/ Fault /\ UNCHANGED booking
  /\ IF cycle.sweep THEN LoopTo("list") ELSE cycle' = CycleIdle
  /\ UNCHANGED <<clock, sold, queue, work>>

\* Mutant: bookings in Buying are swept as well.
ListUnresolved ==
  /\ LoopAt("list")
  /\ cycle' = [cycle EXCEPT !.pc = "queued",
       !.todo = {b \in Bookings : booking[b].status \in {"Buying", "Recovering"}}]
  /\ UNCHANGED <<zincVars, work>>

\* Sweep reads the Recovering bookings first ...
ListRecovering ==
  /\ LoopAt("list")
  /\ cycle' = [cycle EXCEPT !.pc = "queued",
                 !.todo = {b \in Bookings : booking[b].status = "Recovering"}]
  /\ UNCHANGED <<zincVars, work>>

QueuedBookingIds == {queue[i].b : i \in DOMAIN queue}

\* Mutant: only what this cycle's drain handled is skipped.
SkipHandled ==
  /\ LoopAt("queued")
  /\ cycle' = [cycle EXCEPT !.pc = "sweep", !.todo = @ \ cycle.handled]
  /\ UNCHANGED <<zincVars, work>>

\* ... then the records still queued, and skips those and the handled ones.
SkipQueued ==
  /\ LoopAt("queued")
  /\ cycle' = [cycle EXCEPT !.pc = "sweep",
                 !.todo = @ \ (cycle.handled \cup QueuedBookingIds)]
  /\ UNCHANGED <<zincVars, work>>

SweepNext ==
  /\ LoopAt("sweep")
  /\ \E b \in cycle.todo :
       /\ Begin("loop", Reconstruct(b), "getBooking")
       /\ cycle' = [cycle EXCEPT !.todo = @ \ {b}]
  /\ UNCHANGED zincVars

\* Nothing left to sweep, or one of the sweep's two reads failed.
SweepEnd ==
  /\ \/ LoopAt("sweep") /\ cycle.todo = {} /\ UNCHANGED faults
     \/ (LoopAt("list") \/ LoopAt("queued")) /\ Fault
  /\ cycle' = CycleIdle
  /\ UNCHANGED <<booking, clock, sold, queue, work>>

\* The pod dies: the popped item and the cycle are gone.
LoopCrash ==
  /\ ~LoopAt("idle")
  /\ Fault /\ Done("loop") /\ cycle' = CycleIdle
  /\ UNCHANGED <<booking, clock, sold, queue>>

-----------------------------------------------------------------------------
(* The manual `recover` command, on a booking a human confirmed.           *)

\* Mutant: a booking stuck in Buying is refused.
CliStartRecovering(b) ==
  /\ At("cli", "idle")
  /\ booking[b].status = "Recovering"
  /\ Begin("cli", Reconstruct(b), "getBooking")
  /\ UNCHANGED <<zincVars, cycle>>

CliStart(b) ==
  /\ At("cli", "idle")
  /\ booking[b].status \in Live
  /\ Begin("cli", Reconstruct(b),
           CASE booking[b].status = "Pending"    -> "cliBuying"
             [] booking[b].status = "Buying"     -> "cliRecovering"
             [] booking[b].status = "Recovering" -> "getBooking")
  /\ UNCHANGED <<zincVars, cycle>>

\* Any answer but 200 ends the command.
CliBuying ==
  /\ At("cli", "cliBuying")
  /\ \E reply \in Reply :
       /\ Post("buying", work["cli"].item.b, 0, reply)
       /\ IF reply = "ok" THEN Enter("cli", "cliRecovering") ELSE Done("cli")
  /\ UNCHANGED <<clock, sold, queue, cycle>>

CliRecovering ==
  /\ At("cli", "cliRecovering")
  /\ \E reply \in Reply :
       /\ Post("recovering", work["cli"].item.b, 0, reply)
       /\ IF reply = "ok" THEN Enter("cli", "getBooking") ELSE Done("cli")
  /\ UNCHANGED <<clock, sold, queue, cycle>>

-----------------------------------------------------------------------------

ProcessItem(w) ==
  \/ GetBooking(w) \/ MarkRecovering(w) \/ Scan(w) \/ IsClaimed(w) \/ FetchPdf(w)
  \/ ReadFails(w) \/ Resolve(w) \/ Recycle(w)

LoopStep ==
  \/ ProcessItem("loop") \/ Requeue \/ ParkExhausted \/ PushBack
  \/ DrainPop \/ DrainEnd \/ ExpireRecovery
  \/ ListRecovering \/ SkipQueued \/ SweepNext \/ SweepEnd

CliStep == CliBuying \/ CliRecovering \/ ProcessItem("cli")

RecovererNext ==
  \/ \E sweep \in BOOLEAN : StartCycle(sweep)
  \/ LoopStep \/ LoopCrash \/ CliStep
=============================================================================
