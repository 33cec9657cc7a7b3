# tin: a TLA+ model of the ticket-buying workers

`tin` is the worker side of a ticket-buying service.  `zinc`, the system of
record, owns bookings, users' money and every booking status; tin watches
demand, finds seats on KTMB (the railway), reserves and pays for them with one
funded KTMB account, and reports the ticket back.  When a purchase ends in doubt
the booking is parked, and a recovery pipeline decides from evidence on the KTMB
account whether it is completed, bought again, refunded, or left to a human.

This directory holds the TLA+ modules that model it, the TLC configurations that
check them and the proofs TLAPS checks.  Run inside this directory, for example

    tlc -config recovery_calm.cfg MCRecovery
    tlapm RecoveryProofs.tla    # and every other module named ...Proofs

## 1. Inventory

Paths are relative to `src/`.  "Shared state" is what other processes read or
write; everything else is local to one process.

### 1.1 The parts

| part | code | state | operations |
|---|---|---|---|
| cdc | `lib/cdc`, two replicas | demand snapshot in Redis (`<ps>:count`) | on a zinc stream event: fetch counts, SET the snapshot, notify the update stream |
| count | `lib/count` | reads the snapshot | reserver and poller views of it, filtered by time |
| enricher | `lib/enricher`, two replicas | `userData` and trip `store` in Redis | log in, find each demanded slot, publish token and store |
| poller | `lib/poller`, two replicas | generation keys in Redis | spawn short-lived pollee jobs for demanded dates |
| prober spawner | `lib/prober/{spawner,store,job}.go` | session, expected fleet and tallies in Redis | per epoch: heal the session, fill the trip store, create jobs |
| prober runner | `lib/prober/runner.go` | holds acquired, durable-release list | poll its slots, acquire holds, enqueue or compensate them, drain releases |
| reserver | `lib/reserver` | demand and login caches, last seat counts, deferred slots | count syncer, login syncer, differ, and the reserving client over unbuffered channels |
| session | `lib/session` | cached login token and a 90 s lock in Redis | log in once for everybody, invalidate by compare-and-delete |
| pool | `lib/pool` | hash of KTMB logins per account in Redis | reconcile with the configured accounts, pick one for a pollee |
| buyer | `lib/buyer` | none between reservations; `recover` queue | pop a reservation, mark the booking Buying, drive the purchase, report, park or revert |
| recoverer | `lib/recoverer` | attempt counts inside queued records | drain the queue, expire, sweep; scan, classify, resolve; admin checks; ticket repair |
| recover command | `cmds/recoverer.go` | none | a human resolves bookings with the recoverer's own ProcessItem |
| terminator | `lib/terminator`, two replicas | none; termination queue | refund a terminated ticket on KTMB, report to zinc |
| withdrawer | `lib/withdrawer` | none | approve sweep (gated) and reconcile sweep over zinc's withdrawals |
| ktmb cost backfill | `lib/ktmbcost` | none | ask KTMB for the cost, or the refund, of bookings zinc lacks it of, report it |
| plumbing | `lib/ktmb`, `lib/zinc`, `lib/otelredis`, `lib/encryptor`, `lib/auth`, `system` | warm connection pool | HTTP, JSON, encryption, Redis wrappers, configuration, telemetry |

### 1.2 How they interact

* Demand: zinc stream → cdc → snapshot and notification → enricher, poller,
  prober spawner and reserver.
* Seats: pollee jobs publish seat counts; the reserver's differ turns changes into
  reservations of min(demand, seats); the prober acquires holds on its own.  Both
  push reservations onto the buyer's list.
* Money: buyer ↔ KTMB ↔ zinc.  Doubt goes, as a record, onto the `recover` list.
  The recoverer drains that list and every hour sweeps zinc for bookings in
  Recovering.
* One KTMB account is shared by all of them through `session`; a login invalidates
  the account's earlier session.
* Nothing is transactional across these stores.  A list pop is destructive, a POST
  can take effect without its answer arriving, and every loop may crash between two
  calls and be restarted by Kubernetes.

### 1.3 What is hard, and what makes each part correct

* **buyer, recoverer, command**: several processes act on one booking through calls
  that name only its id; each call can fail, or succeed and look failed.  Correct
  when no ticket is paid twice or paid money given back, and no booking stays in
  limbo (docs/RECOVERY.md section 3).
* **ticket scan**: binary search over pages of a list KTMB changes meanwhile; must
  tell "absent" from "cannot tell".
* **session, store, enricher**: a lock with an expiry, a cached token several
  processes refresh and invalidate, two keys written by two SETs.  Correct when a
  fresh session is never destroyed by news about an old one, and a token is not
  paired with another token's store.
* **prober runner**: an acquired hold must end up queued, cancelled or on the
  durable-release list, across overlapping jobs that cancel from the same list.
* **reserver**: four goroutines, unbuffered channels, a cache of the last seat
  counts that is updated before the reservation it justifies.  Correct when demand
  with seats is eventually reserved, and no goroutine waits for ever.
* **one reservation**: replicas of a goroutine that stop each other over one buffered
  channel.  Correct when the first winner's signal reaches all and nobody hangs on it.
* **cdc**: replicas that overwrite each other's snapshot, notifications that are merged,
  dropped or fail unseen.  Correct when the demand zinc settles on is acted on.
* **repair**: one page of bookings a sweep, some of which nothing repairs.  Correct when
  those do not keep the rest waiting, and no outage page parks a paid booking.
* **withdrawer**: two sweeps over lists that shrink as they are processed; approve
  only with the gate open.  **terminator and backfill**: pop, refund, report, without a
  record in between; the backfill makes up for the report, not for the refund.
* **poller**: replicas whose crons differ in phase share a key that expires; correct when
  a date's Jobs overlap.

PROJECT.json lists every hazard at its line, with the property that covers it or
the reason none does yet.

## 2. What is modelled now

| module | models |
|---|---|
| `Zinc` | what is outside tin: the booking rows and transition guards of zinc, the KTMB account's tickets, the recover list, and how a call can fail |
| `Buyer` | `lib/buyer`: each replica, one action per remote call |
| `Recoverer` | `lib/recoverer` (queue drain, expiry, sweep, ProcessItem, requeue) and the `recover` command |
| `Recovery` | their composition, the properties, and the mapping to `Settlement` |
| `Settlement` | the abstract promise: each booking's money is held, then collected once against a ticket of its passenger, or refunded once and only when what was bought for it has been charged to somebody; one ticket per passenger |
| `MCRecovery` | the instances TLC runs |
| `Session` | `lib/session`: the login cache, its lock and lease, Login and Invalidate, one action per Redis or KTMB call; KTMB accepts the newest login only |
| `SharedSession` | who uses it: the spawner (`lib/prober/store.go`), the enricher's writes, the backfill's Invalidate, the Jobs that read `userData` and signal its death |
| `MCSharedSession` | its instances |
| `Prober` | `lib/prober/runner.go`: draining releases, probing, delivering or compensating a hold, in Jobs that overlap |
| `Custody` | the abstract promise about a hold: somebody sees to it as long as KTMB keeps it, a handover is final unless in doubt, and it is forgotten only when gone or given up |
| `MCProber` | its instances |
| `Demand` | `lib/cdc`, `lib/count`: zinc's counts on their way to the reserver's count syncer |
| `Reserver` | `lib/reserver` on top of it: count syncer, differ, subscription and client loop |
| `MCReserver` | its instances |
| `Reservation` | the replicas of one reservation, `reserveProcess` |
| `TicketScan` | `lib/recoverer/scan.go`: the binary search and the walk over the ticket list's pages |
| `Repair` | `lib/recoverer/repair.go`: re-attaching ticket files |
| `Withdrawer` | `lib/withdrawer`: crons, gate, paging, the two sweeps |
| `Refunds` | `lib/terminator` and `lib/ktmbcost`: refunds, and what zinc is told of money |
| `TripStore` | `lib/enricher` and the reserver's login syncer: token and trip store under two keys |
| `Poller` | `lib/poller`: tiers, generations and sharded Jobs |
| `Background` | the eight loops above and `SharedSession` beside each other |
| `MCBackground` | its instance |
| `RecoveryProofs` | theorems for every instance: types, and the numbers money is collected against |
| `CalmProofs` | one replica, definite answers, no `recover` command: who may act on a booking |
| `SessionProofs` | theorems of `SharedSession` |
| `MoneyProofs` | on top of `CalmProofs`: paid money is kept, and `Recovery` implements `Settlement` |
| `ProberProofs` | theorems of `Prober`, its implementation of `Custody` included |
| `ReserverProofs` | theorems of `Reserver` with `Demand` |
| `TicketScanProofs` | theorems of `TicketScan` on a list that stays as it is |
| `BackgroundProofs` | theorems of the other loops of `Background`, and of their composition |

**State.**  `booking` is zinc's row: status, the KTMB number recorded when the
reserve was collected (0 is none), the recycle counter and two ledgers that count
collections and refunds.  `clock` abstracts time to what the code branches on:
inside the retry window, past it, train departed.  `sold` is the sequence of
tickets KTMB sold, each with the booking it was bought for, so a ticket's number is
its index.  `queue` is the Redis list, `faults` counts failures so far.  `buyer`,
`work` and `cycle` are program counters with the local variables that survive a
remote call.

**Steps.**  Every remote call is an action of its own, so all other processes may
act between any two calls.  `Post` gives a call its four outcomes: committed and
acknowledged, refused by zinc's guard, failed before it acted, and, with
`LostReplies`, committed with the reply lost.  `PushItem` does the same for the
list.  Local computation belongs to the call before it.  A crash takes a process
back to its start, with everything it held gone.

**Correspondence worth knowing.**

* `Buyer!Complete` is the point of no return (`lib/buyer/buyer.go:129`): the ticket
  may be captured while the answer is malformed or lost.
* `Buyer!PushRecover` and `TransitionRecovering` are the two halves of `park`; the
  record is durable before the status changes.
* `Recoverer!Decide` is the branch between the deterministic path (the record has
  both KTMB numbers), the departed train and the scan (`process.go:81`).
* `Recoverer!Recycle` distinguishes zinc's 200, 400 and 409 (`process.go:139`).
* `Recoverer!SkipQueued` runs after `ListRecovering`, not with it: the order of the
  two reads is what makes the sweep skip live records.
* A booking picked by a buyer is any Pending one: zinc's `reserve/<slot>` answer is
  outside tin.  The same freedom covers reservations that arrive from the reserver
  and the prober.
* docs/RECOVERY.md:48 lists the revert endpoint as deleted, while the buyer still
  posts it when payment is refused (`lib/buyer/client.go:323`).  The model keeps what
  the buyer does, and zinc's answer may be a refusal.

**The session.**  A token is the number of the KTMB login that issued it, and `live`
the one KTMB accepts, 0 when none: a login ends the session before it, which is why
the lock exists.  `login` and `userData` are the two Redis keys that hold a token,
`signals` the set of fingerprints reported dead.  The spawner's round is
`ReadSignals`, `ReadLogin`, then `RemoveStale` or `CompareAndDelete`
(`store.go:100-144`), `Ask` or the rest of Login, `Ensure`.  Where Ensure fetches
slots and the enricher fetches for minutes nothing happens to the model's state, but
any other process may act.  A SETNX whose reply is lost leaves the lock with nobody
in the critical section; that is `TryLock` followed by `Crash`.  The recoverer and the
terminator use the session as the backfill does, without ever calling Invalidate;
the instances have one client for all three.

**The holds.**  A hold is acquired by `SendReserve` and its answer; `Acquired` is the
answer with bookingData, `AcquiredUnseen` the one that does not reach the slot though
KTMB granted the seat.  `release` is the Redis list, newest first (LPUSH), and
`Newest` the LRANGE that bounds a Job's work on it.  `queue` holds what the buyers have,
queued or popped.  `CancelCall` groups what
CancelBooking's answers mean to the two callers: confirmed, terminal (the hold is no
more), rejected session, anything else.  `Stubborn` holds are refused in words
`releaseTerminalPatterns` lacks; `Unreadable` ones have entries no Job can decrypt.
`orphaned` are holds given up with an error in the log only, and those no process ever
saw or that died with their pod.

**Demand and the reserver.**  A snapshot carries the number of the zinc change it
reflects, so that an older one overwriting a newer (`Older`) can be told.  An unbuffered
channel send is one joint action of sender and receiver, guarded by both being there:
`GiveReserver` needs the loop past its first login (`reserver.go:83-90`), `GiveDiffer`
the differ between two demands.  The differ blocks in `term <- false` until its
subscription goroutine is between two messages, which is `RestartSub`'s guard
`sub.out = {}`; the messages of the old subscription are lost with it.  `prev` is the
differ's memory of seats, `told` (history) the last diff the loop took, `rise` (history)
whether the last rise of a slot's demand was met by reservations, is still owed them, or
was dropped: `RestartSub` makes it owed where it re-arms a slot, and `TakeDiff` ends it
when the diff asks for min(demand, seats) reservations (`Answered`), as met when they are
started, as dropped when the diff falls within 600 ms of another of its slot.  A diff of
fewer seats, or one priced with less demand, leaves it owed.
`stored.need` names every slot, with 0 for those the counts leave out.  `missed`
records that a call failed, or an older snapshot won, with no change of demand since:
nothing in the code makes up for that before the next change.

**A reservation.**  `term` is the channel's fill.  `Reserve` is one KTMB call with the
push to the buyers; `emit` and `reemit` are the two blocking sends.

**The scan.**  A row's data is what the code tells apart: does the departure parse, is
it ours, does a station confirm the direction.  `lo`, `hi`, `page` and `hit` are the
code's variables.  `ScanSpec` is the algorithm on a list that stays, `ShiftingSpec` adds
`Shift`, a row of another ticket that comes or goes between two page reads.

**The withdrawer.**  `sweep.found` is what the sweep has listed, `sweep.page` the page
to list next, and a page's content is computed when it is read.  zinc's refusal of an
item in another state is benign; `Refused` items always fail.

**Refunds.**  `givenBack` is what KTMB has refunded, `refund` who told zinc: the
terminator ("reported") or the backfill ("backfilled").  `Exposed`, `Vague` and
`Priceless` are the shapes of KTMB's answers that decide whether an amount is found.
`AmountFound` keeps the precedence of `processRefund`: the policy's amount, where KTMB
quotes one, wins over the raw ticket's.

**The trip store.**  A store is the set of slots it has data for; whether that data is
fresh is not told apart, since a stale entry is refreshed by the next pass.  `slots` are
those to fetch in this pass, `existing` those of the second.  The shared session may give
the enricher a cached login that KTMB no longer accepts, until it has healed: that is a slip
(`LogIn`), of which there are finitely many, and every fetch of that pass fails.

**The poller.**  A tick is about 30 s: the cron's 60 s are 2, the generation key's 55 s
are 2, a Job's 120 s are 4.  A replica restarts within a tick.  `gap` counts the ticks in
which a date of the full-power window had no Job.

## 3. The runs

Bounds common to the recovery runs: two failed calls or crashes in a behaviour (each of the
findings needs at most two; three multiply the states without a new kind of
behaviour because a process that crashed is back at its start), one recycle
(`MaxRetries` 1, which reaches spent, in budget, and re-bought), two attempts for
every retry loop (first, last), and at most two tickets on the account (one per
booking, or one booking bought twice).

| run | instance | shows |
|---|---|---|
| `recovery_calm` | two bookings of one passenger, one replica, no lost reply | types; `CapturedNotReleased`; `PurchaseIsBuying`; `OneRecordPerBooking`; `SweepSkipsLiveRecords`; `NoRefundOfPaidTicket`: refunds happen only where the ticket went to the other booking; the pipeline implements `Settlement` |
| `recovery_live` | one booking, lost replies, the command, fairness | `CollectedTicketIsReal`; `EveryRecoveringResolved`; `NoStrandedMoney` |
| `session_shared` | spawner, enricher, backfill, two Jobs; five logins, two kills, one fault | types; `LoginsAreOwed`; `HealthyTokenKept`; `DeathReportKept` |
| `prober_holds` | two Jobs of one slot, one a dry run, two holds, lost replies | types; `NoHoldForgotten`; `OneOrphanPerSlot`; the probers implement `Custody` |
| `prober_live` | one Job after another, three holds, one refused for ever and one unreadable; limit 2; no lost replies | the probers implement exclusive `Custody`; `ReleasesWorkedOff` |
| `demand` | two CDC replicas, one slot, two changes of demand, one failure or crash, streams of one entry | types; `PricedWithNewDemand`; `BeliefIsDelivered`; `DemandArrives`; `RiseIsAnswered` |
| `background` | the loops of section 2's last group, one per behaviour; bounds below | per loop, the properties below |

What `background` checks, by loop:

| loop | instance | properties |
|---|---|---|
| reservation | three replicas of two attempts | `NeverBlocked`, `SignalKept`, `ReplicasEnd` |
| scan | every ascending list of up to four rows over three departures, pages of two | `AbsentIsDefinitive`, `CleanListDecided` |
| repair | four bookings, one without numbers, one unknown to KTMB, pages of three, two errors | `ParkedForCause`, `BacklogRepaired` |
| withdrawer | two withdrawals, one zinc always refuses, pages of one, two pages, one flip, one outage | `SweepsUnderSwitch`, `WithdrawalsHandled` |
| refunds | two bookings, two terminators, one error or crash, `--max` 2 | `ReportedRefundIsMade`, `MoneyRecorded` |
| trips | one slot, two enrichers, two logins, one failure | `LoginArrives` |
| poller | two dates, window 1, boost 1, light 1, two replicas of every phase, two changes, one error | `WatchKept` |
| session | spawner, enricher, one Job; six logins, one kill, one fault, which may be an expired lease or signal | `SessionRecovers` |

`Background` chooses one loop at the start and lets the others rest.  Their modules
declare no variable in common and no action reads another's, so a behaviour in which all
run projects to one of each; interleaving them would multiply the states and show
nothing.  The antecedent `Is(loop)` of three properties says only that a loop that rests
has done nothing.

Session bounds: two kills let a token die while the news of the one before is still
under way, with a login of each process in between (1 + kills + faults = 4 are owed, so
a fifth shows an excess one).  Prober bounds: two holds are one more than the slot may
leave behind and one more than `DrainLimit`; two Jobs are enough for an entry listed
twice.

Bounds of `demand`: two changes are the fewest by which an older snapshot can win, or a
rise can follow a fall; one message in the subscription's buffer lets it be lost with
the subscription; more faults only repeat that a crash is a fresh start.  Bounds of
`background`: four rows and pages of two are the fewest at which a departure can straddle
two pages with rows on both sides; three replicas are the fewest at which a signal is
taken, put back and taken again; a listing of one more item than a page makes an item
move between two page reads; two phases of the poller's crons are all there are at two
ticks.

Why different instances: with two replicas or lost replies some of the guarantees
really fail (section 4), so each property is checked in the widest setting in which it
holds, and settings in which it fails are runs of their own.  `recovery_calm` has two
bookings of *one* passenger, since two of different passengers do less: their scans and
claim checks never meet.  The record that is pushed twice because a reply was lost, and
the complete that is repeated for the same reason, happen in `recovery_live` only:
`CollectedTicketIsReal` and the two liveness properties withstand them;
`OneRecordPerBooking`, `NoRefundOfPaidTicket` and `ImplementsSettlement` do not, and are
claimed of definite answers only.

**Fairness.**  A replica's next step is weakly fair: BRPOP wakes up on a message,
every call has a timeout, and Kubernetes restarts a process that exits.  The
recoverer's loop is weakly fair for the same reason.  A sweep tick is strongly
fair: the ticker's channel holds two ticks and the loop comes back to its `select`
after every cycle (`lib/recoverer/client.go:82-159`), so a tick is taken although
drain ticks compete with it.  Nothing is assumed of time, of users, of a new
reservation arriving or of a failed call's retry succeeding, except that failures
are finite.  `HumanFairness` is the
antecedent of `NoStrandedMoney` alone, where the question is whether a human who runs
the command on every booking that stays stuck can always get it unstuck.

In `SharedSession` the spawner, the enricher and every login step are weakly fair:
both are endless loops, and every call times out.  A dead owner's lock ends (Redis
does that).  A Job is strongly fair in loading its token and in being rejected when
that token is dead: it polls many times before its deadline, and epochs never end.  In
`Prober` Jobs are started and go on (weak), slots stop at the deadline, and the calls
of draining are strongly fair: each can fail, but not at every later Job.

In `Reserver` every goroutine keeps running and a login comes (weak); a select that
finds two channels ready again and again takes each of them (strong: Go picks at
random), so neither a busy line nor the termination signal starves the other, and
pollers go on polling every line that is subscribed to.  600 ms pass (`Calm` is weakly
fair), so that a slot is not shut up for ever.  In `Background` all loops are
weakly fair, since they are endless and every call times out; the withdrawer's two
channels compete in one select (strong), and ticks keep coming.  The refund backfill is
a command somebody runs (`cmds`, `main.go:106`), the cost backfill a CronJob: both are
assumed to be run again while they have work.  Failures are bounded everywhere.

**Deadlock** is checked in every run that expects no violation but `background`: the
recoverer's tick is always enabled when it is idle, a spawner or a new Job can always
start, and the reserver's seats can always change, besides which `DemandArrives` and
`RiseIsAnswered` say that its goroutines do not wait for each other.  `background` has it off
because a scan and a reservation end.

## 4. Findings

Each is a run TLC ends with a counterexample, and quotes the sentence it
contradicts; PROJECT.json has the quotations.

* `find_double_collect`: the claim check compares a scanned ticket with Completed
  bookings.  A ticket bought for the passenger's second booking, whose buyer has not
  reported it yet, is unclaimed: recovery completes the first booking with it and the
  buyer completes the second.
* `find_late_transition`: the buyer's transition to Recovering, sent late, lands on
  another replica's purchase of the same, recycled booking: it is scanned before the
  ticket is captured and refunded after.  A recover record queued twice, because the
  reply to its LPUSH was lost, can do the same with one replica.
* `find_scan_shift`: the scan is documented to answer "absent" only when the ticket
  definitively is.  Pages are read one after another, the first once and for all; one row
  of another ticket that comes or goes in between moves ours into a page already judged,
  and the scan ends without an error.  Without shifts `background` shows
  the sentence true.
* `find_refund_quote`: the backfill of "exact refunds" posts the amount of KTMB's refund
  policy, which KTMB quotes for a ticket it still holds.  When the terminator dropped the
  termination after its pop, or has not come to it, zinc gets a refund that was not made,
  and no longer lists the booking as missing one.

* `find_rise_dropped`: a slot whose demand rose is re-armed so that "the reserver
  re-attempts min(demand, seats) reservations" and need not wait for its seats to change.
  When the re-armed diff comes within 600 ms of another one of the slot the loop drops it,
  and the differ, which has recorded its seats, never sends them again.  `demand` checks
  what is left, `RiseIsAnswered`: the reservations are started, or their diff was dropped
  for that reason, or there are no seats.

Two more limits, each of which an instance shows:

* The sweep re-derives Recovering bookings only (`lib/recoverer/client.go:210-213`).  When
  the buyer's transition failed, the booking of a lost record is in Buying: only
  `NoStrandedMoney`'s human gets it out.  `recovery_live` fails without `HumanFairness`.
* Every prober Job is documented to retry the recorded releases
  (docs/EPOCH-PROBER.md:321), but tries the newest `releaseDrainLimit` only.  `prober_live`
  with as many `Stubborn` holds as `DrainLimit` violates `ReleasesWorkedOff`: they hide
  the older ones from every later Job.

## 5. The proofs

`RecoveryProofs` proves, for every set of bookings, passengers, replicas and every
bound, with lost replies, crashes and the manual command allowed:

* `TypeCorrect`: `Spec => []TypeOK`.  The inductive invariant `TypeInv` adds that a
  process that is not idle has a booking, and a worker an item, in hand: without it
  the next call would be about no booking at all.
* `NumbersCorrect`: `Spec => []CollectedTicketIsReal`.  The property is not inductive:
  the number zinc records is one a process has carried since an earlier call, perhaps
  through the queue.  `NumbersInv` follows it: every non-zero number held by a buyer
  (`BuyerNumbers`), by a queued record (`QueueNumbers`) or by a worker, in its record
  or from its scan (`WorkNumbers`), is a ticket of the right passenger, and a process
  gets to the calls that report a number only with one in hand.  It is kept because
  tickets are only ever added to the account (`SoldStable`): a number that is real
  stays real however long the record waits.

Both rest on the constants' named assumptions only.

`CalmProofs` assumes `Calm`, the deployment docs/RECOVERY.md argues about: one replica,
calls whose failure means they did nothing, and nobody running the `recover` command.
The number of bookings and every bound stay arbitrary.

* `PurchaseStaysBuying`, `OneWorkerPerBooking`, `SweepLeavesQueued`: `PurchaseIsBuying`,
  `OneRecordPerBooking` and `SweepSkipsLiveRecords` always hold.  None of the three is
  inductive, nor are they together: what
  keeps the sweep off a queued record is that the buyer's push precedes the status
  change, so a booking listed as Recovering has its record already.  `OrderInv` adds
  what that argument uses: a purchase in flight is Buying *and has no record*
  (`PurchaseAlone`), so that its own push makes the first; a booking with a record is
  not Pending (`RecordNotPending`), so that no buyer starts on it; what is left of a
  sweep is Recovering and not in the loop's hands (`SweepTargets`); and the loop, past
  its status checks, works on a Recovering booking (`WorkOnRecovering`).

`MoneyProofs` proves in that deployment, with any number of bookings per passenger:

* `PaidBookingIsKept`: `Spec => []CapturedNotReleased`.
* `PaidMoneyIsKept`: `Spec => []NoRefundOfPaidTicket`.
* `RecoverySettles`: `Spec => ImplementsSettlement`, the refinement of the abstract
  ledger by the whole pipeline.

All need `MoneyInv` on top of the invariants above: a booking with an unreported ticket is
in a status only recovery or a human can end (`CapturedNotReleased`), it has one ticket
(`OneTicketEach`), the buyer pays only for a booking without one (`BuyWithoutTicket`), and a
row's status agrees with its money (`LedgerAgrees`).  With several bookings of a passenger
"the loop recycles or refunds only a booking without a ticket" is false: the scan may find
the ticket and see it charged to another booking of the passenger.  What is kept is
`ReleaseAccounted`: what the loop releases has no ticket that nobody was charged for
(`Accounted`), and no step takes back a number zinc has recorded (`ClaimsStay`).  A capture
is the one step that could break several of these at once; `PurchaseAlone` makes it safe,
since nobody else has that booking.  The scan's answer stays true until the release for
the same reason: while the loop holds the booking no buyer can.  Each step of the
refinement is a lemma about one kind of step (`CallMoney` for zinc's endpoints,
`CaptureMoney`, `RefundMoney`, `NoMoney`), which proves the invariant and the step of
`Settlement` (`PromiseStep`) together.

The assumptions are needed: section 4 shows what lost replies and a second replica break.
That a ticket is charged to one booking only is what a second booking of the passenger
breaks (`find_double_collect`): `Settlement` does not promise it.  TLC checked each
inductive invariant on instances of one and of two passengers before it was proved.

The step that preserves each invariant has one case per action; lemmas say once what
`Post`, `PushItem`, `Goto`, `Enter`, `Decide` and the others do or preserve.

`SessionProofs` proves, for any clients, Jobs and bounds, `SessionTypes` without further
assumption, and, as long as no lock holder outlives its 90 s lease (`LeaseExpires` =
FALSE; KTMB calls give up after 60 s), `OneLoginPerDeath`, `HealthyIsKept` and
`ReportIsKept`.  The inductive invariant is
`SessionInv`:

* `LockInv`: whoever is past the lock owns it, so at most one process is (`Mutex`); it
  logs in only while the cache is empty (`Missed`); a token just answered is the last one
  issued (`Fresh`), and KTMB accepts no other (`LiveIsLast`);
* `Published`: no cached, reported or used token is that of a login still under way,
  so nothing the others hold can name it;
* `Reported`: signals, and the tokens that processes are about to delete or report, are
  not accepted by KTMB any more, and never will be, since token numbers only grow;
* `Owed`: one session may be running, and every other login is owed to a death or fault;
* `Stale`: what the spawner removes as stale does not name the cached token, also when
  that token was stored after the spawner read the signals.

`HealthyIsKept` follows because both deletions compare with a token known dead, and
`LoginsAreOwed` is the part of `Owed` a caller sees.

`ReserverProofs` proves, for any slots, lines, CDC replicas and bounds, with failures and
crashes, from the constants' assumptions only:

* `ReserverTypeCorrect`: `Spec => []TypeOK`.
* `DiffsPricedWithNewDemand`: `Spec => []PricedWithNewDemand`.  Inductive with
  `DemandGiven`: the demand the syncer is about to hand to the differ, or the differ
  already holds, is one the loop has.  This is the argument of the comment in
  `count_syncer.go:103-104`: it needs the reserver's send to come first and both channels
  to be unbuffered.
* `DifferBelievesDelivered`: `Spec => []BeliefIsDelivered`.  Inductive with `FirstIsOff`
  (no subscription before the first demand) and `SentIsBelieved` (a diff still being sent
  is the differ's memory of its slot): a subscription is only replaced between two
  messages, when all its diffs were taken.

`ProberProofs` proves, for any Jobs, slots, holds and limits, with overlapping
generations, kills, lost replies, `Stubborn` and `Unreadable` holds, from the constants'
assumptions only, `TypeCorrect`, `NoHoldIsForgotten`, `SlotStopsAtOrphan` and
`JobsKeepCustody` (`Spec => ImplementsCustody`).  The inductive invariant `CustodyInv` adds
to the type and to `NoHoldForgotten`:

* `SlotInv`: a slot has a hold exactly at the steps that deliver or release it, and one that
  gave a hold up is done;
* `OneHand`: no two slots, of any Jobs, have the same hold; it rests on `Known`: who has a
  hold, has one KTMB gave, so that a new one is nobody's yet;
* `BatchInv`: every entry of a Job's batch is a hold KTMB gave, and is still listed or was
  seen to (`SeenTo`), by this Job or by another one that drains the same list.  An entry
  about to be removed is seen to: that is why overlapping Jobs may cancel and remove the
  same entries.

`Removed` says what LREM leaves of a list: everything but the one entry.  A step of the
prober maps to a step of `Custody` for one hold, or to none; whether a handover in doubt
may be followed by another is `Custody`'s constant, so both instances TLC runs are
instances of the theorem.

`TicketScanProofs` proves of `ScanSpec`, a scan of a list nobody changes meanwhile, for
lists of any length, any departures, malformed rows and page size, `ScanTypeCorrect`,
`AbsentOnlyIfAbsent` and `CleanListIsDecided`.  The inductive invariant `ScanInv` says
where our row can still be:

* `SearchInv`: on the pages from `lo` to `hi` (the order of the departures rules out
  half of them at each step);
* `LeftInv`: not on the pages read from the one hit to the left; and these have a row of
  the target's departure, or only the page hit was read and the target lies in its span
  (`Spans`);
* `RightInv`: beyond the pages read, which have a row of the target's departure.

A page without such a row then ends the walk rightly: our row would make an ascending
list reach the target's departure on both sides of it.  `ListRead` (the pages are those of
the list, `total` is its last) keeps the scan off an empty page, which `PageRead` shows from
the arithmetic of `TotalPage`.  `find_scan_shift` shows why the list must stay as it is.

`BackgroundProofs` proves of the other loops, each by its own specification, from the
constants' assumptions only:

* `RaceTypeCorrect`, `ReplicasNeverBlock`, `WinnersSignalKept`, for any finite set of replicas
  and any number of attempts.  They follow from a conservation law, `Conserved`: the
  signals in the channel and the replicas about to put one back are together as many as
  the replicas that won.  A sender is not among the winners yet, or took the signal it
  puts back, so the channel has room for it.
* `ParksForCause` (repair), inductive as it stands.
* `PayoutsUnderSwitch` (withdrawer): `SwitchInv` says that a sweep that lists or posts
  approvals is one whose gate let it.
* `ReportedRefundsAreMade` (terminator and backfill): `ReportInv` adds that a replica about
  to report has had the ticket refunded, which nothing takes back.
* `WindowStaysWatched` (poller), for any dates, replicas, tiers, phases of the crons and
  number of errors.  `PollerInv` bounds, for each date, its gap *and* the wait that is
  still ahead of it: a replica that waits has a cron in time (`WaitInv`); a generation key
  that makes replicas skip is that of a plan whose dates stay watched until the cron after
  it, or was claimed by a call that failed, and then the error pays for it (`ClaimInv`); a
  replica's cron is late only after an error (`CronInv`); and without errors the Jobs of a
  date that was spawned outlast every replica's next cron (`KeptInv`).  The theorem needs
  that there is a replica (`Pollers # {}`).

`BackgroundIsEach` shows that a behaviour of `Background` is one of each loop's
specification: a loop that rests stutters, and the one chosen takes its own steps.  With it
`BackgroundTypeCorrect` (`Spec => []BackgroundTypeOK`) and `BackgroundSafe` (all the safety
properties the run checks) hold of `Background` for every value of its constants.  The
session's part is the theorem of `SessionProofs`, instantiated with `LeaseExpires` TRUE;
`BackgroundAssumption` states for `Background`'s constants what `SharedSession` assumes of
its own.  The trip store has no safety property but its type (`TripTypeStep`); what is
claimed of it is that a login arrives.

**What proving changed in the model.**  `gap` is a history of the model: it was kept for a
date that left the window, so that one that came back counted ticks it had not been in the
window.  With three changes of the counts `WatchKept` was violated for that reason
alone; `ChangeCounts` now starts it anew.  zinc's and KTMB's listings in `Refunds` and
`Withdrawer` were sorted with `SortSeq`, of which tlapm knows nothing: the page is now the
set of items by rank, and its enumeration the ascending one; that listings are finite is a
named assumption (`IsFiniteSet(Sold)`, `IsFiniteSet(Withdrawals)`).  `TicketScan`,
`Reservation` and `Poller` are proved for every list, replica set and number of changes, where
the run has four rows, three replicas and two changes.

Every safety property a passing run checks is a theorem: those of `Recovery` in the
settings named above, those of the session as long as no lease runs out on a live owner,
and the rest without further assumption.  Only model-checked are the liveness properties
(`EveryRecoveringResolved`, `NoStrandedMoney`, `ReleasesWorkedOff`, `DemandArrives`,
`RiseIsAnswered`, `ReplicasEnd`, `BacklogRepaired`, `WithdrawalsHandled`, `MoneyRecorded`,
`LoginArrives`, `SessionRecovers`), which are out of the prover's reach, as is anything
about ENABLED or fairness.

## 6. Not modelled

* zinc itself and KTMB, beyond what tin's requests and branches show and
  docs/RECOVERY.md section 2 records.
* The KTMB reservation behind a purchase (its release is the last, best-effort call
  of its path), prices, PDFs, e-mail, JSON, encryption, HTTP, telemetry.
* Running two recoverer loops at once: the deployment runs one
  (`lib/recoverer/client.go:29-34`).
* The zinc client, `lib/zinc/main.go`: 13958 lines generated from zinc's OpenAPI
  document, more than half of the repository's implementation.  Nothing in it
  decides anything; it is why the mapped share of the lines cannot be large.
* The KTMB client, encryption, credentials, configuration and telemetry: conversions and
  I/O, whose outcomes are branches of the actions that call them.
* The admin check (`lib/recoverer/check.go`): reads only, its answer is a key nothing else
  reads.
* The pool (`lib/pool`): KTMB logins of the poller's own accounts, never the shared one.
* The prober's expected fleet and tallies: counters of the log and of metrics.
* A malformed message on the pollers' channels, which ends the differ's subscription
  goroutine and leaves the differ in `term <- false`: the pollers are outside this
  repository and publish what their own types encode.
* The recoverer's tick channel, whose capacity is two; its fairness is argued above.

## 7. Plan

Done, in this order: the money path (`Recovery`, `Settlement`), the session, the prober
with `Custody`, demand and reserver, the scan, and the other loops (`Background`).

Left, the most useful first:

1. Proofs: what `SessionInv` keeps when leases expire, and what the recovery invariants
   keep when a reply is lost but there is one replica.
2. A scan that survives shifts, to compare with: re-reading the last page before
   "absent" is concluded.
3. The prober's fleet and its tallies, and the pool's reconciliation.
