------------------------------- MODULE Prober -------------------------------
(***************************************************************************)
(* Prober Jobs (lib/prober/runner.go): each slot of a Job keeps asking     *)
(* KTMB for a hold and hands what it gets to the buyers; a hold that cannot*)
(* be delivered is cancelled, or recorded in a durable release list that   *)
(* every later Job works off first.  Generations of Jobs overlap.          *)
(***************************************************************************)
EXTENDS Integers, Sequences, SequencesExt

CONSTANTS
  Jobs,          \* Jobs that can be alive at once
  Slots,         \* the departure slots of a Job
  Holds, NoHold, \* bound: holds KTMB can give
  Needed,        \* holds a Job may acquire for a slot
  ErrorLimit,    \* consecutive errors that end a slot
  DrainLimit,    \* release entries a Job attempts (ReleaseDrainLimit)
  Stubborn,      \* holds whose Cancel KTMB refuses in words no pattern knows
  Unreadable,    \* holds whose release entry no Job can decrypt
  DryJobs,       \* Jobs configured as a dry run, which gives every hold back
  LostReplies    \* a call that fails may have taken effect

ASSUME ProberAssumption ==
  /\ NoHold \notin Holds
  /\ {Needed, ErrorLimit, DrainLimit} \subseteq Nat \ {0}
  /\ DryJobs \subseteq Jobs /\ LostReplies \in BOOLEAN

VARIABLES
  held,       \* KTMB: the holds that exist
  cancelled,  \* KTMB: the holds our Cancel ended
  over,       \* KTMB: the holds that were paid or ran out
  queue,      \* holds the buyers have, in the Redis queue or popped
  release,    \* Redis: the release list, newest first
  orphaned,   \* holds given up in the log, died with a pod, or never seen
  job,        \* what a Job does besides its slots
  slot        \* what a Job does for a slot

vars == <<held, cancelled, over, queue, release, orphaned, job, slot>>
ktmbVars == <<held, cancelled, over>>

JobState == [pc : {"none", "start", "drain", "remove", "probe"}, todo : Seq(Holds), cancelled : BOOLEAN]
SlotState == [pc : {"done", "probe", "sent", "accept", "cancel", "persist"}, hold : Holds \union {NoHold},
              got : 0..Needed, errors : 0..ErrorLimit, refreshed : BOOLEAN, failed : 0..Needed]

NoJob == [pc |-> "none", todo |-> <<>>, cancelled |-> FALSE]
SlotDone == [pc |-> "done", hold |-> NoHold, got |-> 0, errors |-> 0, refreshed |-> FALSE, failed |-> 0]

Init ==
  /\ held = {} /\ cancelled = {} /\ over = {} /\ queue = {} /\ release = <<>> /\ orphaned = {}
  /\ job = [j \in Jobs |-> NoJob]
  /\ slot = [j \in Jobs |-> [s \in Slots |-> SlotDone]]

Released == ToSet(release)
InHand == {slot[j][s].hold : j \in Jobs, s \in Slots} \ {NoHold}

SetSlot(j, s, new) == slot' = [slot EXCEPT ![j][s] = new]
SlotTo(j, s, at) == SetSlot(j, s, [slot[j][s] EXCEPT !.pc = at])
SetJob(j, new) == job' = [job EXCEPT ![j] = new]

-----------------------------------------------------------------------------
(* KTMB's answers.                                                         *)

Acquire(h) ==
  /\ h \in Holds \ (held \union cancelled \union over)
  /\ held' = held \union {h} /\ UNCHANGED <<cancelled, over>>

Cancelled(h) == held' = held \ {h} /\ cancelled' = cancelled \union {h} /\ UNCHANGED over

Over(h) == held' = held \ {h} /\ over' = over \union {h} /\ UNCHANGED cancelled

(* CancelBooking: confirmed; refused with a terminal message, as the hold  *)
(* is no more; refused because of the session; or an error, perhaps after  *)
(* the hold was freed.                                                     *)
CancelCall(h, answer) ==
  \/ answer = "confirmed" /\ h \in held \ Stubborn /\ Cancelled(h)
  \/ answer = "terminal" /\ h \notin held \union Stubborn /\ UNCHANGED ktmbVars
  \/ answer \in {"session", "error"} /\ UNCHANGED ktmbVars
  \/ answer = "error" /\ LostReplies /\ h \in held \ Stubborn /\ Cancelled(h)

\* A hold that is not paid runs out on its own.
Expire(h) ==
  /\ h \in held /\ Over(h)
  /\ UNCHANGED <<queue, release, orphaned, job, slot>>

-----------------------------------------------------------------------------
(* drainReleases, at the start of a Job.                                   *)

\* The spawner creates a Job of the next generation.
StartJob(j) ==
  /\ job[j].pc = "none"
  /\ SetJob(j, [NoJob EXCEPT !.pc = "start"])
  /\ UNCHANGED <<ktmbVars, queue, release, orphaned, slot>>

\* Draining is over, for whatever reason: the slots start probing, unless
\* the Job found no session in the cache, and ends.
Probing == [NoJob EXCEPT !.pc = "probe"]

StartSlots(j) ==
  \/ slot' = [slot EXCEPT ![j] = [s \in Slots |-> [SlotDone EXCEPT !.pc = "probe"]]]
  \/ slot' = [slot EXCEPT ![j] = [s \in Slots |-> SlotDone]]

Newest == SubSeq(release, 1, IF Len(release) < DrainLimit THEN Len(release) ELSE DrainLimit)

\* LRANGE 0 limit-1, or its failure.
ListReleases(j) ==
  /\ job[j].pc = "start"
  /\ \/ /\ SetJob(j, [job[j] EXCEPT !.pc = "drain", !.todo = Newest])
        /\ UNCHANGED slot
     \/ SetJob(j, Probing) /\ StartSlots(j)
  /\ UNCHANGED <<ktmbVars, queue, release, orphaned>>

\* Mutant: an entry that stays pending ends the draining.
DrainUpToPending(j, answer) ==
  /\ job[j].pc = "drain" /\ job[j].todo # <<>> /\ Head(job[j].todo) \notin Unreadable
  /\ CancelCall(Head(job[j].todo), answer)
  /\ IF answer \in {"confirmed", "terminal"} THEN SetJob(j, [job[j] EXCEPT !.pc = "remove"]) /\ UNCHANGED slot
     ELSE SetJob(j, Probing) /\ StartSlots(j)
  /\ UNCHANGED <<queue, release, orphaned>>

\* The next entry is tried; one that stays pending is skipped.
DrainCancel(j, answer) ==
  /\ job[j].pc = "drain" /\ job[j].todo # <<>> /\ Head(job[j].todo) \notin Unreadable
  /\ CancelCall(Head(job[j].todo), answer)
  /\ \/ answer \in {"confirmed", "terminal"} /\ SetJob(j, [job[j] EXCEPT !.pc = "remove"]) /\ UNCHANGED slot
     \/ answer = "session" /\ SetJob(j, Probing) /\ StartSlots(j)
     \/ answer = "error" /\ SetJob(j, [job[j] EXCEPT !.todo = Tail(@)]) /\ UNCHANGED slot
  /\ UNCHANGED <<queue, release, orphaned>>

\* An entry that cannot be decrypted is dropped, and logged as an error.
DrainUnreadable(j) ==
  /\ job[j].pc = "drain" /\ job[j].todo # <<>> /\ Head(job[j].todo) \in Unreadable
  /\ orphaned' = orphaned \union {Head(job[j].todo)}
  /\ SetJob(j, [job[j] EXCEPT !.pc = "remove"])
  /\ UNCHANGED <<ktmbVars, queue, release, slot>>

\* Mutant: the entry is popped, though another Job may have pushed one.
DrainPop(j) ==
  /\ job[j].pc = "remove" /\ release # <<>>
  /\ release' = Tail(release)
  /\ SetJob(j, [job[j] EXCEPT !.pc = "drain", !.todo = Tail(@)])
  /\ UNCHANGED <<ktmbVars, queue, orphaned, slot>>

\* LREM 1; when it fails, draining ends with the error.
DrainRemove(j) ==
  /\ job[j].pc = "remove"
  /\ \/ /\ release' = RemoveFirst(release, Head(job[j].todo))
        /\ SetJob(j, [job[j] EXCEPT !.pc = "drain", !.todo = Tail(@)])
        /\ UNCHANGED slot
     \/ SetJob(j, Probing) /\ StartSlots(j) /\ UNCHANGED release
  /\ UNCHANGED <<ktmbVars, queue, orphaned>>

\* Nothing left of the batch, or the budget of 5 s is used up.
DrainEnd(j) ==
  /\ job[j].pc = "drain"
  /\ SetJob(j, Probing) /\ StartSlots(j)
  /\ UNCHANGED <<ktmbVars, queue, release, orphaned>>

DrainStep(j) ==
  \/ ListReleases(j)
  \/ \E answer \in {"confirmed", "terminal", "session", "error"} : DrainCancel(j, answer)
  \/ DrainUnreadable(j)
  \/ DrainRemove(j)
  \/ DrainEnd(j)

-----------------------------------------------------------------------------
(* probeSlot: the loop of one slot.                                        *)

InSlot(j, s, at) == job[j].pc = "probe" /\ slot[j][s].pc = at

\* The deadline, the maintenance hours up to it, a slot that cannot be
\* seeded, a sibling's dead session, or nothing more to acquire.
StopSlot(j, s) ==
  /\ InSlot(j, s, "probe")
  /\ SlotTo(j, s, "done")
  /\ UNCHANGED <<ktmbVars, queue, release, orphaned, job>>

SendReserve(j, s) ==
  /\ InSlot(j, s, "probe")
  /\ slot[j][s].got < Needed /\ ~job[j].cancelled
  /\ SlotTo(j, s, "sent")
  /\ UNCHANGED <<ktmbVars, queue, release, orphaned, job>>

\* Status true: KTMB holds a seat for us, and we know which.
Acquired(j, s, h) ==
  /\ InSlot(j, s, "sent") /\ ~job[j].cancelled
  /\ Acquire(h)
  /\ SetSlot(j, s, [slot[j][s] EXCEPT !.pc = "accept", !.hold = h, !.got = @ + 1])
  /\ UNCHANGED <<queue, release, orphaned, job>>

\* Mutant: one error more than the limit.
ErredOnceMore(j, s) ==
  LET n == slot[j][s].errors + 1 IN
  SetSlot(j, s, [slot[j][s] EXCEPT !.errors = n,
                   !.pc = IF n > ErrorLimit \/ job[j].cancelled THEN "done" ELSE "probe"])

\* Unclassified: back off and try again, up to the limit.
Erred(j, s) ==
  LET n == slot[j][s].errors + 1 IN
  SetSlot(j, s, [slot[j][s] EXCEPT !.errors = n,
                   !.pc = IF n >= ErrorLimit \/ job[j].cancelled THEN "done" ELSE "probe"])

(* KTMB holds a seat but the answer is lost on the way, times out, is cut  *)
(* off by a sibling cancelling the epoch, or lacks its bookingData.        *)
AcquiredUnseen(j, s, h) ==
  /\ InSlot(j, s, "sent") /\ LostReplies
  /\ Acquire(h)
  /\ orphaned' = orphaned \union {h}
  /\ Erred(j, s) \/ SlotTo(j, s, "done")
  /\ UNCHANGED <<queue, release, job>>

\* markSessionDead: the epoch is over for all slots of the Job.
SessionDead(j, s) ==
  /\ InSlot(j, s, "sent")
  /\ SlotTo(j, s, "done")
  /\ SetJob(j, [job[j] EXCEPT !.cancelled = TRUE])
  /\ UNCHANGED <<ktmbVars, queue, release, orphaned>>

\* Stale search data is refreshed once.
StaleData(j, s) ==
  /\ InSlot(j, s, "sent")
  /\ \/ ~slot[j][s].refreshed /\ SetSlot(j, s, [slot[j][s] EXCEPT !.refreshed = TRUE, !.pc = "probe"])
     \/ SlotTo(j, s, "done")
  /\ UNCHANGED <<ktmbVars, queue, release, orphaned, job>>

\* Sold out or rate limited: just ask again; or an unclassified answer.
TryAgain(j, s) ==
  /\ InSlot(j, s, "sent")
  /\ SlotTo(j, s, IF job[j].cancelled THEN "done" ELSE "probe") \/ Erred(j, s)
  /\ UNCHANGED <<ktmbVars, queue, release, orphaned, job>>

-----------------------------------------------------------------------------
(* acceptHold and compensateHold.                                          *)

Hold(j, s) == slot[j][s].hold

\* Mutant: the hold is cancelled although the buyers have it.
EnqueueThenCancel(j, s) ==
  /\ InSlot(j, s, "accept")
  /\ queue' = queue \union {Hold(j, s)} \/ UNCHANGED queue
  /\ SlotTo(j, s, "cancel")
  /\ UNCHANGED <<ktmbVars, release, orphaned, job>>

\* The LPUSH onto the reserver queue; not for a dry run, not for a hold that
\* cannot be encrypted, and not once a sibling has cancelled the epoch.
Enqueue(j, s) ==
  /\ InSlot(j, s, "accept")
  /\ \/ /\ j \notin DryJobs /\ ~job[j].cancelled
        /\ queue' = queue \union {Hold(j, s)}
        /\ SetSlot(j, s, [slot[j][s] EXCEPT !.pc = "probe", !.hold = NoHold, !.errors = 0])
     \/ UNCHANGED queue /\ SlotTo(j, s, "cancel")
     \/ /\ j \notin DryJobs /\ ~job[j].cancelled /\ LostReplies
        /\ queue' = queue \union {Hold(j, s)}
        /\ SlotTo(j, s, "cancel")
  /\ UNCHANGED <<ktmbVars, release, orphaned, job>>

\* Mutant: an answer without error is taken for a confirmation.
CancelHoldUnchecked(j, s, answer) ==
  /\ InSlot(j, s, "cancel")
  /\ CancelCall(Hold(j, s), answer)
  /\ IF answer = "error"
       THEN SlotTo(j, s, "persist")
       ELSE SetSlot(j, s, [slot[j][s] EXCEPT !.pc = "done", !.hold = NoHold])
  /\ UNCHANGED <<queue, release, orphaned, job>>

(* Cancel at once.  Confirmed, a dry run goes on, a failed delivery ends   *)
(* the slot; anything else leaves the hold to the release list.            *)
CancelHold(j, s, answer) ==
  /\ InSlot(j, s, "cancel")
  /\ CancelCall(Hold(j, s), answer)
  /\ IF answer = "confirmed"
       THEN IF j \in DryJobs THEN SetSlot(j, s, [slot[j][s] EXCEPT !.pc = "probe", !.hold = NoHold, !.errors = 0])
                      ELSE SetSlot(j, s, [slot[j][s] EXCEPT !.pc = "done", !.hold = NoHold])
       ELSE SlotTo(j, s, "persist")
  /\ UNCHANGED <<queue, release, orphaned, job>>

\* Mutant: the slot goes on after a hold it could not release.
PersistAndGoOn(j, s) ==
  /\ InSlot(j, s, "persist")
  /\ release' = <<Hold(j, s)>> \o release /\ UNCHANGED orphaned
  /\ SetSlot(j, s, [slot[j][s] EXCEPT !.pc = "probe", !.hold = NoHold, !.failed = @ + 1])
  /\ UNCHANGED <<ktmbVars, queue, job>>

\* The LPUSH onto the release list, or its failure, which is only logged;
\* either way the hold is tallied as not released and the slot ends.
Persist(j, s) ==
  /\ InSlot(j, s, "persist")
  /\ \/ release' = <<Hold(j, s)>> \o release /\ UNCHANGED orphaned
     \/ /\ UNCHANGED release \/ (LostReplies /\ release' = <<Hold(j, s)>> \o release)
        /\ orphaned' = orphaned \union {Hold(j, s)}
  /\ SetSlot(j, s, [slot[j][s] EXCEPT !.pc = "done", !.hold = NoHold, !.failed = @ + 1])
  /\ UNCHANGED <<ktmbVars, queue, job>>

SlotStep(j, s) ==
  \/ StopSlot(j, s) \/ SendReserve(j, s)
  \/ (\E h \in Holds : Acquired(j, s, h) \/ AcquiredUnseen(j, s, h))
  \/ SessionDead(j, s) \/ StaleData(j, s) \/ TryAgain(j, s)
  \/ Enqueue(j, s)
  \/ (\E answer \in {"confirmed", "terminal", "session", "error"} : CancelHold(j, s, answer))
  \/ Persist(j, s)

\* Every slot is done: the tally is written and the Job exits.
EndJob(j) ==
  /\ job[j].pc = "probe" /\ \A s \in Slots : slot[j][s].pc = "done"
  /\ SetJob(j, NoJob)
  /\ UNCHANGED <<ktmbVars, queue, release, orphaned, slot>>

\* The pod is killed, at its active deadline or otherwise.
KillJob(j) ==
  /\ job[j].pc # "none"
  /\ SetJob(j, NoJob)
  /\ orphaned' = orphaned \union ({Hold(j, s) : s \in Slots} \ {NoHold})
  /\ slot' = [slot EXCEPT ![j] = [s \in Slots |-> SlotDone]]
  /\ UNCHANGED <<ktmbVars, queue, release>>

-----------------------------------------------------------------------------
(* The buyers, as far as holds go (lib/buyer/client.go).                   *)

\* Paid for, or released because zinc has no booking that wants it.
Use(h) ==
  /\ h \in queue \cap held
  /\ Over(h)
  /\ UNCHANGED <<queue, release, orphaned, job, slot>>

-----------------------------------------------------------------------------

JobStep(j) == DrainStep(j) \/ (\E s \in Slots : SlotStep(j, s)) \/ EndJob(j)

Next ==
  \/ \E j \in Jobs : StartJob(j) \/ JobStep(j) \/ KillJob(j)
  \/ \E h \in Holds : Expire(h) \/ Use(h)

Spec == Init /\ [][Next]_vars

(* The spawner starts Jobs tick after tick, a Job goes on, and its slots   *)
(* stop at the deadline.  Redis and KTMB answer again and again, so that   *)
(* the calls of draining cannot fail each time.                            *)
Fairness == \A j \in Jobs :
  /\ WF_vars(StartJob(j)) /\ WF_vars(JobStep(j))
  /\ \A s \in Slots : SF_vars(StopSlot(j, s))
  /\ SF_vars(ListReleases(j) /\ job'[j].pc = "drain")
  /\ \A answer \in {"confirmed", "terminal", "error"} : SF_vars(DrainCancel(j, answer))
  /\ SF_vars(DrainUnreadable(j))
  /\ SF_vars(DrainRemove(j) /\ job'[j].pc = "drain")

FairSpec == Spec /\ Fairness

TypeOK ==
  /\ held \subseteq Holds /\ cancelled \subseteq Holds /\ over \subseteq Holds
  /\ queue \subseteq Holds /\ orphaned \subseteq Holds
  /\ release \in Seq(Holds)
  /\ job \in [Jobs -> JobState]
  /\ slot \in [Jobs -> [Slots -> SlotState]]

-----------------------------------------------------------------------------

(* No hold is forgotten: one that still exists at KTMB is being handled by *)
(* a slot, waits for a buyer or in the release list, or was given up with  *)
(* an error in the log; but for those no Job heard of or died with.        *)
NoHoldForgotten ==
  held \subseteq InHand \union queue \union Released \union orphaned

(* A slot that could neither deliver nor release a hold stops, "rather     *)
(* than risk accumulating orphan holds" (runner.go).                       *)
OneOrphanPerSlot == \A j \in Jobs, s \in Slots : slot[j][s].failed <= 1

(* The probers keep custody of a hold as the abstract specification says:  *)
(* delivered or released but, unless a reply was lost, never both; and no  *)
(* record leaves the release list while KTMB has the hold, although the    *)
(* Jobs of overlapping epochs cancel and remove the same entries.          *)
Owners(h) ==
  (IF h \in InHand THEN {"slot"} ELSE {})
    \union (IF h \in queue THEN {"buyers"} ELSE {})
    \union (IF h \in Released THEN {"backlog"} ELSE {})
    \union (IF h \in orphaned THEN {"nobody"} ELSE {})

Abstract == INSTANCE Custody WITH open <- held, Doubt <- LostReplies,
                                  owners <- [h \in Holds |-> Owners(h)]

ImplementsCustody == Abstract!Spec

(* A recorded release is worked off by the Jobs that follow, whatever ends *)
(* their draining early, and also behind entries KTMB keeps refusing.      *)
ReleasesWorkedOff == \A h \in Holds \ Stubborn : h \in Released ~> h \notin Released
=============================================================================
