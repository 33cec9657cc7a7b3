------------------------------ MODULE Reserver ------------------------------
(***************************************************************************)
(* The reserver (lib/reserver): the count syncer hands each new demand to  *)
(* the reserver loop and then to the differ, over unbuffered channels; the *)
(* differ's subscription turns the seats the pollers publish into diffs    *)
(* against what it published before; the loop starts reservations for a    *)
(* diff, priced against the demand it knows.                               *)
(***************************************************************************)
EXTENDS Demand, Sequences

CONSTANTS
  Lines,      \* slots of one direction and date, the pollers' channels
  MaxSeats,   \* bound: free seats of a departure
  MaxInbox    \* messages go-redis buffers for a subscription

ASSUME ReserverAssumption ==
  /\ UNION Lines \subseteq Slots
  /\ MaxSeats \in Nat /\ MaxInbox \in Nat \ {0}

VARIABLES
  seats,     \* KTMB: free seats
  syncer,    \* the count syncer
  differ,    \* the differ between two subscriptions
  sub,       \* the subscription goroutine: its demand, and the diffs it sends
  inbox,     \* messages of the subscription not handled yet
  prev,      \* the seats the differ believes the reserver has heard of
  client,    \* the reserver loop, and the demand it knows
  deferred,  \* slots with a reservation put off for want of trip data
  recent,    \* slots with a diff in the last 600 ms
  rise,      \* history: was the last rise of a slot's demand met, is it owed, or dropped?
  told       \* the seats of the last diff of a slot the loop took

reserverVars == <<seats, syncer, differ, sub, inbox, prev, client, deferred, recent, rise, told>>
vars == <<demandVars, reserverVars>>

Seats == 0..MaxSeats
Diff == [slot : Slots, count : Seats, delta : -MaxSeats..MaxSeats]
Message == UNION {[line -> Seats] : line \in Lines}

SyncerState == [pc : {"read", "wait", "toReserver", "toDiffer"}, count : Demands]
DifferState == [pc : {"first", "wait", "term"}, count : Demands]
SubState == [on : BOOLEAN, relevant : Demands, out : SUBSET Diff]
ClientState == [pc : {"login", "count", "run"}, cache : Demands]
Rise == {"met", "owed", "dropped"}

\* A process that has just started.
SyncerStart == [pc |-> "read", count |-> Nothing]
DifferStart == [pc |-> "first", count |-> Nothing]
SubOff == [on |-> FALSE, relevant |-> Nothing, out |-> {}]
ClientStart == [pc |-> "login", cache |-> Nothing]
NoRise == [s \in Slots |-> "met"]

Init ==
  /\ DemandInit
  /\ seats = Nothing
  /\ syncer = SyncerStart /\ differ = DifferStart /\ sub = SubOff
  /\ inbox = <<>> /\ prev = Nothing
  /\ client = ClientStart /\ deferred = {} /\ recent = {}
  /\ rise = NoRise /\ told = Nothing

Min2(a, b) == IF a < b THEN a ELSE b

-----------------------------------------------------------------------------
(* CountSyncer.                                                            *)

\* update: at the start, and for every ping.  Without the key, and when
\* Redis fails, which getCount reports as no key, there is nothing to send.
ReadDemand ==
  /\ \/ syncer.pc = "read" /\ UNCHANGED pings
     \/ syncer.pc = "wait" /\ pings > 0 /\ pings' = pings - 1
  /\ \/ /\ stored # NoCount
        /\ syncer' = [pc |-> "toReserver", count |-> ReserverCount]
        /\ UNCHANGED <<missed, faults>>
     \/ /\ stored = NoCount
        /\ syncer' = [syncer EXCEPT !.pc = "wait"] /\ UNCHANGED <<missed, faults>>
     \/ Miss /\ syncer' = [syncer EXCEPT !.pc = "wait"]
  /\ UNCHANGED <<need, changes, closed, signals, cdc, stored>>
  /\ UNCHANGED <<seats, differ, sub, inbox, prev, client, deferred, recent, rise, told>>

\* Mutant: the loop is not waited for while it has no login.
GiveReserverIfReady ==
  /\ syncer.pc = "toReserver"
  /\ client' = IF client.pc = "login" THEN client ELSE [pc |-> "run", cache |-> syncer.count]
  /\ syncer' = [syncer EXCEPT !.pc = "toDiffer"]
  /\ UNCHANGED <<demandVars, seats, differ, sub, inbox, prev, deferred, recent, rise, told>>

\* toReserver <- rCount, once the loop has its first login.
GiveReserver ==
  /\ syncer.pc = "toReserver" /\ client.pc \in {"count", "run"}
  /\ client' = [client EXCEPT !.pc = "run", !.cache = syncer.count]
  /\ syncer' = [syncer EXCEPT !.pc = "toDiffer"]
  /\ UNCHANGED <<demandVars, seats, differ, sub, inbox, prev, deferred, recent, rise, told>>

\* toDiffer <- dCount: the first demand starts the subscription, a later one
\* has to end the one there is.
GiveDiffer ==
  /\ syncer.pc = "toDiffer"
  /\ \/ /\ differ.pc = "first"
        /\ differ' = [differ EXCEPT !.pc = "wait"]
        /\ sub' = [SubOff EXCEPT !.on = TRUE, !.relevant = syncer.count]
     \/ /\ differ.pc = "wait"
        /\ differ' = [pc |-> "term", count |-> syncer.count]
        /\ UNCHANGED sub
  /\ syncer' = [pc |-> "wait", count |-> Nothing]
  /\ UNCHANGED <<demandVars, seats, inbox, prev, client, deferred, recent, rise, told>>

-----------------------------------------------------------------------------
(* Differ.                                                                 *)

Rearmed == {s \in Slots : differ.count[s] > sub.relevant[s]}

\* A rise is owed reservations, until the slot needs none any more.
Risen == [s \in Slots |-> IF s \in Rearmed THEN "owed"
                          ELSE IF differ.count[s] = 0 THEN "met" ELSE rise[s]]

\* Mutant: a rise in demand re-arms nothing.
RestartSubPlain ==
  /\ differ.pc = "term" /\ sub.on /\ sub.out = {}
  /\ rise' = Risen
  /\ sub' = [SubOff EXCEPT !.on = TRUE, !.relevant = differ.count]
  /\ inbox' = <<>>
  /\ differ' = [pc |-> "wait", count |-> Nothing]
  /\ UNCHANGED <<demandVars, seats, syncer, prev, client, deferred, recent, told>>

\* Mutant: the signal is taken between two diffs of a message.
RestartSubAtOnce ==
  /\ differ.pc = "term" /\ sub.on
  /\ prev' = [s \in Slots |-> IF s \in Rearmed THEN 0 ELSE prev[s]]
  /\ rise' = Risen
  /\ sub' = [SubOff EXCEPT !.on = TRUE, !.relevant = differ.count]
  /\ inbox' = <<>>
  /\ differ' = [pc |-> "wait", count |-> Nothing]
  /\ UNCHANGED <<demandVars, seats, syncer, client, deferred, recent, told>>

\* term <- false, <-done, rearm, and a subscription for the new demand: the
\* goroutine takes the signal between two messages; those it has not handled
\* are lost with its subscription.
RestartSub ==
  /\ differ.pc = "term" /\ sub.on /\ sub.out = {}
  /\ prev' = [s \in Slots |-> IF s \in Rearmed THEN 0 ELSE prev[s]]
  /\ rise' = Risen
  /\ sub' = [SubOff EXCEPT !.on = TRUE, !.relevant = differ.count]
  /\ inbox' = <<>>
  /\ differ' = [pc |-> "wait", count |-> Nothing]
  /\ UNCHANGED <<demandVars, seats, syncer, client, deferred, recent, told>>

\* A poller publishes the seats of a line; whoever is not subscribed to it,
\* or has a full buffer, misses them.
Poll(line) ==
  /\ sub.on /\ \E s \in line : sub.relevant[s] > 0
  /\ Len(inbox) < MaxInbox
  /\ inbox' = Append(inbox, [s \in line |-> seats[s]])
  /\ UNCHANGED <<demandVars, seats, syncer, differ, sub, prev, client, deferred, recent, rise, told>>

\* The slots of a message somebody needs, the others are forgotten.
Wanted(message) == {s \in DOMAIN message : sub.relevant[s] > 0}

\* One message: filter, diff, and what to send.
HandleMessage ==
  /\ sub.on /\ sub.out = {} /\ inbox # <<>>
  /\ LET m == Head(inbox) IN
       /\ sub' = [sub EXCEPT !.out = {[slot |-> s, count |-> m[s], delta |-> m[s] - prev[s]] :
                                        s \in {w \in Wanted(m) : m[w] # prev[w]}}]
       /\ prev' = [s \in Slots |-> IF s \in Wanted(m) THEN m[s]
                                   ELSE IF s \in DOMAIN m THEN 0 ELSE prev[s]]
  /\ inbox' = Tail(inbox)
  /\ UNCHANGED <<demandVars, seats, syncer, differ, client, deferred, recent, rise, told>>

-----------------------------------------------------------------------------
(* The reserver loop.                                                      *)

\* Reservations to start for a diff, unless it comes too soon.
Wants(d) == IF d.count < 1 THEN 0 ELSE Min2(client.cache[d.slot], d.delta)
Buy(d) == IF d.slot \in recent THEN 0 ELSE Wants(d)

\* A diff for min(demand, seats) reservations meets a rise, if they are made.
Answered(d) ==
  IF d.count > 0 /\ Wants(d) = Min2(client.cache[d.slot], d.count)
    THEN IF d.slot \notin recent THEN "met"
         ELSE IF rise[d.slot] = "owed" THEN "dropped" ELSE rise[d.slot]
    ELSE rise[d.slot]

\* A diff is taken.  One within 600 ms of the last one of its slot is only
\* noted; a reservation whose trip data the login lacks is put off.
TakeDiff(d) ==
  /\ client.pc = "run" /\ d \in sub.out
  /\ sub' = [sub EXCEPT !.out = @ \ {d}]
  /\ recent' = recent \union {d.slot}
  /\ \/ UNCHANGED deferred
     \/ Buy(d) > 0 /\ deferred' = deferred \union {d.slot}
  /\ rise' = [rise EXCEPT ![d.slot] = Answered(d)]
  /\ told' = [told EXCEPT ![d.slot] = d.count]
  /\ UNCHANGED <<demandVars, seats, syncer, differ, inbox, prev, client>>

\* The login syncer brings a login: what was put off less than 5 minutes ago
\* is tried again, or put off again.
TakeLogin ==
  /\ client.pc \in {"login", "run"}
  /\ client' = [client EXCEPT !.pc = IF @ = "login" THEN "count" ELSE @]
  /\ deferred' \in SUBSET deferred
  /\ UNCHANGED <<demandVars, seats, syncer, differ, sub, inbox, prev, recent, rise, told>>

\* 600 ms pass.
Calm(s) ==
  /\ s \in recent
  /\ recent' = recent \ {s}
  /\ UNCHANGED <<demandVars, seats, syncer, differ, sub, inbox, prev, client, deferred, rise, told>>

-----------------------------------------------------------------------------

\* Seats are sold and given back.
ChangeSeats(s) ==
  /\ \E n \in Seats \ {seats[s]} : seats' = [seats EXCEPT ![s] = n]
  /\ UNCHANGED <<demandVars, syncer, differ, sub, inbox, prev, client, deferred, recent, rise, told>>

\* The process dies, and Kubernetes restarts it.
Crash ==
  /\ faults < MaxFaults /\ faults' = faults + 1
  /\ syncer' = SyncerStart /\ differ' = DifferStart /\ sub' = SubOff
  /\ inbox' = <<>> /\ prev' = Nothing
  /\ client' = ClientStart /\ deferred' = {} /\ recent' = {}
  /\ rise' = NoRise /\ told' = Nothing
  /\ UNCHANGED <<need, changes, closed, signals, cdc, stored, pings, missed, seats>>

SyncerStep == ReadDemand \/ GiveReserver \/ GiveDiffer
Take == \E d \in sub.out : TakeDiff(d)

Next ==
  \/ DemandStep /\ UNCHANGED reserverVars
  \/ SyncerStep
  \/ RestartSub
  \/ \E line \in Lines : Poll(line)
  \/ HandleMessage
  \/ Take
  \/ TakeLogin
  \/ \E s \in Slots : Calm(s) \/ ChangeSeats(s)
  \/ Crash

Spec == Init /\ [][Next]_vars

(* Goroutines and replicas keep running, pollers keep polling, a login     *)
(* comes.  A Go select that finds two channels ready takes each of them    *)
(* again and again, so neither a busy line nor the termination signal      *)
(* starves the other.  Time passes.                                        *)
Fairness ==
  /\ \A c \in Cdcs : WF_vars(CdcStep(c) /\ UNCHANGED reserverVars)
  /\ SF_vars(SyncerStep) /\ SF_vars(RestartSub)
  /\ \A line \in Lines : SF_vars(Poll(line))
  /\ SF_vars(HandleMessage) /\ SF_vars(Take)
  /\ WF_vars(client.pc = "login" /\ TakeLogin)
  /\ \A s \in Slots : WF_vars(Calm(s))

FairSpec == Spec /\ Fairness

TypeOK ==
  /\ DemandTypeOK
  /\ seats \in [Slots -> Seats]
  /\ syncer \in SyncerState /\ differ \in DifferState /\ sub \in SubState
  /\ inbox \in Seq(Message) /\ Len(inbox) <= MaxInbox
  /\ prev \in [Slots -> Seats] /\ told \in [Slots -> Seats]
  /\ client \in ClientState
  /\ deferred \subseteq Slots /\ recent \subseteq Slots /\ rise \in [Slots -> Rise]

-----------------------------------------------------------------------------

(* "The next diff must be priced against the NEW demand" (count_syncer.go):*)
(* while a subscription filters and diffs for some demand, the loop knows  *)
(* that demand, or the next one already, which the differ is yet to get.   *)
PricedWithNewDemand ==
  sub.on => \/ client.cache = sub.relevant
            \/ syncer.pc = "toDiffer" /\ client.cache = syncer.count
            \/ differ.pc = "term" /\ client.cache = differ.count

(* The differ reports changes only, so it must never believe the loop has  *)
(* heard of seats that it has not: what it remembers of a slot was in the  *)
(* last diff the loop took, or is in one it is sending, whatever swapping  *)
(* of subscriptions and re-arming went on.                                 *)
BeliefIsDelivered ==
  \A s \in Slots :
    \/ prev[s] = 0
    \/ told[s] = prev[s]
    \/ \E d \in sub.out : d.slot = s /\ d.count = prev[s]

\* For the departures that can still be reserved.
HeardOf == client.pc = "run" /\ \A s \in Slots \ closed : client.cache[s] = need[s]

(* The demand zinc settles on becomes the demand the loop prices with, over*)
(* CDC replicas, pings that are dropped or merged, and restarts; unless a  *)
(* failed call lost it or an older copy overwrote it, and no later signal  *)
(* came, which is what the code does not make up for.                      *)
DemandArrives == changes > 0 ~> missed \/ HeardOf

(* "The next poll for that slot diffs against zero and the reserver        *)
(* re-attempts min(demand, seats) reservations" (differ.go:69-72): after a *)
(* rise in demand they are started, whatever subscriptions, logins and     *)
(* crashes come in between; or the loop drops them, because the diff comes *)
(* within 600 ms of another one of the slot; or there are no seats.        *)
RiseIsAnswered == \A s \in Slots : rise[s] = "owed" ~> rise[s] # "owed" \/ seats[s] = 0

(* What the same comment says, that a slot need not wait for its seats to  *)
(* change once its demand has risen: what is dropped is made up for.       *)
RiseIsServed == \A s \in Slots : rise[s] # "met" ~> rise[s] = "met" \/ seats[s] = 0
=============================================================================
