----------------------------- MODULE Withdrawer -----------------------------
(***************************************************************************)
(* The withdrawer (lib/withdrawer): one loop that takes two cron ticks, an *)
(* approve sweep behind zinc's runtime switch and a reconcile sweep.  A    *)
(* sweep lists by pages of skip and limit while users, admins and the      *)
(* payment provider change what is listed, and posts one item at a time.   *)
(***************************************************************************)
EXTENDS Integers, Sequences, FiniteSets, SequencesExt

CONSTANTS
  Withdrawals,   \* numbered in the order zinc lists them
  Refused,       \* those zinc answers with an error, whatever is asked
  PageLimit,     \* withdrawer.limit
  MaxPages,      \* maxListPages
  MaxFlips,      \* bound: how often an admin flips the switch
  MaxOutages     \* bound: calls to zinc that fail

ASSUME WithdrawerAssumption ==
  /\ Withdrawals \subseteq Nat /\ IsFiniteSet(Withdrawals) /\ Refused \subseteq Withdrawals
  /\ {PageLimit, MaxPages} \subseteq Nat \ {0} /\ {MaxFlips, MaxOutages} \subseteq Nat

VARIABLES
  withdrawal,   \* zinc: the status of each
  switch,       \* zinc: sweepEnabled
  flips,        \* flips so far
  ticks,        \* cron ticks waiting, one of each kind at most
  sweep,        \* the loop
  outages       \* failed calls so far

withdrawerVars == <<withdrawal, switch, flips, ticks, sweep, outages>>

\* settled stands for Completed, Failed, Rejected, Cancelled and parked.
WithdrawalStatus == {"none", "Pending", "Processing", "settled"}

SweepIdle == [pc |-> "idle", page |-> 0, found |-> <<>>, allowed |-> FALSE]
SweepState == [pc : {"idle", "gate", "pending", "processing", "approve", "reconcilable", "reconcile"},
               page : 0..MaxPages - 1, found : Seq(Withdrawals), allowed : BOOLEAN]

WithdrawerInit ==
  /\ withdrawal = [w \in Withdrawals |-> "none"]
  /\ switch \in BOOLEAN /\ flips = 0
  /\ ticks = {} /\ sweep = SweepIdle /\ outages = 0

Outage == outages < MaxOutages /\ outages' = outages + 1

Becomes(w, status) == withdrawal' = [withdrawal EXCEPT ![w] = status]

-----------------------------------------------------------------------------
(* zinc, its users and admins, and the payment provider.                   *)

RequestWithdrawal(w) ==
  /\ withdrawal[w] = "none" /\ Becomes(w, "Pending")
  /\ UNCHANGED <<switch, flips, ticks, sweep, outages>>

\* Cancelled or rejected, or approved by an admin; the payout comes to an end.
Resolve(w) ==
  /\ \/ withdrawal[w] = "Pending" /\ (Becomes(w, "settled") \/ Becomes(w, "Processing"))
     \/ withdrawal[w] = "Processing" /\ Becomes(w, "settled")
  /\ UNCHANGED <<switch, flips, ticks, sweep, outages>>

FlipSwitch ==
  /\ flips < MaxFlips /\ flips' = flips + 1 /\ switch' = ~switch
  /\ UNCHANGED <<withdrawal, ticks, sweep, outages>>

\* A tick that finds its channel full is dropped.
Tick(kind) ==
  /\ ticks' = ticks \union {kind}
  /\ UNCHANGED <<withdrawal, switch, flips, sweep, outages>>

-----------------------------------------------------------------------------
(* The loop.                                                               *)

StartSweep(kind) ==
  /\ sweep.pc = "idle" /\ kind \in ticks
  /\ ticks' = ticks \ {kind}
  /\ sweep' = [sweep EXCEPT !.pc = IF kind = "approve" THEN "gate" ELSE "reconcilable"]
  /\ UNCHANGED <<withdrawal, switch, flips, outages>>

\* Mutant: settings that cannot be read count as enabled.
GateFailsOpen ==
  /\ sweep.pc = "gate"
  /\ \/ switch /\ sweep' = [sweep EXCEPT !.pc = "pending", !.allowed = TRUE] /\ UNCHANGED outages
     \/ ~switch /\ sweep' = SweepIdle /\ UNCHANGED outages
     \/ Outage /\ sweep' = [sweep EXCEPT !.pc = "pending", !.allowed = switch]
  /\ UNCHANGED <<withdrawal, switch, flips, ticks>>

\* The runtime switch is off or cannot be read (the static one is on).
Gate ==
  /\ sweep.pc = "gate"
  /\ \/ switch /\ sweep' = [sweep EXCEPT !.pc = "pending", !.allowed = TRUE] /\ UNCHANGED outages
     \/ ~switch /\ sweep' = SweepIdle /\ UNCHANGED outages
     \/ Outage /\ sweep' = SweepIdle
  /\ UNCHANGED <<withdrawal, switch, flips, ticks>>

Listing == [pending |-> "Pending", processing |-> "Processing", reconcilable |-> "Processing"]
AfterListing == [pending |-> "processing", processing |-> "approve", reconcilable |-> "reconcile"]

\* The page that starts after the items the earlier pages had.
PageOf(status, page) ==
  LET all == {w \in Withdrawals : withdrawal[w] = status}
  IN {w \in all : Cardinality({v \in all : v < w}) \in page * PageLimit..(page + 1) * PageLimit - 1}

\* dedupeById, keeping first occurrences: the others follow in zinc's order.
Added(found, items) ==
  {found \o new : new \in {s \in SetToSeqs(items \ Range(found)) :
                            \A i, j \in DOMAIN s : i < j => s[i] < s[j]}}

\* listByStatus: up to a short page, or to the cap; an error ends the sweep.
ListPage ==
  /\ sweep.pc \in DOMAIN Listing
  /\ \/ LET items == PageOf(Listing[sweep.pc], sweep.page)
            last == Cardinality(items) < PageLimit \/ sweep.page + 1 = MaxPages
        IN /\ \E found \in Added(sweep.found, items) :
                sweep' = [sweep EXCEPT !.found = found,
                                       !.page = IF last THEN 0 ELSE @ + 1,
                                       !.pc = IF last THEN AfterListing[@] ELSE @]
           /\ UNCHANGED outages
     \/ Outage /\ sweep' = SweepIdle
  /\ UNCHANGED <<withdrawal, switch, flips, ticks>>

\* zinc serves w: an approve requests the payout, again for one that is
\* Processing; a reconcile settles one whose payout has come to an end.  What
\* is in another state it refuses, benignly.
Approve(w) ==
  IF withdrawal[w] = "Pending" THEN Becomes(w, "Processing") ELSE UNCHANGED withdrawal

Reconcile(w) ==
  IF withdrawal[w] = "Processing" THEN Becomes(w, "settled") ELSE UNCHANGED withdrawal

Post(w) ==
  \/ /\ w \notin Refused /\ UNCHANGED outages
     /\ IF sweep.pc = "approve" THEN Approve(w) ELSE Reconcile(w)
  \/ w \in Refused /\ UNCHANGED <<withdrawal, outages>>
  \/ Outage /\ UNCHANGED withdrawal

AfterItem == IF Len(sweep.found) = 1 THEN SweepIdle ELSE [sweep EXCEPT !.found = Tail(@)]

Sweeping == sweep.pc \in {"approve", "reconcile"}

\* Mutant: a failed item ends the sweep.
PostItemOrAbort ==
  /\ Sweeping /\ sweep.found # <<>>
  /\ Post(Head(sweep.found))
  /\ sweep' = IF Head(sweep.found) \in Refused THEN SweepIdle ELSE AfterItem
  /\ UNCHANGED <<switch, flips, ticks>>

\* The next item; whatever zinc answers, the sweep goes on.
PostItem ==
  /\ Sweeping
  /\ \/ sweep.found = <<>> /\ sweep' = SweepIdle /\ UNCHANGED <<withdrawal, outages>>
     \/ sweep.found # <<>> /\ Post(Head(sweep.found)) /\ sweep' = AfterItem
  /\ UNCHANGED <<switch, flips, ticks>>

SweepStep == Gate \/ ListPage \/ PostItem \/ \E kind \in {"approve", "reconcile"} : StartSweep(kind)

WithdrawerNext ==
  \/ \E w \in Withdrawals : RequestWithdrawal(w) \/ Resolve(w)
  \/ FlipSwitch
  \/ \E kind \in {"approve", "reconcile"} : Tick(kind)
  \/ SweepStep

WithdrawerSpec == WithdrawerInit /\ [][WithdrawerNext]_withdrawerVars

WithdrawerTypeOK ==
  /\ withdrawal \in [Withdrawals -> WithdrawalStatus]
  /\ switch \in BOOLEAN /\ flips \in 0..MaxFlips
  /\ ticks \subseteq {"approve", "reconcile"}
  /\ sweep \in SweepState /\ outages \in 0..MaxOutages

-----------------------------------------------------------------------------

(* "Never sweep when the switch cannot be read" (client.go:118-124): money *)
(* leaves through a sweep only if zinc's switch was read, and on, for it.  *)
SweepsUnderSwitch ==
  [][\A w \in Withdrawals :
       withdrawal[w] = "Pending" /\ withdrawal'[w] = "Processing" /\ sweep' # sweep
         => sweep.allowed]_withdrawerVars

(* What paging over a changing list skips, and a failed call or item costs,*)
(* a later sweep makes up for: a withdrawal does not stay Pending while the*)
(* switch is on, nor Processing for ever, behind items zinc keeps refusing,*)
(* fewer than a sweep lists.                                               *)
WithdrawalsHandled ==
  \A w \in Withdrawals \ Refused :
    /\ []<>(withdrawal[w] # "Pending" \/ ~switch)
    /\ []<>(withdrawal[w] # "Processing")
=============================================================================
