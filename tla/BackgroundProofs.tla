-------------------------- MODULE BackgroundProofs --------------------------
(***************************************************************************)
(* The loops beside the purchase: what holds of each for any instance, and *)
(* that Background runs each of them as its own module says.               *)
(***************************************************************************)
EXTENDS Background, TicketScanProofs, FiniteSetTheorems, WellFoundedInduction, TLAPS

-----------------------------------------------------------------------------
(* Reservation: the replicas' channel.                                     *)

\* Who reserves has an attempt left.
RaceTypeInv ==
  /\ RaceTypeOK
  /\ \A r \in Replicas : replica[r].pc = "reserve" => replica[r].i < Attempts

Won == Cardinality(RacersAt({"won"}))
Reemitting == Cardinality(RacersAt({"reemit"}))

\* The winners' signals are in the channel or in the hands of a replica.
Conserved == term + Reemitting = Won

RaceInv == RaceTypeInv /\ Conserved

\* The replicas at some point of the code are finitely many.
LEMMA RacersFinite ==
  ASSUME NEW pcs
  PROVE  IsFiniteSet(RacersAt(pcs)) /\ Cardinality(RacersAt(pcs)) \in Nat
<1>1. RacersAt(pcs) \in SUBSET Replicas
  BY DEF RacersAt
<1> QED
  BY <1>1, ReservationAssumption, FS_Subset, FS_CardinalityType

\* A replica that goes from one point to another changes the counts of both.
LEMMA RacersMove ==
  ASSUME NEW r \in Replicas, NEW at, NEW new, RaceTypeOK, replica' = [replica EXCEPT ![r] = new]
  PROVE  /\ replica[r].pc # at /\ new.pc = at =>
              Cardinality(RacersAt({at}))' = Cardinality(RacersAt({at})) + 1
         /\ replica[r].pc = at /\ new.pc # at =>
              Cardinality(RacersAt({at}))' = Cardinality(RacersAt({at})) - 1
         /\ replica[r].pc # at /\ new.pc # at =>
              Cardinality(RacersAt({at}))' = Cardinality(RacersAt({at}))
<1>1. IsFiniteSet(RacersAt({at}))
  BY RacersFinite
<1>2. CASE replica[r].pc # at /\ new.pc = at
  <2>1. r \notin RacersAt({at}) /\ RacersAt({at})' = RacersAt({at}) \union {r}
    BY <1>2 DEF RacersAt, RaceTypeOK
  <2> QED
    BY <1>1, <1>2, <2>1, FS_AddElement
<1>3. CASE replica[r].pc = at /\ new.pc # at
  <2>1. r \in RacersAt({at}) /\ RacersAt({at})' = RacersAt({at}) \ {r}
    BY <1>3 DEF RacersAt, RaceTypeOK
  <2> QED
    BY <1>1, <1>3, <2>1, FS_RemoveElement
<1>4. CASE replica[r].pc # at /\ new.pc # at
  <2>1. RacersAt({at})' = RacersAt({at})
    BY <1>4 DEF RacersAt, RaceTypeOK
  <2> QED
    BY <1>4, <2>1
<1> QED
  BY <1>2, <1>3, <1>4

-----------------------------------------------------------------------------
(* The invariant.                                                          *)

LEMMA RaceInitInv == RaceInit => RaceInv
<1> SUFFICES ASSUME RaceInit PROVE RaceInv
  OBVIOUS
<1>1. RaceTypeInv
  BY ReservationAssumption DEF RaceInit, RaceTypeInv, RaceTypeOK, ReplicaState, RacePc
<1>2. RacersAt({"won"}) = {} /\ RacersAt({"reemit"}) = {}
  BY DEF RaceInit, RacersAt
<1>3. Conserved
  BY <1>2, FS_EmptySet DEF RaceInit, Conserved, Won, Reemitting
<1> QED
  BY <1>1, <1>3 DEF RaceInv

(* A step moves one replica, and the signal it puts in or takes.           *)
Counted == {"won", "reemit"}
Moves(r, new) ==
  /\ replica' = [replica EXCEPT ![r] = new]
  /\ new \in ReplicaState /\ (new.pc = "reserve" => new.i < Attempts)
  /\ \/ replica[r].pc \notin Counted /\ new.pc \notin Counted /\ term' = term
     \/ replica[r].pc \notin Counted /\ new.pc = "reemit" /\ term > 0 /\ term' = term - 1
     \/ replica[r].pc \notin Counted /\ new.pc = "won" /\ term' = term + 1
     \/ replica[r].pc = "reemit" /\ new.pc \notin Counted /\ term' = term + 1

LEMMA RaceStepMoves ==
  ASSUME NEW r \in Replicas, ReplicaStep(r), RaceTypeInv
  PROVE  \E new : Moves(r, new)
<1> DEFINE To(at) == [replica[r] EXCEPT !.pc = at]
<1> USE DEF AtRace, Counted
<1>0. /\ replica \in [Replicas -> ReplicaState] /\ replica[r] \in ReplicaState
      /\ replica[r].pc = "reserve" => replica[r].i < Attempts
  BY DEF RaceTypeInv, RaceTypeOK
<1>1. ASSUME NEW at \in RacePc, EnterRace(r, at)
      PROVE  /\ replica' = [replica EXCEPT ![r] = To(at)] /\ To(at) \in ReplicaState
             /\ To(at).pc = at /\ To(at).i = replica[r].i
  BY <1>0, <1>1 DEF ReplicaState, EnterRace
<1>2. CASE BlockIfMaintenance(r)
  <2>1. CASE EnterRace(r, "select")
    <3>1. Moves(r, To("select"))
      BY <1>1, <1>2, <2>1 DEF Moves, BlockIfMaintenance, RacePc
    <3> QED
      BY <3>1
  <2>2. CASE EnterRace(r, "failed")
    <3>1. Moves(r, To("failed"))
      BY <1>1, <1>2, <2>2 DEF Moves, BlockIfMaintenance, RacePc
    <3> QED
      BY <3>1
  <2> QED
    BY <1>2, <2>1, <2>2 DEF BlockIfMaintenance
<1>3. CASE SeeTerm(r)
  <2>1. Moves(r, To("reemit"))
    BY <1>1, <1>3 DEF Moves, SeeTerm, RacePc
  <2> QED
    BY <2>1
<1>4. CASE SeeNoTerm(r)
  <2>1. Moves(r, To("reserve"))
    BY <1>1, <1>4 DEF Moves, SeeNoTerm, RacePc
  <2> QED
    BY <2>1
<1>5. CASE GiveUp(r)
  <2>1. Moves(r, To("failed"))
    BY <1>1, <1>5 DEF Moves, GiveUp, RacePc
  <2> QED
    BY <2>1
<1>6. CASE Reserve(r)
  <2>1. CASE EnterRace(r, "emit")
    <3>1. Moves(r, To("emit"))
      BY <1>1, <1>6, <2>1 DEF Moves, Reserve, RacePc
    <3> QED
      BY <3>1
  <2>2. CASE NextAttempt(r)
    <3> DEFINE new == [pc |-> "select", i |-> replica[r].i + 1]
    <3>1. new \in ReplicaState
      BY <1>0, <1>6, ReservationAssumption DEF Reserve, ReplicaState, RacePc
    <3>2. Moves(r, new)
      BY <1>6, <2>2, <3>1 DEF Moves, Reserve, NextAttempt
    <3> QED
      BY <3>2
  <2> QED
    BY <1>6, <2>1, <2>2 DEF Reserve
<1>7. CASE Emit(r)
  <2>1. Moves(r, To("won"))
    BY <1>1, <1>7 DEF Moves, Emit, RacePc
  <2> QED
    BY <2>1
<1>8. CASE Reemit(r)
  <2>1. Moves(r, To("stopped"))
    BY <1>1, <1>8 DEF Moves, Reemit, RacePc
  <2> QED
    BY <2>1
<1> QED
  BY <1>2, <1>3, <1>4, <1>5, <1>6, <1>7, <1>8 DEF ReplicaStep

LEMMA RaceInvStep == RaceInv /\ [RaceNext]_raceVars => RaceInv'
<1> SUFFICES ASSUME RaceInv, [RaceNext]_raceVars PROVE RaceInv'
  OBVIOUS
<1>1. CASE UNCHANGED raceVars
  BY <1>1 DEF raceVars, RaceInv, RaceTypeInv, RaceTypeOK, Conserved, Won, Reemitting, RacersAt
<1>2. ASSUME NEW r \in Replicas, ReplicaStep(r) PROVE RaceInv'
  <2>0. RaceTypeInv /\ RaceTypeOK /\ Conserved
    BY DEF RaceInv, RaceTypeInv
  <2>1. PICK new : Moves(r, new)
    BY <1>2, <2>0, RaceStepMoves
  <2>2. RaceTypeInv'
    BY <2>0, <2>1 DEF Moves, RaceTypeInv, RaceTypeOK
  <2>3. Won \in Nat /\ Reemitting \in Nat /\ term \in Nat
    BY <2>0, RacersFinite DEF Won, Reemitting, RaceTypeOK
  <2>4. /\ replica[r].pc # "won" /\ new.pc = "won" => Won' = Won + 1
        /\ replica[r].pc # "won" /\ new.pc # "won" => Won' = Won
        /\ replica[r].pc # "reemit" /\ new.pc = "reemit" => Reemitting' = Reemitting + 1
        /\ replica[r].pc = "reemit" /\ new.pc # "reemit" => Reemitting' = Reemitting - 1
        /\ replica[r].pc # "reemit" /\ new.pc # "reemit" => Reemitting' = Reemitting
    BY <2>0, <2>1, RacersMove DEF Moves, Won, Reemitting
  <2>5. Conserved'
    BY <2>0, <2>1, <2>3, <2>4 DEF Conserved, Moves, Counted
  <2> QED
    BY <2>2, <2>5 DEF RaceInv
<1> QED
  BY <1>1, <1>2 DEF RaceNext

LEMMA RaceInvariant == RaceSpec => []RaceInv
<1> QED
  BY RaceInitInv, RaceInvStep, PTL DEF RaceSpec

-----------------------------------------------------------------------------
(* What follows.                                                           *)

LEMMA RaceInvNeverBlocked == RaceInv => NeverBlocked
<1> SUFFICES ASSUME RaceInv, NEW r \in RacersAt({"emit", "reemit"})
             PROVE  term < Cardinality(Replicas)
  BY DEF NeverBlocked
<1>1. r \in Replicas /\ r \notin RacersAt({"won"})
  BY DEF RacersAt
<1>2. RacersAt({"won"}) \in SUBSET Replicas /\ RacersAt({"won"}) # Replicas
  BY <1>1 DEF RacersAt
<1>3. Won < Cardinality(Replicas)
  BY <1>2, ReservationAssumption, FS_Subset, FS_CardinalityType DEF Won
<1>4. Won \in Nat /\ Reemitting \in Nat /\ term \in Nat /\ Cardinality(Replicas) \in Nat
  BY RacersFinite, ReservationAssumption, FS_CardinalityType
     DEF Won, Reemitting, RaceInv, RaceTypeInv, RaceTypeOK
<1> QED
  BY <1>3, <1>4 DEF RaceInv, Conserved

LEMMA RaceInvSignalKept == RaceInv => SignalKept
<1> SUFFICES ASSUME RaceInv, RacersAt({"won"}) # {}, RacersAt({"reemit"}) = {}
             PROVE  term > 0
  BY DEF SignalKept
<1>1. Won \in Nat /\ Won # 0
  BY RacersFinite, FS_EmptySet DEF Won
<1>2. Reemitting = 0
  BY FS_EmptySet DEF Reemitting
<1> QED
  BY <1>1, <1>2 DEF RaceInv, Conserved, RaceTypeInv, RaceTypeOK

(* The states of a reservation are those the code has, for any replicas.   *)
THEOREM RaceTypeCorrect == RaceSpec => []RaceTypeOK
<1> QED
  BY RaceInvariant, PTL DEF RaceInv, RaceTypeInv

(* However many replicas run, a channel as large as their number is large  *)
(* enough: no winner and no replica that is stopped blocks on it.          *)
THEOREM ReplicasNeverBlock == RaceSpec => []NeverBlocked
<1> QED
  BY RaceInvariant, RaceInvNeverBlocked, PTL

(* However many replicas run and in whatever order they take the signal    *)
(* and put it back, once one has won the signal stays for the others.      *)
THEOREM WinnersSignalKept == RaceSpec => []SignalKept
<1> QED
  BY RaceInvariant, RaceInvSignalKept, PTL

-----------------------------------------------------------------------------
(* Repair: what parks a booking.                                           *)

LEMMA OnlyForCause ==
  ASSUME ParkedForCause, NEW b, Park(b), b \in Unnumbered \union Unknown
  PROVE  ParkedForCause'
BY DEF ParkedForCause, Park

\* KTMB rejects a ticket in the words that park it only if it does not know it.
LEMMA RejectionIsKnown ==
  ASSUME NEW b, NEW answer \in Answers(b), MatchesNotFound(answer)
  PROVE  b \in Unknown
<1> SUFFICES ASSUME b \notin Unknown PROVE FALSE
  OBVIOUS
<1>1. answer \in Answer \ [status : {"rejected"}, says : {TRUE}]
  BY DEF Answers
<1>2. answer.status = "rejected" /\ answer.says
  BY DEF MatchesNotFound
<1>3. answer.says = TRUE
  BY <1>1, <1>2 DEF Answer
<1>4. answer = [status |-> answer.status, says |-> answer.says]
  BY <1>1 DEF Answer
<1>5. answer \in [status : {"rejected"}, says : {TRUE}]
  BY <1>2, <1>3, <1>4
<1> QED
  BY <1>1, <1>5

LEMMA RepairOneStep ==
  ASSUME ParkedForCause, RepairOne
  PROVE  ParkedForCause'
<1> PICK b : b = Min(todo)
  OBVIOUS
<1>1. IF b \in Unnumbered
        THEN Park(b)
        ELSE \E answer \in Answers(b) :
               CASE MatchesNotFound(answer) -> Park(b)
                 [] answer.status = "ok" ->
                      (missing' = missing \ {b} /\ UNCHANGED <<parked, hiccups>>) \/ Leave
                 [] OTHER -> Leave
  BY DEF RepairOne
<1>2. CASE b \in Unnumbered
  BY <1>1, <1>2, OnlyForCause
<1>3. CASE b \notin Unnumbered
  <2>1. PICK answer \in Answers(b) :
          CASE MatchesNotFound(answer) -> Park(b)
            [] answer.status = "ok" ->
                 (missing' = missing \ {b} /\ UNCHANGED <<parked, hiccups>>) \/ Leave
            [] OTHER -> Leave
    BY <1>1, <1>3
  <2>2. CASE MatchesNotFound(answer)
    <3>1. answer.status # "ok"
      BY <2>2 DEF MatchesNotFound
    <3>2. Park(b)
      BY <2>1, <2>2, <3>1
    <3> QED
      BY <2>2, <3>2, RejectionIsKnown, OnlyForCause
  <2>3. CASE ~MatchesNotFound(answer)
    <3>1. UNCHANGED parked
      BY <2>1, <2>3 DEF Leave
    <3> QED
      BY <3>1 DEF ParkedForCause
  <2> QED
    BY <2>2, <2>3
<1> QED
  BY <1>2, <1>3

(* A booking is parked for a human only if zinc has no KTMB numbers of it  *)
(* or KTMB does not know the ticket, whatever the answers' words.          *)
THEOREM ParksForCause == RepairSpec => []ParkedForCause
<1>1. RepairInit => ParkedForCause
  BY DEF RepairInit, ParkedForCause
<1>2. ParkedForCause /\ [RepairNext]_repairVars => ParkedForCause'
  <2> SUFFICES ASSUME ParkedForCause, [RepairNext]_repairVars PROVE ParkedForCause'
    OBVIOUS
  <2>1. CASE ListMissingTickets
    BY <2>1 DEF ListMissingTickets, ParkedForCause
  <2>2. CASE UNCHANGED repairVars
    BY <2>2 DEF repairVars, ParkedForCause
  <2> QED
    BY <2>1, <2>2, RepairOneStep DEF RepairNext
<1> QED
  BY <1>1, <1>2, PTL DEF RepairSpec

-----------------------------------------------------------------------------
(* Withdrawer: the switch.                                                 *)

\* The fields of the sweep, and that the approving one was allowed to start.
SwitchInv ==
  /\ withdrawal \in [Withdrawals -> WithdrawalStatus]
  /\ sweep = [pc |-> sweep.pc, page |-> sweep.page, found |-> sweep.found, allowed |-> sweep.allowed]
  /\ sweep.pc \in {"pending", "processing", "approve"} => sweep.allowed

\* Money leaves only by a sweep that was allowed.
Allowed(w) ==
  withdrawal[w] = "Pending" /\ withdrawal'[w] = "Processing" /\ sweep' # sweep => sweep.allowed

LEMMA IdleIs ==
  /\ SweepIdle = [pc |-> SweepIdle.pc, page |-> SweepIdle.page, found |-> SweepIdle.found,
                  allowed |-> SweepIdle.allowed]
  /\ SweepIdle.pc = "idle"
BY DEF SweepIdle

LEMMA BecomesOk ==
  ASSUME withdrawal \in [Withdrawals -> WithdrawalStatus], NEW w, NEW status \in WithdrawalStatus,
         Becomes(w, status)
  PROVE  /\ withdrawal' \in [Withdrawals -> WithdrawalStatus]
         /\ \A v \in Withdrawals \ {w} : withdrawal'[v] = withdrawal[v]
         /\ w \in Withdrawals => withdrawal'[w] = status
BY DEF Becomes

LEMMA SwitchStep ==
  ASSUME SwitchInv, [WithdrawerNext]_withdrawerVars
  PROVE  SwitchInv' /\ \A w \in Withdrawals : Allowed(w)
<1> USE DEF SwitchInv, Allowed
<1>1. ASSUME UNCHANGED sweep, withdrawal' \in [Withdrawals -> WithdrawalStatus]
      PROVE  SwitchInv' /\ \A w \in Withdrawals : Allowed(w)
  BY <1>1
<1>2. ASSUME UNCHANGED withdrawal, sweep' = SweepIdle
      PROVE  SwitchInv' /\ \A w \in Withdrawals : Allowed(w)
  BY <1>2, IdleIs DEF WithdrawalStatus
<1>3. ASSUME NEW w \in Withdrawals, RequestWithdrawal(w) \/ Resolve(w)
      PROVE  SwitchInv' /\ \A v \in Withdrawals : Allowed(v)
  <2>1. withdrawal' \in [Withdrawals -> WithdrawalStatus] /\ UNCHANGED sweep
    BY <1>3, BecomesOk DEF RequestWithdrawal, Resolve, WithdrawalStatus
  <2> QED
    BY <1>1, <2>1
<1>4. CASE FlipSwitch \/ (\E kind \in {"approve", "reconcile"} : Tick(kind)) \/ UNCHANGED withdrawerVars
  <2>1. UNCHANGED <<withdrawal, sweep>>
    BY <1>4 DEF FlipSwitch, Tick, withdrawerVars
  <2> QED
    BY <1>1, <2>1
<1>5. ASSUME NEW kind, StartSweep(kind)
      PROVE  SwitchInv' /\ \A w \in Withdrawals : Allowed(w)
  BY <1>5 DEF StartSweep, WithdrawalStatus
<1>6. CASE Gate
  <2>1. CASE sweep' = [sweep EXCEPT !.pc = "pending", !.allowed = TRUE]
    BY <1>6, <2>1 DEF Gate, WithdrawalStatus
  <2>2. CASE sweep' = SweepIdle
    BY <1>2, <1>6, <2>2 DEF Gate
  <2> QED
    BY <1>6, <2>1, <2>2 DEF Gate
<1>7. CASE ListPage
  <2>1. UNCHANGED withdrawal
    BY <1>7 DEF ListPage
  <2>2. CASE sweep' = SweepIdle
    BY <1>2, <2>1, <2>2
  <2>3. CASE sweep' # SweepIdle
    <3>1. PICK f, p, last :
            sweep' = [sweep EXCEPT !.found = f, !.page = p,
                                   !.pc = IF last THEN AfterListing[@] ELSE @]
      BY <1>7, <2>3 DEF ListPage
    <3>2. sweep.pc \in DOMAIN Listing /\ DOMAIN Listing = {"pending", "processing", "reconcilable"}
      BY <1>7 DEF ListPage, Listing
    <3>3. /\ sweep'.pc = IF last THEN AfterListing[sweep.pc] ELSE sweep.pc
          /\ sweep'.allowed = sweep.allowed
          /\ sweep' = [pc |-> sweep'.pc, page |-> sweep'.page, found |-> sweep'.found,
                       allowed |-> sweep'.allowed]
      BY <3>1
    <3>4. /\ AfterListing["pending"] = "processing" /\ AfterListing["processing"] = "approve"
          /\ AfterListing["reconcilable"] = "reconcile"
      BY DEF AfterListing
    <3> QED
      BY <2>1, <3>2, <3>3, <3>4 DEF WithdrawalStatus
  <2> QED
    BY <2>2, <2>3
<1>8. CASE PostItem
  <2>1. sweep' = SweepIdle \/ sweep' = [sweep EXCEPT !.found = Tail(@)]
    BY <1>8 DEF PostItem, AfterItem
  <2>2. SwitchInv'
    <3>1. withdrawal' \in [Withdrawals -> WithdrawalStatus]
      BY <1>8, BecomesOk DEF PostItem, Post, Approve, Reconcile, WithdrawalStatus
    <3>2. CASE sweep' = SweepIdle
      BY <3>1, <3>2, IdleIs
    <3>3. CASE sweep' = [sweep EXCEPT !.found = Tail(@)]
      BY <3>1, <3>3
    <3> QED
      BY <2>1, <3>2, <3>3
  <2>3. ASSUME NEW w \in Withdrawals, withdrawal[w] = "Pending", withdrawal'[w] = "Processing"
        PROVE  sweep.pc = "approve"
    <3>1. Post(Head(sweep.found)) /\ Sweeping
      BY <1>8, <2>3 DEF PostItem
    <3>2. CASE sweep.pc # "approve"
      <4>1. Reconcile(Head(sweep.found))
        BY <2>3, <3>1, <3>2 DEF Post
      <4>2. Becomes(Head(sweep.found), "settled")
        BY <2>3, <4>1 DEF Reconcile
      <4>3. withdrawal'[w] \in {withdrawal[w], "settled"}
        BY <4>2, BecomesOk DEF WithdrawalStatus
      <4> QED
        BY <2>3, <4>3
    <3> QED
      BY <3>2
  <2> QED
    BY <2>2, <2>3
<1> QED
  BY <1>3, <1>4, <1>5, <1>6, <1>7, <1>8 DEF WithdrawerNext, SweepStep

(* A sweep requests a payout only if it read zinc's switch, and found it   *)
(* on, when it started, for any pages, items and failed calls.             *)
THEOREM PayoutsUnderSwitch == WithdrawerSpec => SweepsUnderSwitch
<1>1. WithdrawerInit => SwitchInv
  BY IdleIs DEF WithdrawerInit, SwitchInv, WithdrawalStatus
<1>2. SwitchInv /\ [WithdrawerNext]_withdrawerVars => SwitchInv'
  BY SwitchStep
<1>3. SwitchInv /\ [WithdrawerNext]_withdrawerVars
        => [\A w \in Withdrawals :
              withdrawal[w] = "Pending" /\ withdrawal'[w] = "Processing" /\ sweep' # sweep
                => sweep.allowed]_withdrawerVars
  BY SwitchStep DEF Allowed
<1> QED
  BY <1>1, <1>2, <1>3, PTL DEF WithdrawerSpec, SweepsUnderSwitch

-----------------------------------------------------------------------------
(* Refunds: what the terminator reports.                                   *)

\* A replica that is about to report has had the ticket refunded.
ReportInv ==
  /\ terminations \in Seq(Sold)
  /\ terminator \in [Terminators -> TerminatorState]
  /\ refund \in [Sold -> {"none", "reported", "backfilled"}]
  /\ \A t \in Terminators : terminator[t].pc = "report" => terminator[t].b \in givenBack
  /\ ReportedRefundIsMade

\* A replica goes to another point with its booking, or is done.
LEMMA TerminatorMoves ==
  ASSUME terminator \in [Terminators -> TerminatorState], NEW t \in Terminators,
         NEW at \in {"quote", "refund", "report"},
         TerminatorTo(t, at) \/ TerminatorDone(t)
  PROVE  /\ terminator' \in [Terminators -> TerminatorState]
         /\ \A s \in Terminators \ {t} : terminator'[s] = terminator[s]
         /\ terminator'[t].pc \in {"idle", at}
         /\ terminator'[t].pc = at => terminator'[t].b = terminator[t].b
<1>1. TerminatorIdle \in TerminatorState /\ TerminatorIdle.pc = "idle"
  BY DEF TerminatorIdle, TerminatorState
<1>2. CASE TerminatorDone(t)
  BY <1>1, <1>2 DEF TerminatorDone
<1>3. CASE TerminatorTo(t, at)
  BY <1>3 DEF TerminatorTo, TerminatorState
<1> QED
  BY <1>2, <1>3

\* A step after which no more replica is about to report than before.
LEMMA ReportFrame ==
  ASSUME ReportInv, terminations' \in Seq(Sold), terminator' \in [Terminators -> TerminatorState],
         refund' \in [Sold -> {"none", "reported", "backfilled"}],
         givenBack \subseteq givenBack',
         \A b \in Sold : refund'[b] = "reported" => refund[b] = "reported" \/ b \in givenBack',
         \A t \in Terminators :
           terminator'[t].pc = "report" => terminator'[t] = terminator[t] \/ terminator'[t].b \in givenBack'
  PROVE  ReportInv'
BY DEF ReportInv, ReportedRefundIsMade

LEMMA TerminatorSteps ==
  ASSUME ReportInv, NEW t \in Terminators, TerminatorStep(t) \/ DropTermination(t)
  PROVE  ReportInv'
<1> USE DEF ReportInv
<1>1. CASE PopTermination(t)
  <2>1. /\ Head(terminations) \in Sold /\ terminations' \in Seq(Sold)
        /\ terminator' = [terminator EXCEPT ![t] = [pc |-> "quote", b |-> Head(terminations)]]
        /\ UNCHANGED <<refund, givenBack>>
    BY <1>1 DEF PopTermination
  <2>2. /\ terminator' \in [Terminators -> TerminatorState] /\ terminator'[t].pc = "quote"
        /\ \A s \in Terminators \ {t} : terminator'[s] = terminator[s]
    BY <2>1 DEF TerminatorState
  <2> QED
    BY <2>1, <2>2, ReportFrame
<1>2. CASE Quote(t)
  <2>1. TerminatorTo(t, "refund") /\ UNCHANGED <<refund, givenBack, terminations>>
    BY <1>2 DEF Quote
  <2> QED
    BY <2>1, TerminatorMoves, ReportFrame
<1>3. CASE Refund(t)
  <2>1. /\ TerminatorTo(t, "report") \/ TerminatorDone(t)
        /\ givenBack' = givenBack \union {terminator[t].b}
        /\ UNCHANGED <<refund, terminations>>
    BY <1>3 DEF Refund, Refunded
  <2>2. /\ terminator' \in [Terminators -> TerminatorState]
        /\ \A s \in Terminators \ {t} : terminator'[s] = terminator[s]
        /\ terminator'[t].pc = "report" => terminator'[t].b = terminator[t].b
    BY <2>1, TerminatorMoves
  <2> QED
    BY <2>1, <2>2, ReportFrame
<1>4. CASE ReportRefund(t)
  <2>1. /\ terminator[t].pc = "report" /\ TerminatorDone(t)
        /\ refund' = [refund EXCEPT ![terminator[t].b] = "reported"]
        /\ UNCHANGED <<givenBack, terminations>>
    BY <1>4 DEF ReportRefund
  <2>2. /\ terminator' \in [Terminators -> TerminatorState]
        /\ \A s \in Terminators \ {t} : terminator'[s] = terminator[s]
        /\ terminator'[t].pc # "report"
    BY <2>1 DEF TerminatorDone, TerminatorIdle, TerminatorState
  <2>3. /\ refund' \in [Sold -> {"none", "reported", "backfilled"}]
        /\ \A b \in Sold : refund'[b] = "reported" => refund[b] = "reported" \/ b = terminator[t].b
    BY <2>1
  <2> QED
    BY <2>1, <2>2, <2>3, ReportFrame
<1>5. CASE DropTermination(t)
  <2>1. TerminatorDone(t) /\ UNCHANGED <<refund, givenBack, terminations>>
    BY <1>5 DEF DropTermination
  <2> QED
    BY <2>1, TerminatorMoves, ReportFrame
<1> QED
  BY <1>1, <1>2, <1>3, <1>4, <1>5 DEF TerminatorStep

LEMMA ReportStep == ReportInv /\ [RefundsNext]_refundsVars => ReportInv'
<1> SUFFICES ASSUME ReportInv, [RefundsNext]_refundsVars PROVE ReportInv'
  OBVIOUS
<1>1. ASSUME NEW b \in Sold, TerminateBooking(b) PROVE ReportInv'
  BY <1>1, ReportFrame DEF TerminateBooking, ReportInv
<1>2. ASSUME NEW k \in BackfillKinds, BackfillStep(k) PROVE ReportInv'
  <2>1. UNCHANGED <<terminations, terminator, givenBack>>
    BY <1>2 DEF BackfillStep, StartBackfill, ReadItem, PostAmount
  <2>2. UNCHANGED refund \/ refund' = [refund EXCEPT ![Item(k)] = "backfilled"]
    BY <1>2 DEF BackfillStep, StartBackfill, ReadItem, PostAmount
  <2>3. /\ refund' \in [Sold -> {"none", "reported", "backfilled"}]
        /\ \A b \in Sold : refund'[b] = "reported" => refund[b] = "reported"
    BY <2>2 DEF ReportInv
  <2> QED
    BY <2>1, <2>3, ReportFrame DEF ReportInv
<1>3. CASE UNCHANGED refundsVars
  BY <1>3, ReportFrame DEF refundsVars, ReportInv
<1> QED
  BY <1>1, <1>2, <1>3, TerminatorSteps DEF RefundsNext

(* Whatever replica stops where, and whatever the backfill writes over it, *)
(* a refund the terminator reported has been made.                         *)
THEOREM ReportedRefundsAreMade == RefundsSpec => []ReportedRefundIsMade
<1>1. RefundsInit => ReportInv
  BY DEF RefundsInit, ReportInv, ReportedRefundIsMade, TerminatorIdle, TerminatorState
<1>2. ReportInv => ReportedRefundIsMade
  BY DEF ReportInv
<1> QED
  BY <1>1, <1>2, ReportStep, PTL DEF RefundsSpec

-----------------------------------------------------------------------------
(* Poller: why the Jobs of the window's dates overlap.                     *)

\* A generation and the cron trigger after it; what errors may have cost.
Turn == MinGeneration + CronEvery
Patience(n) == CronEvery + n * Turn

Full(d) == watched.full[d]

\* A date that is watched, or is not in the window, has no gap.
GapsInWindow == \A d \in Dates : Full(d) > 0 \/ d \notin Window => gap[d] = 0
GapsBounded == \A d \in Dates : gap[d] <= Patience(errors)

\* Only a restart after a failed spawn delays a cron.
CronInv == \A p \in Pollers : poller[p].cron <= CronEvery \/ errors >= 1

\* A generation that keeps replicas from spawning is one whose dates are
\* watched until the cron after it, unless it was claimed and not spawned.
ClaimInv == \A g \in generation : \A d \in g.plan.full :
  Full(d) >= CronEvery + g.left \/ gap[d] + g.left + CronEvery <= Patience(errors)

\* Each replica's next cron comes in time for every date, unless the replica
\* is about to spawn it.
Awaits(p, d) == poller[p].pc = "wait" \/ d \notin poller[p].plan.full
WaitInv == \A p \in Pollers, d \in Dates :
  Awaits(p, d) => gap[d] + poller[p].cron <= Patience(errors)

\* Without errors it comes before the Jobs of a date that was spawned end.
KeptInv ==
  /\ kept \subseteq Window
  /\ errors = 0 => \A p \in Pollers, d \in kept :
       Full(d) > 0 /\ (Awaits(p, d) => Full(d) > poller[p].cron)

PollerInv ==
  /\ PollerTypeOK
  /\ GapsInWindow /\ GapsBounded /\ CronInv /\ ClaimInv /\ WaitInv /\ KeptInv

LEMMA PatienceIs ==
  /\ Patience(0) = CronEvery
  /\ \A n \in Nat : /\ Patience(n) \in Nat /\ Patience(n) >= CronEvery
                    /\ Patience(n + 1) = Patience(n) + MinGeneration + CronEvery
                    /\ n >= 1 => Patience(n) >= CronEvery + MinGeneration + CronEvery
<1>1. CronEvery \in Nat \ {0} /\ MinGeneration \in Nat \ {0}
  BY PollerAssumption
<1>2. Turn \in Nat /\ Turn = MinGeneration + CronEvery
  BY <1>1 DEF Turn
<1> HIDE DEF Turn
<1>3. Patience(0) = CronEvery
  BY <1>1, <1>2 DEF Patience
<1>4. ASSUME NEW n \in Nat
      PROVE  /\ n * Turn \in Nat /\ (n + 1) * Turn = n * Turn + Turn
             /\ n >= 1 => n * Turn >= Turn
  BY <1>2
<1>5. ASSUME NEW n \in Nat
      PROVE  /\ Patience(n) \in Nat /\ Patience(n) >= CronEvery
             /\ Patience(n + 1) = Patience(n) + MinGeneration + CronEvery
             /\ n >= 1 => Patience(n) >= CronEvery + MinGeneration + CronEvery
  <2> DEFINE m == n * Turn
             k == (n + 1) * Turn
  <2>1. m \in Nat /\ k = m + Turn /\ (n >= 1 => m >= Turn)
    BY <1>4
  <2>2. Patience(n) = CronEvery + m /\ Patience(n + 1) = CronEvery + k
    BY DEF Patience
  <2> HIDE DEF m, k
  <2> QED
    BY <1>1, <1>2, <2>1, <2>2
<1> QED
  BY <1>3, <1>5

\* The numbers the invariant is about.
LEMMA PollerNumbers ==
  ASSUME PollerTypeOK
  PROVE  /\ errors \in Nat /\ Patience(errors) \in Nat
         /\ CronEvery \in Nat /\ MinGeneration \in Nat /\ PolleeLife \in Nat
         /\ CronEvery > 0 /\ MinGeneration > 0 /\ CronEvery + MinGeneration <= PolleeLife
         /\ \A d \in Dates : Full(d) \in Nat /\ gap[d] \in Nat /\ Full(d) <= PolleeLife
         /\ \A p \in Pollers : /\ poller[p].cron \in Nat /\ poller[p].cron <= CronEvery + 1
                               /\ poller[p].pc \in {"wait", "spawn"} /\ poller[p].plan \in Plan
                               /\ poller[p] \in PollerState
         /\ \A g \in generation : g.left \in Nat /\ g.left > 0 /\ g.left <= MinGeneration /\ g.plan \in Plan
<1>1. errors \in Nat
  BY PollerAssumption DEF PollerTypeOK
<1>2. CronEvery \in Nat /\ MinGeneration \in Nat /\ PolleeLife \in Nat
      /\ CronEvery > 0 /\ MinGeneration > 0 /\ CronEvery + MinGeneration <= PolleeLife
  BY PollerAssumption
<1>3. \A d \in Dates : Full(d) \in Nat /\ gap[d] \in Nat /\ Full(d) <= PolleeLife
  <2>1. watched["full"] \in [Dates -> 0..PolleeLife]
    BY DEF PollerTypeOK, Levels
  <2> QED
    BY <1>2, <2>1 DEF PollerTypeOK, Full
<1>4. \A p \in Pollers : poller[p] \in PollerState
  BY DEF PollerTypeOK
<1>5. \A p \in Pollers : /\ poller[p].cron \in Nat /\ poller[p].cron <= CronEvery + 1
                         /\ poller[p].pc \in {"wait", "spawn"} /\ poller[p].plan \in Plan
  BY <1>2, <1>4 DEF PollerState
<1>6. \A g \in generation : g.left \in Nat /\ g.left > 0 /\ g.left <= MinGeneration /\ g.plan \in Plan
  BY <1>2 DEF PollerTypeOK
<1> QED
  BY <1>1, <1>2, <1>3, <1>4, <1>5, <1>6, PatienceIs

LEMMA TargetsOk ==
  ASSUME counted \subseteq Dates, NEW boost
  PROVE  Targets(boost) \in Plan /\ Window \subseteq Targets(boost).full
<1> DEFINE full == Window \union Earliest((counted \ Window) \intersect boost, MaxBoost)
           light == Earliest(counted \ full, MaxLight)
<1>1. Window \subseteq Dates /\ full \subseteq Dates
  BY DEF Window, Earliest
<1> HIDE DEF full
<1>2. light \subseteq Dates
  BY DEF Earliest
<1> HIDE DEF light
<1>3. Targets(boost) = [full |-> full, light |-> light]
  BY DEF Targets, full, light
<1>4. Window \subseteq full
  BY DEF full
<1> QED
  BY <1>1, <1>2, <1>3, <1>4 DEF Plan

LEMMA WindowIn == counted \subseteq Dates => Window \subseteq Dates
BY DEF Window, Earliest

LEMMA PollerStart == PollerInit => PollerInv
<1> SUFFICES ASSUME PollerInit PROVE PollerInv
  OBVIOUS
<1>1. CronEvery \in Nat \ {0} /\ PolleeLife \in Nat /\ MaxTurns \in Nat /\ MaxErrors \in Nat
  BY PollerAssumption
<1>2. \A p \in Pollers : poller[p].cron \in 1..CronEvery /\ poller[p].pc = "wait" /\ poller[p].plan = NoPlan
  BY DEF PollerInit
<1>3. NoPlan \in Plan
  BY DEF NoPlan, Plan
<1>4. PollerTypeOK
  <2>1. poller \in [Pollers -> PollerState]
    BY <1>1, <1>3 DEF PollerInit, PollerState
  <2>2. watched \in [Levels -> [Dates -> 0..PolleeLife]] /\ gap \in [Dates -> Nat]
    BY <1>1 DEF PollerInit
  <2>3. /\ counted = {} /\ released = {} /\ kept = {} /\ generation = {} /\ signal = FALSE
        /\ turns \in 0..MaxTurns /\ errors \in 0..MaxErrors
    BY <1>1 DEF PollerInit
  <2> QED
    BY <2>1, <2>2, <2>3 DEF PollerTypeOK
<1>5. errors = 0 /\ generation = {} /\ kept = {} /\ \A d \in Dates : gap[d] = 0
  BY DEF PollerInit
<1>6. Patience(errors) = CronEvery
  BY <1>5, PatienceIs
<1> QED
  BY <1>1, <1>2, <1>4, <1>5, <1>6
     DEF PollerInv, GapsInWindow, GapsBounded, CronInv, ClaimInv, WaitInv, KeptInv

LEMMA ChangeCountsStep ==
  ASSUME PollerInv, ChangeCounts
  PROVE  PollerInv'
<1> USE DEF PollerInv
<1>1. /\ turns' = turns + 1 /\ turns < MaxTurns /\ counted' \subseteq Dates /\ signal' \in {TRUE, signal}
      /\ kept' = kept \intersect Window'
      /\ gap' = [d \in Dates |-> IF d \in Window' THEN gap[d] ELSE 0]
      /\ UNCHANGED <<released, poller, generation, watched, errors>>
  BY DEF ChangeCounts
<1>2. /\ \A d \in Dates : Full(d)' = Full(d)
      /\ \A d \in Dates : gap'[d] = IF d \in Window' THEN gap[d] ELSE 0
      /\ \A p \in Pollers, d \in Dates : Awaits(p, d)' <=> Awaits(p, d)
      /\ Patience(errors') = Patience(errors)
  BY <1>1 DEF Full, Awaits
<1>3. errors \in Nat /\ Patience(errors) \in Nat /\ \A d \in Dates : gap[d] \in Nat
  BY PollerNumbers
<1>4. PollerTypeOK'
  <2>1. turns' \in 0..MaxTurns
    BY <1>1, PollerAssumption DEF PollerTypeOK
  <2>2. gap' \in [Dates -> Nat]
    BY <1>1, <1>3
  <2>3. kept' \subseteq Dates
    BY <1>1 DEF PollerTypeOK
  <2>4. /\ poller' \in [Pollers -> PollerState] /\ generation' \subseteq [plan : Plan, left : 1..MinGeneration]
        /\ watched' \in [Levels -> [Dates -> 0..PolleeLife]] /\ errors' \in 0..MaxErrors
        /\ signal' \in BOOLEAN /\ released' \subseteq Dates
    BY <1>1 DEF PollerTypeOK
  <2> QED
    BY <1>1, <2>1, <2>2, <2>3, <2>4 DEF PollerTypeOK
<1>5. GapsInWindow'
  BY <1>2 DEF GapsInWindow
<1>6. GapsBounded'
  BY <1>2, <1>3 DEF GapsBounded
<1>7. CronInv'
  BY <1>1 DEF CronInv
<1>8. ClaimInv'
  <2> SUFFICES ASSUME NEW g \in generation, NEW d \in g.plan.full
               PROVE  Full(d) >= CronEvery + g.left \/ gap'[d] + g.left + CronEvery <= Patience(errors)
    BY <1>1, <1>2 DEF ClaimInv, Full
  <2>1. d \in Dates /\ g.left \in Nat /\ CronEvery \in Nat
    BY PollerNumbers DEF Plan
  <2>2. Full(d) >= CronEvery + g.left \/ gap[d] + g.left + CronEvery <= Patience(errors)
    BY DEF ClaimInv
  <2>3. gap'[d] \in {0, gap[d]}
    BY <1>2, <2>1
  <2> QED
    BY <1>3, <2>1, <2>2, <2>3
<1>9. WaitInv'
  <2> SUFFICES ASSUME NEW p \in Pollers, NEW d \in Dates, Awaits(p, d)
               PROVE  gap'[d] + poller[p].cron <= Patience(errors)
    BY <1>1, <1>2 DEF WaitInv
  <2>1. gap[d] + poller[p].cron <= Patience(errors) /\ poller[p].cron \in Nat
    BY PollerNumbers DEF WaitInv
  <2>2. gap'[d] \in {0, gap[d]}
    BY <1>2
  <2> QED
    BY <1>3, <2>1, <2>2
<1>10. KeptInv'
  <2>1. kept' \subseteq kept /\ kept' \subseteq Window' /\ kept' \subseteq Dates
    BY <1>1, <1>4 DEF PollerTypeOK
  <2> QED
    BY <1>1, <1>2, <2>1 DEF KeptInv
<1> QED
  BY <1>4, <1>5, <1>6, <1>7, <1>8, <1>9, <1>10

\* Neither the releases nor a step of none of the loops matter.
LEMMA PollerQuiet ==
  ASSUME PollerInv, PollerTypeOK', UNCHANGED <<counted, poller, generation, watched, kept, gap, errors>>
  PROVE  PollerInv'
<1>1. Window' = Window /\ \A d : Full(d)' = Full(d)
  BY DEF Window, Full
<1>2. Patience(errors') = Patience(errors) /\ \A p, d : Awaits(p, d)' <=> Awaits(p, d)
  BY DEF Awaits
<1> QED
  BY <1>1, <1>2 DEF PollerInv, GapsInWindow, GapsBounded, CronInv, ClaimInv, WaitInv, KeptInv

LEMMA ReleaseDatesStep ==
  ASSUME PollerInv, ReleaseDates
  PROVE  PollerInv'
<1>1. turns' \in 0..MaxTurns
  BY PollerAssumption DEF ReleaseDates, PollerInv, PollerTypeOK
<1>2. PollerTypeOK'
  BY <1>1 DEF ReleaseDates, PollerInv, PollerTypeOK
<1> QED
  BY <1>2, PollerQuiet DEF ReleaseDates

LEMMA PassTickStep ==
  ASSUME PollerInv, PassTick
  PROVE  PollerInv'
<1> USE DEF PollerInv
<1>1. /\ \A p \in Pollers : poller[p].cron > 0 /\ poller[p].pc = "wait"
      /\ poller' = [p \in Pollers |-> [poller[p] EXCEPT !.cron = @ - 1]]
      /\ generation' = {[g EXCEPT !.left = @ - 1] : g \in {h \in generation : h.left > 1}}
      /\ watched' = [l \in Levels |-> [d \in Dates |-> Down(watched[l][d])]]
      /\ gap' = [d \in Dates |-> IF d \in Window /\ watched.full[d] = 0 THEN gap[d] + 1 ELSE 0]
      /\ UNCHANGED <<counted, released, turns, signal, kept, errors>>
  BY DEF PassTick
<1>2. /\ errors \in Nat /\ Patience(errors) \in Nat
      /\ CronEvery \in Nat /\ MinGeneration \in Nat
      /\ \A d \in Dates : Full(d) \in Nat /\ gap[d] \in Nat
      /\ \A p \in Pollers : /\ poller[p].cron \in Nat /\ poller[p].cron <= CronEvery + 1
                            /\ poller[p] \in PollerState
      /\ \A g \in generation : g.left \in Nat /\ g.left <= MinGeneration /\ g.plan \in Plan
  BY PollerNumbers
<1>3. \A p \in Pollers : /\ poller'[p] \in PollerState /\ poller'[p].cron = poller[p].cron - 1
                         /\ poller'[p].pc = "wait" /\ poller'[p].plan = poller[p].plan
  <2> SUFFICES ASSUME NEW p \in Pollers
               PROVE  /\ poller'[p] \in PollerState /\ poller'[p].cron = poller[p].cron - 1
                      /\ poller'[p].pc = "wait" /\ poller'[p].plan = poller[p].plan
    OBVIOUS
  <2>1. poller[p].cron - 1 \in 0..CronEvery + 1
    BY <1>1, <1>2
  <2>2. poller'[p] = [poller[p] EXCEPT !.cron = poller[p].cron - 1]
    BY <1>1
  <2> QED
    BY <1>1, <1>2, <2>1, <2>2 DEF PollerState
<1>4. \A g \in generation' : \E h \in generation :
        h.left > 1 /\ g.plan = h.plan /\ g.left = h.left - 1 /\ g \in [plan : Plan, left : 1..MinGeneration]
  <2> SUFFICES ASSUME NEW g \in generation'
               PROVE  \E h \in generation :
                        /\ h.left > 1 /\ g.plan = h.plan /\ g.left = h.left - 1
                        /\ g \in [plan : Plan, left : 1..MinGeneration]
    OBVIOUS
  <2>1. PICK h \in generation : h.left > 1 /\ g = [h EXCEPT !.left = h.left - 1]
    BY <1>1
  <2>2. h \in [plan : Plan, left : 1..MinGeneration] /\ h.left - 1 \in 1..MinGeneration
    BY <1>2, <2>1 DEF PollerTypeOK
  <2> QED
    BY <2>1, <2>2
<1>5. \A d \in Dates : Full(d)' = Down(Full(d))
  BY <1>1 DEF Full, Levels
<1>6. \A d \in Dates : /\ Full(d)' \in Nat /\ (Full(d) > 0 => Full(d)' = Full(d) - 1)
                       /\ (Full(d) = 0 => Full(d)' = 0)
  BY <1>2, <1>5 DEF Down
<1>7. \A d \in Dates : gap'[d] = IF d \in Window /\ Full(d) = 0 THEN gap[d] + 1 ELSE 0
  BY <1>1 DEF Full
<1>8. Window' = Window /\ Patience(errors') = Patience(errors)
  BY <1>1 DEF Window
<1>9. PollerTypeOK'
  <2>1. poller' \in [Pollers -> PollerState]
    BY <1>1, <1>3
  <2>2. generation' \subseteq [plan : Plan, left : 1..MinGeneration]
    BY <1>4
  <2>3. gap' \in [Dates -> Nat]
    BY <1>1, <1>2
  <2>4. watched' \in [Levels -> [Dates -> 0..PolleeLife]]
    <3>1. ASSUME NEW l \in Levels, NEW d \in Dates PROVE Down(watched[l][d]) \in 0..PolleeLife
      <4>1. watched[l][d] \in 0..PolleeLife /\ PolleeLife \in Nat
        BY PollerAssumption DEF PollerTypeOK
      <4> QED
        BY <4>1 DEF Down
    <3> QED
      BY <1>1, <3>1
  <2> QED
    BY <1>1, <2>1, <2>2, <2>3, <2>4 DEF PollerTypeOK
<1>10. GapsInWindow'
  BY <1>2, <1>6, <1>7, <1>8 DEF GapsInWindow
<1>11. WaitInv'
  <2> SUFFICES ASSUME NEW p \in Pollers, NEW d \in Dates
               PROVE  gap'[d] + poller'[p].cron <= Patience(errors)
    BY <1>8 DEF WaitInv
  <2>1. gap[d] + poller[p].cron <= Patience(errors)
    BY <1>1 DEF WaitInv, Awaits
  <2>2. gap'[d] \in {0, gap[d] + 1}
    BY <1>7
  <2> QED
    BY <1>1, <1>2, <1>3, <2>1, <2>2
<1>12. GapsBounded'
  <2>1. PICK p \in Pollers : TRUE
    BY PollerAssumption
  <2> SUFFICES ASSUME NEW d \in Dates PROVE gap'[d] <= Patience(errors)
    BY <1>8 DEF GapsBounded
  <2>2. gap'[d] + poller'[p].cron <= Patience(errors) /\ poller'[p].cron \in Nat /\ gap'[d] \in Nat
    <3>1. Awaits(p, d)'
      BY <1>3 DEF Awaits
    <3>2. gap'[d] + poller'[p].cron <= Patience(errors)
      BY <1>8, <1>11, <3>1 DEF WaitInv
    <3> QED
      BY <1>1, <1>2, <1>3, <1>7, <3>2
  <2> QED
    BY <1>2, <2>2
<1>13. CronInv'
  BY <1>1, <1>2, <1>3 DEF CronInv
<1>14. ClaimInv'
  <2> SUFFICES ASSUME NEW g \in generation', NEW d \in g.plan.full
               PROVE  Full(d)' >= CronEvery + g.left \/ gap'[d] + g.left + CronEvery <= Patience(errors)
    BY <1>8 DEF ClaimInv
  <2>1. PICK h \in generation : h.left > 1 /\ g.plan = h.plan /\ g.left = h.left - 1
    BY <1>4
  <2>2. d \in Dates /\ h.left \in Nat
    BY <1>2, <2>1 DEF Plan
  <2>3. Full(d) >= CronEvery + h.left \/ gap[d] + h.left + CronEvery <= Patience(errors)
    BY <2>1 DEF ClaimInv
  <2> QED
    BY <1>2, <1>6, <1>7, <2>1, <2>2, <2>3
<1>15. KeptInv'
  <2>1. kept' \subseteq Window' /\ kept' \subseteq Dates
    BY <1>1, <1>8 DEF KeptInv, PollerTypeOK
  <2>2. ASSUME errors' = 0, NEW p \in Pollers, NEW d \in kept'
        PROVE  Full(d)' > 0 /\ Full(d)' > poller'[p].cron
    <3>1. Full(d) > poller[p].cron
      BY <1>1, <2>2 DEF KeptInv, Awaits
    <3> QED
      BY <1>1, <1>2, <1>3, <1>6, <2>1, <3>1
  <2> QED
    BY <2>1, <2>2 DEF KeptInv
<1> QED
  BY <1>9, <1>10, <1>11, <1>12, <1>13, <1>14, <1>15

LEMMA PatienceGrows ==
  \A n \in Nat : \A m \in {n, n + 1} : m \in Nat /\ Patience(m) \in Nat /\ Patience(n) <= Patience(m)
<1> SUFFICES ASSUME NEW n \in Nat
             PROVE  \A m \in {n, n + 1} : m \in Nat /\ Patience(m) \in Nat /\ Patience(n) <= Patience(m)
  OBVIOUS
<1>1. Patience(n) \in Nat /\ Patience(n + 1) \in Nat /\ Patience(n + 1) = Patience(n) + MinGeneration + CronEvery
  BY PatienceIs
<1>2. MinGeneration \in Nat /\ CronEvery \in Nat
  BY PollerAssumption
<1> QED
  BY <1>1, <1>2

\* A replica that plans, or finds its plan taken: the dates are as they were.
LEMMA ReplicaFrame ==
  ASSUME PollerInv, NEW p \in Pollers, NEW new \in PollerState, SetPoller(p, new),
         UNCHANGED <<counted, released, turns, generation, watched, kept, gap>>,
         signal' \in BOOLEAN,
         errors' \in {errors, errors + 1}, errors' \in 0..MaxErrors,
         new.cron <= CronEvery \/ errors' >= 1,
         \A d \in Dates : new.pc = "wait" \/ d \notin new.plan.full =>
           /\ gap[d] + new.cron <= Patience(errors')
           /\ errors' = 0 /\ d \in kept => Full(d) > new.cron
  PROVE  PollerInv'
<1> USE DEF PollerInv
<1>1. /\ errors \in Nat /\ Patience(errors) \in Nat /\ CronEvery \in Nat /\ MinGeneration \in Nat
      /\ \A d \in Dates : Full(d) \in Nat /\ gap[d] \in Nat
      /\ \A q \in Pollers : poller[q].cron \in Nat
      /\ \A g \in generation : g.left \in Nat /\ g.plan \in Plan
  BY PollerNumbers
<1>2. errors' \in Nat /\ Patience(errors') \in Nat /\ Patience(errors) <= Patience(errors')
  BY <1>1, PatienceGrows
<1>3. /\ poller' \in [Pollers -> PollerState] /\ poller'[p] = new
      /\ \A q \in Pollers : q # p => poller'[q] = poller[q]
  BY DEF SetPoller, PollerTypeOK
<1>4. Window' = Window /\ \A d : Full(d)' = Full(d)
  BY DEF Window, Full
<1>5. \A q \in Pollers, d \in Dates : q # p => (Awaits(q, d)' <=> Awaits(q, d))
  BY <1>3 DEF Awaits
<1>6. \A d \in Dates : Awaits(p, d)' <=> new.pc = "wait" \/ d \notin new.plan.full
  BY <1>3 DEF Awaits
<1>7. PollerTypeOK'
  BY <1>3 DEF PollerTypeOK
<1>8. GapsInWindow'
  BY <1>4 DEF GapsInWindow
<1>9. GapsBounded'
  BY <1>1, <1>2 DEF GapsBounded
<1>10. CronInv'
  BY <1>1, <1>2, <1>3 DEF CronInv
<1>11. ClaimInv'
  <2> SUFFICES ASSUME NEW g \in generation, NEW d \in g.plan.full
               PROVE  Full(d) >= CronEvery + g.left \/ gap[d] + g.left + CronEvery <= Patience(errors')
    BY <1>4 DEF ClaimInv
  <2>1. d \in Dates
    BY <1>1 DEF Plan
  <2>2. Full(d) >= CronEvery + g.left \/ gap[d] + g.left + CronEvery <= Patience(errors)
    BY DEF ClaimInv
  <2> QED
    BY <1>1, <1>2, <2>1, <2>2
<1>12. WaitInv'
  <2> SUFFICES ASSUME NEW q \in Pollers, NEW d \in Dates, Awaits(q, d)'
               PROVE  gap[d] + poller'[q].cron <= Patience(errors')
    BY DEF WaitInv
  <2>1. CASE q = p
    BY <1>3, <1>6, <2>1
  <2>2. CASE q # p
    <3>1. gap[d] + poller[q].cron <= Patience(errors)
      BY <1>5, <2>2 DEF WaitInv
    <3> QED
      BY <1>1, <1>2, <1>3, <2>2, <3>1
  <2> QED
    BY <2>1, <2>2
<1>13. KeptInv'
  <2>1. kept' \subseteq Window' /\ kept \subseteq Dates
    BY <1>4 DEF KeptInv, PollerTypeOK
  <2>2. ASSUME errors' = 0, NEW q \in Pollers, NEW d \in kept
        PROVE  Full(d)' > 0 /\ (Awaits(q, d)' => Full(d)' > poller'[q].cron)
    <3>1. errors = 0
      BY <1>1, <2>2
    <3>2. Full(d)' > 0
      BY <1>4, <3>1 DEF KeptInv
    <3>3. CASE q = p
      BY <1>3, <1>4, <1>6, <2>1, <2>2, <3>2, <3>3
    <3>4. CASE q # p
      BY <1>3, <1>4, <1>5, <2>1, <3>1, <3>2, <3>4 DEF KeptInv
    <3> QED
      BY <3>3, <3>4
  <2> QED
    BY <2>1, <2>2 DEF KeptInv
<1> QED
  BY <1>7, <1>8, <1>9, <1>10, <1>11, <1>12, <1>13

\* The next cron is within what the errors so far allow.
LEMMA CronInTime ==
  ASSUME PollerInv, NEW p \in Pollers
  PROVE  poller[p].cron <= Patience(errors)
<1> USE DEF PollerInv
<1>1. /\ errors \in Nat /\ CronEvery \in Nat /\ MinGeneration \in Nat /\ CronEvery > 0
      /\ poller[p].cron \in Nat /\ poller[p].cron <= CronEvery + 1 /\ Patience(errors) \in Nat
  BY PollerNumbers
<1>2. Patience(errors) >= CronEvery /\ (errors >= 1 => Patience(errors) >= CronEvery + MinGeneration + CronEvery)
  BY <1>1, PatienceIs
<1>3. poller[p].cron <= CronEvery \/ errors >= 1
  BY DEF CronInv
<1> QED
  BY <1>1, <1>2, <1>3

LEMMA PlannedStep ==
  ASSUME PollerInv, NEW p \in Pollers, NEW cron \in 0..CronEvery + 1, Planned(p, cron),
         cron <= CronEvery \/ errors >= 1, cron <= Patience(errors),
         UNCHANGED <<counted, released, turns, generation, watched, kept, gap>>,
         signal' \in BOOLEAN
  PROVE  PollerInv'
<1> USE DEF PollerInv
<1>1. errors \in Nat /\ Patience(errors) \in Nat /\ CronEvery \in Nat /\ MinGeneration \in Nat
  BY PollerNumbers
<1>2. PICK boost \in {released, {}} :
        /\ errors' \in {errors, errors + 1} /\ errors' \in 0..MaxErrors
        /\ SetPoller(p, [cron |-> cron, pc |-> "spawn", plan |-> Targets(boost)])
  <2>1. PICK boost \in {released, {}} :
          /\ boost # released => Error
          /\ boost = released => UNCHANGED errors
          /\ SetPoller(p, [cron |-> cron, pc |-> "spawn", plan |-> Targets(boost)])
    BY DEF Planned
  <2>2. errors' \in {errors, errors + 1} /\ errors' \in 0..MaxErrors
    BY <1>1, <2>1, PollerAssumption DEF Error, PollerTypeOK
  <2> QED
    BY <2>1, <2>2
<1>3. PICK plan : plan = Targets(boost)
  OBVIOUS
<1>4. plan \in Plan /\ Window \subseteq plan.full
  BY <1>3, TargetsOk DEF PollerTypeOK
<1> DEFINE new == [cron |-> cron, pc |-> "spawn", plan |-> plan]
<1>5. new \in PollerState /\ new.cron = cron /\ new.pc = "spawn" /\ new.plan = plan
  BY <1>4 DEF PollerState
<1>6. SetPoller(p, new)
  BY <1>2, <1>3
<1> HIDE DEF new
<1>7. Patience(errors) <= Patience(errors') /\ errors' >= errors
  BY <1>1, <1>2, PatienceGrows
<1>8. ASSUME NEW d \in Dates, d \notin plan.full
      PROVE  gap[d] + new.cron <= Patience(errors') /\ d \notin kept
  <2>1. gap[d] = 0
    BY <1>4, <1>8 DEF GapsInWindow
  <2>2. d \notin kept
    BY <1>4, <1>8 DEF KeptInv
  <2>3. Patience(errors') \in Nat
    BY <1>1, <1>2, PatienceIs
  <2> QED
    BY <1>1, <1>5, <1>7, <2>1, <2>2, <2>3
<1>9. new.cron <= CronEvery \/ errors' >= 1
  BY <1>1, <1>2, <1>5, <1>7
<1> QED
  BY <1>2, <1>5, <1>6, <1>8, <1>9, ReplicaFrame

LEMMA OnCronStep ==
  ASSUME PollerInv, NEW p \in Pollers, OnCron(p)
  PROVE  PollerInv'
<1>1. /\ poller[p].pc = "wait" /\ poller[p].cron = 0
      /\ UNCHANGED <<counted, released, turns, signal, generation, watched, kept, gap>>
  BY DEF OnCron
<1>2. /\ errors \in Nat /\ CronEvery \in Nat /\ CronEvery > 0 /\ MinGeneration \in Nat
      /\ Patience(errors) \in Nat /\ poller[p] \in PollerState
      /\ \A d \in Dates : gap[d] \in Nat
  BY PollerNumbers DEF PollerInv
<1>3. signal' \in BOOLEAN
  BY <1>1 DEF PollerInv, PollerTypeOK
<1>4. CASE Planned(p, CronEvery)
  <2>1. CronEvery <= Patience(errors) /\ CronEvery \in 0..CronEvery + 1
    BY <1>2, PatienceIs
  <2> QED
    BY <1>1, <1>2, <1>3, <1>4, <2>1, PlannedStep
<1>5. CASE Error /\ SetPoller(p, [poller[p] EXCEPT !.cron = CronEvery])
  <2>1. PICK new : new = [poller[p] EXCEPT !.cron = CronEvery]
    OBVIOUS
  <2>2. new \in PollerState /\ new.cron = CronEvery /\ new.pc = "wait" /\ SetPoller(p, new)
    BY <1>1, <1>2, <1>5, <2>1 DEF PollerState
  <2>3. errors' = errors + 1 /\ errors' \in 0..MaxErrors
    BY <1>2, <1>5, PollerAssumption DEF Error
  <2>4. ASSUME NEW d \in Dates PROVE gap[d] + new.cron <= Patience(errors')
    <3>1. gap[d] <= Patience(errors)
      BY DEF PollerInv, GapsBounded
    <3>2. Patience(errors + 1) = Patience(errors) + MinGeneration + CronEvery
      BY <1>2, PatienceIs
    <3> QED
      BY <1>2, <2>2, <2>3, <3>1, <3>2
  <2>5. errors' >= 1 /\ errors' # 0
    BY <1>2, <2>3
  <2> QED
    BY <1>1, <1>3, <2>2, <2>3, <2>4, <2>5, ReplicaFrame
<1> QED
  BY <1>4, <1>5 DEF OnCron

LEMMA OnSignalStep ==
  ASSUME PollerInv, NEW p \in Pollers, OnSignal(p)
  PROVE  PollerInv'
<1>1. /\ poller[p].pc = "wait" /\ signal' = FALSE
      /\ UNCHANGED <<counted, released, turns, generation, watched, kept, gap>>
  BY DEF OnSignal
<1>2. /\ errors \in Nat /\ CronEvery \in Nat /\ CronEvery > 0 /\ MinGeneration \in Nat
      /\ Patience(errors) \in Nat /\ poller[p] \in PollerState
      /\ poller[p].cron \in Nat /\ poller[p].cron <= CronEvery + 1
      /\ \A d \in Dates : gap[d] \in Nat
  BY PollerNumbers DEF PollerInv
<1>3. PICK cron : cron = poller[p].cron
  OBVIOUS
<1>4. cron \in 0..CronEvery + 1 /\ (cron <= CronEvery \/ errors >= 1) /\ cron <= Patience(errors)
  BY <1>2, <1>3, CronInTime DEF PollerInv, CronInv
<1>5. CASE Planned(p, poller[p].cron)
  <2>1. Planned(p, cron)
    BY <1>3, <1>5
  <2> QED
    BY <1>1, <1>4, <2>1, PlannedStep
<1>6. CASE Error /\ UNCHANGED poller
  <2>1. PICK new : new = poller[p]
    OBVIOUS
  <2>2. new \in PollerState /\ new.cron = cron /\ new.pc = "wait" /\ SetPoller(p, new)
    BY <1>1, <1>2, <1>3, <1>6, <2>1 DEF SetPoller, PollerInv, PollerTypeOK
  <2>3. errors' = errors + 1 /\ errors' \in 0..MaxErrors
    BY <1>2, <1>6, PollerAssumption DEF Error
  <2>4. ASSUME NEW d \in Dates PROVE gap[d] + new.cron <= Patience(errors')
    <3>1. gap[d] <= Patience(errors)
      BY DEF PollerInv, GapsBounded
    <3>2. Patience(errors + 1) = Patience(errors) + MinGeneration + CronEvery
      BY <1>2, PatienceIs
    <3>3. MinGeneration > 0
      BY PollerNumbers DEF PollerInv
    <3> QED
      BY <1>2, <1>3, <2>2, <2>3, <3>1, <3>2, <3>3
  <2>5. errors' >= 1 /\ errors' # 0
    BY <1>2, <2>3
  <2> QED
    BY <1>1, <2>2, <2>3, <2>4, <2>5, ReplicaFrame
<1> QED
  BY <1>5, <1>6 DEF OnSignal

\* The date of a plan that another replica, or an earlier turn, has claimed
\* is watched past the next cron, or there is time for it.
LEMMA SkipStep ==
  ASSUME PollerInv, NEW p \in Pollers, Skip(p)
  PROVE  PollerInv'
<1> USE DEF PollerInv
<1>1. /\ poller[p].pc = "spawn" /\ Taken(poller[p].plan)
      /\ SetPoller(p, [poller[p] EXCEPT !.pc = "wait", !.plan = NoPlan])
      /\ UNCHANGED <<counted, released, turns, signal, generation, watched, kept, gap, errors>>
  BY DEF Skip
<1>2. /\ errors \in Nat /\ CronEvery \in Nat /\ Patience(errors) \in Nat
      /\ poller[p] \in PollerState /\ poller[p].cron \in Nat /\ poller[p].cron <= CronEvery + 1
      /\ \A d \in Dates : gap[d] \in Nat /\ Full(d) \in Nat
      /\ \A g \in generation : g.left \in Nat /\ g.left > 0
  BY PollerNumbers
<1>3. PICK new : new = [poller[p] EXCEPT !.pc = "wait", !.plan = NoPlan]
  OBVIOUS
<1>4. NoPlan \in Plan
  BY DEF NoPlan, Plan
<1>5. new \in PollerState /\ new.cron = poller[p].cron /\ SetPoller(p, new)
  BY <1>1, <1>2, <1>3, <1>4 DEF PollerState
<1>6. PICK g \in generation : g.plan = poller[p].plan
  BY <1>1 DEF Taken
<1>7. poller[p].cron <= CronEvery \/ errors >= 1
  BY DEF CronInv
<1>8. poller[p].cron <= Patience(errors)
  BY CronInTime
<1>9. ASSUME NEW d \in Dates
      PROVE  /\ gap[d] + poller[p].cron <= Patience(errors)
             /\ errors = 0 /\ d \in kept => Full(d) > poller[p].cron
  <2>1. CASE d \notin poller[p].plan.full
    <3>1. Awaits(p, d)
      BY <2>1 DEF Awaits
    <3> QED
      BY <3>1 DEF WaitInv, KeptInv
  <2>2. CASE d \in poller[p].plan.full
    <3>1. Full(d) >= CronEvery + g.left \/ gap[d] + g.left + CronEvery <= Patience(errors)
      BY <1>6, <2>2 DEF ClaimInv
    <3>2. CASE Full(d) >= CronEvery + g.left
      <4>1. gap[d] = 0
        BY <1>2, <3>2 DEF GapsInWindow
      <4> QED
        BY <1>2, <1>7, <1>8, <3>2, <4>1
    <3>3. CASE gap[d] + g.left + CronEvery <= Patience(errors)
      <4>1. errors # 0
        BY <1>2, <3>3, PatienceIs
      <4> QED
        BY <1>2, <3>3, <4>1
    <3> QED
      BY <3>1, <3>2, <3>3
  <2> QED
    BY <2>1, <2>2
<1>10. errors' = errors /\ errors \in 0..MaxErrors /\ signal' \in BOOLEAN
  BY <1>1 DEF PollerTypeOK
<1> QED
  BY <1>1, <1>5, <1>7, <1>9, <1>10, ReplicaFrame

\* A replica that spawns some or all of its plan.
LEMMA SpawnFrame ==
  ASSUME PollerInv, NEW p \in Pollers, poller[p].pc = "spawn",
         NEW plan, plan = poller[p].plan,
         NEW spawned \in Plan, spawned.full \subseteq plan.full,
         NEW new \in PollerState, NEW cron, new.cron = cron, new.pc = "wait",
         Watch(spawned), SetPoller(p, new),
         generation' \subseteq generation \union {Fresh(plan)},
         errors' \in {errors, errors + 1}, errors' \in 0..MaxErrors,
         errors' = errors => spawned = plan /\ cron = poller[p].cron,
         cron = poller[p].cron \/ errors' = errors + 1,
         UNCHANGED <<counted, released, turns, signal>>
  PROVE  PollerInv'
<1> USE DEF PollerInv
<1>1. /\ errors \in Nat /\ Patience(errors) \in Nat /\ CronEvery \in Nat /\ MinGeneration \in Nat
      /\ CronEvery > 0 /\ MinGeneration > 0
      /\ PolleeLife \in Nat /\ CronEvery + MinGeneration <= PolleeLife
      /\ \A d \in Dates : Full(d) \in Nat /\ gap[d] \in Nat
      /\ \A q \in Pollers : poller[q].cron \in Nat /\ poller[q].cron <= CronEvery + 1
      /\ \A g \in generation : g.left \in Nat /\ g.left > 0 /\ g.left <= MinGeneration /\ g.plan \in Plan
      /\ plan \in Plan /\ cron \in Nat /\ cron <= CronEvery + 1
  BY PollerNumbers DEF PollerState
<1>2. /\ errors' \in Nat /\ Patience(errors') \in Nat /\ Patience(errors) <= Patience(errors')
      /\ errors' # errors => Patience(errors') = Patience(errors) + MinGeneration + CronEvery
      /\ Patience(errors) >= CronEvery
  BY <1>1, PatienceGrows, PatienceIs
<1>3. /\ kept' = kept \union (spawned.full \intersect Window)
      /\ gap' = [d \in Dates |-> IF d \in spawned.full THEN 0 ELSE gap[d]]
      /\ watched' = [l \in Levels |-> [d \in Dates |->
                       IF d \in spawned[l] THEN PolleeLife ELSE watched[l][d]]]
  BY DEF Watch
<1>4. /\ poller' \in [Pollers -> PollerState] /\ poller'[p].cron = cron
      /\ poller'[p].pc = "wait"
      /\ \A q \in Pollers : q # p => poller'[q] = poller[q]
  BY DEF SetPoller, PollerTypeOK
<1>5. Window' = Window
  BY DEF Window
<1>6. /\ \A d \in Dates : Full(d)' = IF d \in spawned.full THEN PolleeLife ELSE Full(d)
      /\ \A d \in Dates : gap'[d] = IF d \in spawned.full THEN 0 ELSE gap[d]
  BY <1>3 DEF Full, Levels
<1>7. \A q \in Pollers, d \in Dates : q # p => (Awaits(q, d)' <=> Awaits(q, d))
  BY <1>4 DEF Awaits
<1>8. \A d \in Dates : Awaits(p, d) <=> d \notin plan.full
  BY DEF Awaits
<1>9. \A g \in generation' : g \in generation \/ g = Fresh(plan)
  OBVIOUS
<1>10. /\ Fresh(plan).plan = plan /\ Fresh(plan).left = MinGeneration
       /\ Fresh(plan) \in [plan : Plan, left : 1..MinGeneration]
  BY <1>1 DEF Fresh
<1>11. PollerTypeOK'
  <2>1. kept' \subseteq Dates
    BY <1>3 DEF Plan, PollerTypeOK
  <2>2. gap' \in [Dates -> Nat]
    BY <1>1, <1>3
  <2>3. watched' \in [Levels -> [Dates -> 0..PolleeLife]]
    <3>1. PolleeLife \in 0..PolleeLife
      BY <1>1
    <3> QED
      BY <1>3, <3>1 DEF PollerTypeOK
  <2>4. generation' \subseteq [plan : Plan, left : 1..MinGeneration]
    BY <1>9, <1>10 DEF PollerTypeOK
  <2> QED
    BY <1>4, <2>1, <2>2, <2>3, <2>4 DEF PollerTypeOK
<1>12. GapsInWindow'
  BY <1>5, <1>6 DEF GapsInWindow
<1>13. GapsBounded'
  BY <1>1, <1>2, <1>6 DEF GapsBounded
<1>14. CronInv'
  BY <1>1, <1>2, <1>4 DEF CronInv
<1>15. ClaimInv'
  <2> SUFFICES ASSUME NEW g \in generation', NEW d \in g.plan.full
               PROVE  Full(d)' >= CronEvery + g.left \/ gap'[d] + g.left + CronEvery <= Patience(errors')
    BY DEF ClaimInv
  <2>1. /\ d \in Dates /\ g.left \in Nat /\ g.left <= MinGeneration
    BY <1>1, <1>9, <1>10 DEF Plan
  <2>2. CASE d \in spawned.full
    BY <1>1, <1>6, <2>1, <2>2
  <2>3. CASE d \notin spawned.full /\ g \in generation
    <3>1. Full(d) >= CronEvery + g.left \/ gap[d] + g.left + CronEvery <= Patience(errors)
      BY <2>3 DEF ClaimInv
    <3> QED
      BY <1>1, <1>2, <1>6, <2>1, <2>3, <3>1
  <2>4. CASE d \notin spawned.full /\ g = Fresh(plan)
    <3>1. errors' # errors
      BY <1>10, <2>4
    <3>2. gap[d] <= Patience(errors)
      BY <2>1 DEF GapsBounded
    <3> QED
      BY <1>1, <1>2, <1>6, <2>1, <2>4, <3>1, <3>2
  <2> QED
    BY <1>9, <2>2, <2>3, <2>4
<1>16. WaitInv'
  <2> SUFFICES ASSUME NEW q \in Pollers, NEW d \in Dates, Awaits(q, d)'
               PROVE  gap'[d] + poller'[q].cron <= Patience(errors')
    BY DEF WaitInv
  <2>1. CASE q # p
    <3>1. gap[d] + poller[q].cron <= Patience(errors)
      BY <1>7, <2>1 DEF WaitInv
    <3> QED
      BY <1>1, <1>2, <1>4, <1>6, <2>1, <3>1
  <2>2. CASE q = p
    <3>1. gap[d] <= Patience(errors)
      BY DEF GapsBounded
    <3>2. CASE errors' # errors
      BY <1>1, <1>2, <1>4, <1>6, <2>2, <3>1, <3>2
    <3>3. CASE errors' = errors
      <4>1. CASE d \in plan.full
        <5>1. gap'[d] = 0 /\ cron = poller[p].cron
          BY <1>6, <3>3, <4>1
        <5>2. poller[p].cron <= Patience(errors)
          BY CronInTime
        <5> QED
          BY <1>1, <1>4, <2>2, <3>3, <5>1, <5>2
      <4>2. CASE d \notin plan.full
        <5>1. gap[d] + poller[p].cron <= Patience(errors)
          BY <1>8, <4>2 DEF WaitInv
        <5> QED
          BY <1>1, <1>4, <1>6, <2>2, <3>3, <4>2, <5>1
      <4> QED
        BY <4>1, <4>2
    <3> QED
      BY <3>2, <3>3
  <2> QED
    BY <2>1, <2>2
<1>17. KeptInv'
  <2>1. kept' \subseteq Window'
    BY <1>3, <1>5 DEF KeptInv
  <2>2. ASSUME errors' = 0, NEW q \in Pollers, NEW d \in kept'
        PROVE  Full(d)' > 0 /\ (Awaits(q, d)' => Full(d)' > poller'[q].cron)
    <3>1. errors = 0 /\ errors' = errors /\ d \in Dates
      BY <1>1, <1>11, <2>2 DEF PollerTypeOK
    <3>2. poller'[q].cron = poller[q].cron /\ poller[q].cron <= CronEvery
      BY <1>4, <3>1 DEF CronInv
    <3>3. CASE d \in plan.full
      BY <1>1, <1>6, <3>1, <3>2, <3>3
    <3>4. CASE d \notin plan.full
      <4>1. d \in kept /\ Full(d)' = Full(d)
        BY <1>3, <1>6, <2>2, <3>1, <3>4
      <4>2. Awaits(q, d)' => Awaits(q, d)
        BY <1>7, <1>8, <3>1, <3>4
      <4> QED
        BY <3>1, <3>2, <4>1, <4>2 DEF KeptInv
    <3> QED
      BY <3>3, <3>4
  <2> QED
    BY <2>1, <2>2 DEF KeptInv
<1> QED
  BY <1>11, <1>12, <1>13, <1>14, <1>15, <1>16, <1>17

LEMMA SpawnStep ==
  ASSUME PollerInv, NEW p \in Pollers, Spawn(p)
  PROVE  PollerInv'
<1>1. /\ poller[p].pc = "spawn" /\ Claim(poller[p].plan) /\ Watch(poller[p].plan)
      /\ SetPoller(p, [poller[p] EXCEPT !.pc = "wait", !.plan = NoPlan])
      /\ UNCHANGED <<counted, released, turns, signal>>
  BY DEF Spawn
<1>2. PICK plan, cron : plan = poller[p].plan /\ cron = poller[p].cron
  OBVIOUS
<1>3. /\ errors \in Nat /\ poller[p] \in PollerState /\ cron \in 0..CronEvery + 1 /\ plan \in Plan
  BY <1>2, PollerNumbers DEF PollerInv
<1>4. /\ generation' \subseteq generation \union {Fresh(plan)}
      /\ errors' \in {errors, errors + 1} /\ errors' \in 0..MaxErrors
  BY <1>1, <1>2, <1>3, PollerAssumption DEF Claim, Error, PollerInv, PollerTypeOK
<1>5. PICK new : new = [poller[p] EXCEPT !.pc = "wait", !.plan = NoPlan]
  OBVIOUS
<1>6. new \in PollerState /\ new.cron = cron /\ new.pc = "wait"
  BY <1>2, <1>3, <1>5 DEF PollerState, NoPlan, Plan
<1>7. Watch(plan) /\ SetPoller(p, new)
  BY <1>1, <1>2, <1>5
<1> QED
  BY <1>1, <1>2, <1>3, <1>4, <1>6, <1>7, SpawnFrame

LEMMA SpawnSomeStep ==
  ASSUME PollerInv, NEW p \in Pollers, SpawnSome(p)
  PROVE  PollerInv'
<1>1. /\ poller[p].pc = "spawn" /\ Error
      /\ generation' = generation \union {Fresh(poller[p].plan)}
      /\ SetPoller(p, [cron |-> CronEvery + 1, pc |-> "wait", plan |-> NoPlan])
      /\ UNCHANGED <<counted, released, turns, signal>>
  BY DEF SpawnSome
<1>2. PICK plan : plan = poller[p].plan
  OBVIOUS
<1>3. plan \in Plan /\ errors \in Nat /\ CronEvery \in Nat
  BY <1>2, PollerNumbers DEF PollerInv
<1>4. PICK l \in Levels, shards \in 0..Cardinality(Dates) :
        Watch([plan EXCEPT ![l] = Earliest(@, shards * ShardSize)])
  BY <1>2 DEF SpawnSome
<1>5. PICK some : some = Earliest(plan[l], shards * ShardSize)
  OBVIOUS
<1>6. some \subseteq plan[l]
  BY <1>5 DEF Earliest
<1>7. PICK spawned : spawned = [plan EXCEPT ![l] = some]
  OBVIOUS
<1>8. spawned \in Plan /\ spawned.full \subseteq plan.full
  BY <1>3, <1>6, <1>7 DEF Plan, Levels
<1>9. Watch(spawned)
  BY <1>4, <1>5, <1>7
<1>10. errors' = errors + 1 /\ errors' \in 0..MaxErrors /\ errors' # errors
  BY <1>1, <1>3, PollerAssumption DEF Error
<1>11. PICK new : new = [cron |-> CronEvery + 1, pc |-> "wait", plan |-> NoPlan]
  OBVIOUS
<1>12. new \in PollerState /\ new.cron = CronEvery + 1 /\ new.pc = "wait" /\ SetPoller(p, new)
  BY <1>1, <1>3, <1>11 DEF PollerState, NoPlan, Plan
<1>13. generation' \subseteq generation \union {Fresh(plan)}
  BY <1>1, <1>2
<1> QED
  BY <1>1, <1>2, <1>8, <1>9, <1>10, <1>12, <1>13, SpawnFrame

LEMMA PollerStep ==
  ASSUME PollerInv, [PollerNext]_pollerVars
  PROVE  PollerInv'
<1>1. CASE ChangeCounts
  BY <1>1, ChangeCountsStep
<1>2. CASE ReleaseDates
  BY <1>2, ReleaseDatesStep
<1>3. CASE PassTick
  BY <1>3, PassTickStep
<1>4. ASSUME NEW p \in Pollers, OnCron(p) \/ OnSignal(p) \/ Skip(p) \/ Spawn(p) \/ SpawnSome(p)
      PROVE  PollerInv'
  BY <1>4, OnCronStep, OnSignalStep, SkipStep, SpawnStep, SpawnSomeStep
<1>5. CASE UNCHANGED pollerVars
  <2>1. PollerTypeOK'
    BY <1>5 DEF pollerVars, PollerInv, PollerTypeOK
  <2> QED
    BY <1>5, <2>1, PollerQuiet DEF pollerVars
<1> QED
  BY <1>1, <1>2, <1>3, <1>4, <1>5 DEF PollerNext

LEMMA PollerKeepsInv == PollerSpec => []PollerInv
<1>1. PollerInit => PollerInv
  BY PollerStart
<1>2. PollerInv /\ [PollerNext]_pollerVars => PollerInv'
  BY PollerStep
<1> QED
  BY <1>1, <1>2, PTL DEF PollerSpec

\* Whatever the phases of the crons and of the key that keeps two replicas
\* from spawning the same plan, the dates of the window that were spawned
\* stay watched without a gap while no call fails, and each failure costs a
\* bounded number of ticks (createPoller, claimGeneration, poller.go:44-47).
THEOREM WindowStaysWatched == PollerSpec => []WatchKept
<1>1. ASSUME PollerInv PROVE WatchKept
  <2>1. PICK p \in Pollers : TRUE
    BY PollerAssumption
  <2>2. ASSUME errors = 0, NEW d \in kept PROVE gap[d] = 0
    <3>1. Full(d) > 0 /\ d \in Dates
      BY <1>1, <2>1, <2>2 DEF PollerInv, KeptInv, PollerTypeOK
    <3> QED
      BY <1>1, <3>1 DEF PollerInv, GapsInWindow
  <2>3. \A d \in Dates : gap[d] <= CronEvery + errors * (MinGeneration + CronEvery)
    BY <1>1 DEF PollerInv, GapsBounded, Patience, Turn
  <2> QED
    BY <2>2, <2>3 DEF WatchKept
<1>2. PollerInv => WatchKept
  BY <1>1
<1> QED
  BY <1>2, PollerKeepsInv, PTL

-----------------------------------------------------------------------------
(* Types of the loops whose invariants above did not need them.            *)

\* A set of numbers that is not empty has a first one.
LEMMA FirstExists ==
  ASSUME NEW S \in SUBSET Nat, S # {}
  PROVE  \E a \in S : \A b \in S : a <= b
<1>1. PICK a \in S : \A b \in S : ~ (<<b, a>> \in OpToRel(<, Nat))
  BY NatLessThanWellFounded, WFMin
<1>2. ASSUME NEW b \in S, b < a PROVE FALSE
  <2>1. <<b, a>> \in Nat \X Nat
    OBVIOUS
  <2>2. <<b, a>>[1] < <<b, a>>[2]
    BY <1>2
  <2>3. <<b, a>> \in {pair \in Nat \X Nat : pair[1] < pair[2]}
    BY <2>1, <2>2, Zenon
  <2> QED
    BY <1>1, <2>3 DEF OpToRel
<1> QED
  BY <1>2

\* The sequences of a finite set's elements.
LEMMA SeqsOfFinite ==
  ASSUME NEW S, IsFiniteSet(S), NEW T \in SUBSET S, NEW s \in SetToSeqs(T)
  PROVE  s \in Seq(S) /\ (T # {} => s # <<>>)
<1>1. Cardinality(T) \in Nat /\ (Cardinality(T) = 0 => T = {})
  BY FS_Subset, FS_CardinalityType, FS_EmptySet
<1>2. s \in [1..Cardinality(T) -> T]
  BY DEF SetToSeqs
<1>3. s \in Seq(S) /\ Len(s) = Cardinality(T)
  BY <1>1, <1>2
<1> QED
  BY <1>1, <1>3

LEMMA RepairTypeStep ==
  ASSUME RepairTypeOK, ParkedForCause', [RepairNext]_repairVars
  PROVE  RepairTypeOK'
<1> USE RepairAssumption DEF RepairTypeOK, ParkedForCause
<1>1. CASE ListMissingTickets
  <2>1. hiccups' = hiccups \/ (hiccups < MaxHiccups /\ hiccups' = hiccups + 1)
    BY <1>1 DEF ListMissingTickets, Hiccup
  <2>2. hiccups' \in 0..MaxHiccups
    BY <2>1
  <2>3. /\ UNCHANGED <<missing, parked>>
        /\ todo' = todo \/ todo' = {b \in missing : Cardinality({c \in missing : c < b}) < RepairLimit}
    BY <1>1 DEF ListMissingTickets, FirstPage
  <2> QED
    BY <2>2, <2>3
<1>2. CASE RepairOne
  <2> PICK b : b = Min(todo)
    OBVIOUS
  <2>1. /\ todo' = todo \ {b}
        /\ IF b \in Unnumbered
             THEN Park(b)
             ELSE \E answer \in Answers(b) :
                    CASE MatchesNotFound(answer) -> Park(b)
                      [] answer.status = "ok" ->
                           (missing' = missing \ {b} /\ UNCHANGED <<parked, hiccups>>) \/ Leave
                      [] OTHER -> Leave
    BY <1>2 DEF RepairOne, DropFromPage
  <2>2. \/ Park(b) \/ Leave
        \/ missing' = missing \ {b} /\ UNCHANGED <<parked, hiccups>>
    <3>1. ASSUME NEW answer, CASE MatchesNotFound(answer) -> Park(b)
                               [] answer.status = "ok" ->
                                    (missing' = missing \ {b} /\ UNCHANGED <<parked, hiccups>>) \/ Leave
                               [] OTHER -> Leave
          PROVE  Park(b) \/ Leave \/ (missing' = missing \ {b} /\ UNCHANGED <<parked, hiccups>>)
      <4>1. CASE MatchesNotFound(answer)
        <5>1. answer.status # "ok"
          BY <4>1 DEF MatchesNotFound
        <5> QED
          BY <3>1, <4>1, <5>1
      <4>2. CASE ~MatchesNotFound(answer)
        BY <3>1, <4>2
      <4> QED
        BY <4>1, <4>2
    <3> QED
      BY <2>1, <3>1
  <2>3. missing' \subseteq missing /\ hiccups' \in 0..MaxHiccups
    BY <2>2 DEF Park, Leave, Hiccup
  <2> QED
    BY <2>1, <2>3
<1>3. CASE UNCHANGED repairVars
  BY <1>3 DEF repairVars
<1> QED
  BY <1>1, <1>2, <1>3 DEF RepairNext

LEMMA RepairTypes == RepairSpec => []RepairTypeOK
<1>1. RepairInit => RepairTypeOK
  BY RepairAssumption DEF RepairInit, RepairTypeOK
<1>2. RepairTypeOK /\ ParkedForCause' /\ [RepairNext]_repairVars => RepairTypeOK'
  BY RepairTypeStep
<1> QED
  BY <1>1, <1>2, ParksForCause, PTL DEF RepairSpec

LEMMA AddedTo ==
  ASSUME NEW list \in Seq(Withdrawals), NEW items \in SUBSET Withdrawals,
         NEW found \in Added(list, items)
  PROVE  found \in Seq(Withdrawals)
<1>1. PICK new \in SetToSeqs(items \ Range(list)) : found = list \o new
  BY DEF Added
<1>2. new \in Seq(Withdrawals)
  BY SeqsOfFinite, WithdrawerAssumption
<1> QED
  BY <1>1, <1>2

LEMMA WithdrawerTypeStep ==
  ASSUME WithdrawerTypeOK, [WithdrawerNext]_withdrawerVars
  PROVE  WithdrawerTypeOK'
<1> USE DEF WithdrawerTypeOK
<1>1. MaxPages \in Nat \ {0} /\ MaxFlips \in Nat /\ MaxOutages \in Nat /\ PageLimit \in Nat \ {0}
  BY WithdrawerAssumption
<1>2. SweepIdle \in SweepState
  BY <1>1 DEF SweepIdle, SweepState
<1>3. ASSUME NEW w \in Withdrawals, RequestWithdrawal(w) \/ Resolve(w) PROVE WithdrawerTypeOK'
  <2>1. withdrawal' \in [Withdrawals -> WithdrawalStatus]
    BY <1>3, BecomesOk DEF RequestWithdrawal, Resolve, WithdrawalStatus
  <2> QED
    BY <1>3, <2>1 DEF RequestWithdrawal, Resolve
<1>4. CASE FlipSwitch
  BY <1>1, <1>4 DEF FlipSwitch
<1>5. ASSUME NEW kind \in {"approve", "reconcile"}, Tick(kind) PROVE WithdrawerTypeOK'
  BY <1>5 DEF Tick
<1>6. ASSUME NEW kind \in {"approve", "reconcile"}, StartSweep(kind) PROVE WithdrawerTypeOK'
  BY <1>6 DEF StartSweep, SweepState
<1>7. CASE Gate
  <2>1. outages' \in 0..MaxOutages
    BY <1>1, <1>7 DEF Gate, Outage
  <2>2. sweep' \in SweepState
    BY <1>2, <1>7 DEF Gate, SweepState
  <2> QED
    BY <1>7, <2>1, <2>2 DEF Gate
<1>8. CASE ListPage
  <2>1. outages' \in 0..MaxOutages
    <3>1. UNCHANGED outages \/ Outage
      BY <1>8 DEF ListPage
    <3> QED
      BY <1>1, <3>1 DEF Outage
  <2>2. sweep' \in SweepState
    <3>1. CASE sweep' = SweepIdle
      BY <1>2, <3>1
    <3>2. CASE sweep' # SweepIdle
      <4>1. PICK items, last, found :
              /\ found \in Added(sweep.found, items)
              /\ items = PageOf(Listing[sweep.pc], sweep.page)
              /\ last = (Cardinality(items) < PageLimit \/ sweep.page + 1 = MaxPages)
              /\ sweep' = [sweep EXCEPT !.found = found,
                                        !.page = IF last THEN 0 ELSE @ + 1,
                                        !.pc = IF last THEN AfterListing[@] ELSE @]
        BY <1>8, <3>2 DEF ListPage
      <4>2. items \subseteq Withdrawals
        BY <4>1 DEF PageOf
      <4>3. found \in Seq(Withdrawals)
        <5>1. sweep.found \in Seq(Withdrawals)
          BY DEF SweepState
        <5> QED
          BY <4>1, <4>2, <5>1, AddedTo
      <4>4. PICK page : page = IF last THEN 0 ELSE sweep.page + 1
        OBVIOUS
      <4>5. page \in 0..MaxPages - 1
        <5>1. sweep.page \in 0..MaxPages - 1
          BY DEF SweepState
        <5>2. last \/ sweep.page + 1 # MaxPages
          BY <4>1
        <5> QED
          BY <1>1, <4>4, <5>1, <5>2
      <4>6. PICK at : at = IF last THEN AfterListing[sweep.pc] ELSE sweep.pc
        OBVIOUS
      <4>7. at \in {"pending", "processing", "reconcilable", "approve", "reconcile"}
        <5>1. sweep.pc \in {"pending", "processing", "reconcilable"}
          BY <1>8 DEF ListPage, Listing
        <5> QED
          BY <4>6, <5>1 DEF AfterListing
      <4>8. sweep' = [sweep EXCEPT !.found = found, !.page = page, !.pc = at]
        BY <4>1, <4>4, <4>6
      <4> QED
        BY <4>3, <4>5, <4>7, <4>8 DEF SweepState
    <3> QED
      BY <3>1, <3>2
  <2> QED
    BY <1>8, <2>1, <2>2 DEF ListPage
<1>9. CASE PostItem
  <2>1. withdrawal' \in [Withdrawals -> WithdrawalStatus]
    BY <1>9, BecomesOk DEF PostItem, Post, Approve, Reconcile, WithdrawalStatus
  <2>2. outages' \in 0..MaxOutages
    BY <1>1, <1>9 DEF PostItem, Post, Outage
  <2>3. sweep' \in SweepState
    <3>1. sweep' = SweepIdle \/ (sweep' = AfterItem /\ sweep.found # <<>>)
      BY <1>9 DEF PostItem
    <3>2. sweep.found \in Seq(Withdrawals)
      BY DEF SweepState
    <3>3. CASE sweep.found # <<>> /\ sweep' = [sweep EXCEPT !.found = Tail(@)]
      <4>1. PICK rest : rest = Tail(sweep.found)
        OBVIOUS
      <4>2. rest \in Seq(Withdrawals)
        BY <3>2, <3>3, <4>1
      <4> QED
        BY <3>3, <4>1, <4>2 DEF SweepState
    <3> QED
      BY <1>2, <3>1, <3>3 DEF AfterItem
  <2> QED
    BY <1>9, <2>1, <2>2, <2>3 DEF PostItem
<1>10. CASE UNCHANGED withdrawerVars
  BY <1>10 DEF withdrawerVars
<1> QED
  BY <1>3, <1>4, <1>5, <1>6, <1>7, <1>8, <1>9, <1>10 DEF WithdrawerNext, SweepStep

LEMMA WithdrawerTypes == WithdrawerSpec => []WithdrawerTypeOK
<1>1. WithdrawerInit => WithdrawerTypeOK
  <2>1. MaxPages \in Nat \ {0} /\ MaxFlips \in Nat /\ MaxOutages \in Nat
    BY WithdrawerAssumption
  <2> QED
    BY <2>1 DEF WithdrawerInit, WithdrawerTypeOK, WithdrawalStatus, SweepIdle, SweepState
<1>2. WithdrawerTypeOK /\ [WithdrawerNext]_withdrawerVars => WithdrawerTypeOK'
  BY WithdrawerTypeStep
<1> QED
  BY <1>1, <1>2, PTL DEF WithdrawerSpec

\* A replica that has a message knows its booking, a run that goes on has one.
RefundsTypeInv ==
  /\ RefundsTypeOK
  /\ \A t \in Terminators : terminator[t].pc # "idle" => terminator[t].b \in Sold
  /\ \A k \in BackfillKinds : backfill[k].pc # "idle" => backfill[k].work # <<>>

\* The part of it a terminator's step can disturb, and that of the backfill.
TerminatorTypes ==
  /\ terminator \in [Terminators -> TerminatorState]
  /\ \A t \in Terminators : terminator[t].pc # "idle" => terminator[t].b \in Sold
BackfillTypes ==
  /\ backfill \in [BackfillKinds -> BackfillState]
  /\ \A k \in BackfillKinds : backfill[k].pc # "idle" => backfill[k].work # <<>>

LEMMA TerminatorTypesKept ==
  ASSUME TerminatorTypes, NEW t \in Terminators, terminator[t].pc # "idle",
         NEW at \in {"quote", "refund", "report"}, TerminatorTo(t, at) \/ TerminatorDone(t)
  PROVE  TerminatorTypes'
<1> USE DEF TerminatorTypes
<1>1. /\ terminator' \in [Terminators -> TerminatorState]
      /\ \A s \in Terminators \ {t} : terminator'[s] = terminator[s]
      /\ terminator'[t].pc \in {"idle", at}
      /\ terminator'[t].pc = at => terminator'[t].b = terminator[t].b
  BY TerminatorMoves
<1> QED
  BY <1>1

LEMMA BackfillSet ==
  ASSUME BackfillTypes, NEW k \in BackfillKinds, NEW new \in BackfillState, SetBackfill(k, new),
         new.pc # "idle" => new.work # <<>>
  PROVE  BackfillTypes'
<1>1. /\ backfill' \in [BackfillKinds -> BackfillState] /\ backfill'[k] = new
      /\ \A l \in BackfillKinds : l # k => backfill'[l] = backfill[l]
  BY DEF SetBackfill, BackfillTypes
<1> QED
  BY <1>1 DEF BackfillTypes

LEMMA BackfillTypesKept ==
  ASSUME BackfillTypes, NEW k \in BackfillKinds, backfill[k].pc # "idle",
         \/ NextItem(k)
         \/ SetBackfill(k, [backfill[k] EXCEPT !.pc = "post"])
         \/ SetBackfill(k, [backfill[k] EXCEPT !.retried = TRUE])
  PROVE  BackfillTypes'
<1>1. backfill[k] \in BackfillState /\ backfill[k].work # <<>>
  BY DEF BackfillTypes
<1>2. BackfillIdle \in BackfillState /\ BackfillIdle.pc = "idle"
  BY DEF BackfillIdle, BackfillState
<1>3. CASE SetBackfill(k, [backfill[k] EXCEPT !.pc = "post"])
  <2>1. PICK new : new = [backfill[k] EXCEPT !.pc = "post"]
    OBVIOUS
  <2>2. new \in BackfillState /\ new.work # <<>>
    BY <1>1, <2>1 DEF BackfillState
  <2> QED
    BY <1>3, <2>1, <2>2, BackfillSet
<1>4. CASE SetBackfill(k, [backfill[k] EXCEPT !.retried = TRUE])
  <2>1. PICK new : new = [backfill[k] EXCEPT !.retried = TRUE]
    OBVIOUS
  <2>2. new \in BackfillState /\ new.work # <<>>
    BY <1>1, <2>1 DEF BackfillState
  <2> QED
    BY <1>4, <2>1, <2>2, BackfillSet
<1>5. CASE NextItem(k)
  <2>1. CASE Len(backfill[k].work) = 1
    BY <1>2, <1>5, <2>1, BackfillSet DEF NextItem
  <2>2. CASE Len(backfill[k].work) # 1
    <3>1. PICK rest : rest = Tail(backfill[k].work)
      OBVIOUS
    <3>2. backfill[k].work \in Seq(Sold)
      BY <1>1 DEF BackfillState
    <3>3. rest \in Seq(Sold) /\ rest # <<>>
      <4>1. Len(backfill[k].work) \in Nat /\ Len(backfill[k].work) # 0
        BY <1>1, <3>2
      <4>2. rest \in Seq(Sold) /\ Len(rest) = Len(backfill[k].work) - 1
        BY <1>1, <3>1, <3>2
      <4>3. Len(rest) # 0
        BY <2>2, <4>1, <4>2
      <4>4. Len(<<>>) = 0
        OBVIOUS
      <4>5. rest # <<>>
        BY <4>3, <4>4, Zenon
      <4> QED
        BY <4>2, <4>5
    <3>4. PICK new : new = [pc |-> "read", work |-> rest, retried |-> FALSE]
      OBVIOUS
    <3>5. new \in BackfillState /\ new.work # <<>> /\ SetBackfill(k, new)
      BY <1>5, <2>2, <3>1, <3>3, <3>4 DEF BackfillState, NextItem
    <3> QED
      BY <3>5, BackfillSet
  <2> QED
    BY <2>1, <2>2
<1> QED
  BY <1>3, <1>4, <1>5

LEMMA StartBackfillTypes ==
  ASSUME RefundsTypeInv, NEW k \in BackfillKinds, StartBackfill(k)
  PROVE  BackfillTypes'
<1>1. PICK all : all = Unbooked(k)
  OBVIOUS
<1>2. all \subseteq Sold /\ all # {} /\ all \subseteq Nat
  BY <1>1, RefundsAssumption DEF StartBackfill, Unbooked, RefundsTypeInv, RefundsTypeOK
<1>3. PICK work \in SetToSeqs(First(all, BackfillMax)) :
        SetBackfill(k, [pc |-> "read", work |-> work, retried |-> FALSE])
  BY <1>1 DEF StartBackfill
<1>4. First(all, BackfillMax) # {}
  <2>1. PICK a \in all : \A b \in all : a <= b
    BY <1>2, FirstExists
  <2>2. {c \in all : c < a} = {}
    <3>1. ASSUME NEW c \in all PROVE ~(c < a)
      <4>1. a <= c /\ a \in Nat /\ c \in Nat
        BY <1>2, <2>1
      <4> QED
        BY <4>1
    <3> QED
      BY <3>1, Zenon
  <2>3. Cardinality({c \in all : c < a}) < BackfillMax
    BY <2>2, FS_EmptySet, RefundsAssumption
  <2> QED
    BY <2>1, <2>3 DEF First
<1>5. First(all, BackfillMax) \subseteq Sold
  BY <1>2 DEF First
<1>6. work \in Seq(Sold) /\ work # <<>>
  BY <1>3, <1>4, <1>5, SeqsOfFinite, RefundsAssumption
<1>7. PICK new : new = [pc |-> "read", work |-> work, retried |-> FALSE]
  OBVIOUS
<1>8. new \in BackfillState /\ new.work # <<>> /\ SetBackfill(k, new)
  BY <1>3, <1>6, <1>7 DEF BackfillState
<1> QED
  BY <1>8, BackfillSet DEF RefundsTypeInv, RefundsTypeOK, BackfillTypes

LEMMA RefundsTypeStep ==
  ASSUME RefundsTypeInv, [RefundsNext]_refundsVars
  PROVE  RefundsTypeInv'
<1> DEFINE Rest == /\ terminated \subseteq Sold /\ costed \subseteq Sold /\ givenBack \subseteq Sold
                   /\ refund \in [Sold -> {"none", "reported", "backfilled"}]
                   /\ terminations \in Seq(Sold)
                   /\ dropped \subseteq Sold /\ mishaps \in 0..MaxMishaps
<1>1. RefundsTypeInv <=> Rest /\ TerminatorTypes /\ BackfillTypes
  BY DEF RefundsTypeInv, RefundsTypeOK, TerminatorTypes, BackfillTypes
<1>2. RefundsTypeInv' <=> Rest' /\ TerminatorTypes' /\ BackfillTypes'
  BY DEF RefundsTypeInv, RefundsTypeOK, TerminatorTypes, BackfillTypes
<1>3. MaxMishaps \in Nat
  BY RefundsAssumption
<1>4. ASSUME UNCHANGED terminator PROVE TerminatorTypes'
  BY <1>1, <1>4 DEF TerminatorTypes
<1>5. ASSUME UNCHANGED backfill PROVE BackfillTypes'
  BY <1>1, <1>5 DEF BackfillTypes
<1>6. ASSUME NEW b \in Sold, TerminateBooking(b) PROVE RefundsTypeInv'
  <2>1. Rest' /\ UNCHANGED <<terminator, backfill>>
    BY <1>1, <1>6 DEF TerminateBooking
  <2> QED
    BY <1>2, <1>4, <1>5, <2>1
<1>7. ASSUME NEW t \in Terminators, TerminatorStep(t) \/ DropTermination(t) PROVE RefundsTypeInv'
  <2>1. terminator[t] \in TerminatorState /\ (terminator[t].pc # "idle" => terminator[t].b \in Sold)
    BY <1>1 DEF TerminatorTypes
  <2>2. UNCHANGED backfill
    BY <1>7 DEF TerminatorStep, PopTermination, Quote, Refund, ReportRefund, DropTermination
  <2>3. CASE PopTermination(t)
    <3>1. /\ Head(terminations) \in Sold /\ terminations' \in Seq(Sold)
          /\ terminator' = [terminator EXCEPT ![t] = [pc |-> "quote", b |-> Head(terminations)]]
          /\ UNCHANGED <<terminated, costed, refund, givenBack, dropped, mishaps>>
      BY <1>1, <2>3 DEF PopTermination
    <3>2. Rest'
      BY <1>1, <3>1
    <3>3. PICK b \in Sold : terminator' = [terminator EXCEPT ![t] = [pc |-> "quote", b |-> b]]
      BY <3>1
    <3>4. TerminatorTypes'
      BY <1>1, <3>3 DEF TerminatorTypes, TerminatorState
    <3> QED
      BY <1>2, <1>5, <2>2, <3>2, <3>4
  <2>4. CASE Quote(t)
    <3>1. Rest'
      BY <1>1, <2>4 DEF Quote
    <3>2. TerminatorTypes'
      BY <1>1, <2>4, TerminatorTypesKept DEF Quote
    <3> QED
      BY <1>2, <1>5, <2>2, <3>1, <3>2
  <2>5. CASE Refund(t)
    <3>1. /\ terminator[t].pc = "refund" /\ givenBack' = givenBack \union {terminator[t].b}
          /\ UNCHANGED mishaps \/ Mishap
          /\ TerminatorTo(t, "report") \/ TerminatorDone(t)
          /\ UNCHANGED <<terminated, costed, refund, terminations, dropped>>
      BY <2>5 DEF Refund, Refunded
    <3>2. Rest'
      BY <1>1, <1>3, <2>1, <3>1 DEF Mishap
    <3>3. TerminatorTypes'
      BY <1>1, <3>1, TerminatorTypesKept
    <3> QED
      BY <1>2, <1>5, <2>2, <3>2, <3>3
  <2>6. CASE ReportRefund(t)
    <3>1. Rest'
      BY <1>1, <2>6 DEF ReportRefund
    <3>2. TerminatorTypes'
      BY <1>1, <2>6, TerminatorTypesKept DEF ReportRefund
    <3> QED
      BY <1>2, <1>5, <2>2, <3>1, <3>2
  <2>7. CASE DropTermination(t)
    <3>1. /\ terminator[t].pc # "idle" /\ Mishap /\ TerminatorDone(t)
          /\ dropped' \subseteq dropped \union {terminator[t].b}
          /\ UNCHANGED <<terminated, costed, refund, terminations, givenBack>>
      BY <2>7 DEF DropTermination
    <3>2. Rest'
      BY <1>1, <1>3, <2>1, <3>1 DEF Mishap
    <3>3. TerminatorTypes'
      BY <1>1, <3>1, TerminatorTypesKept
    <3> QED
      BY <1>2, <1>5, <2>2, <3>2, <3>3
  <2> QED
    BY <1>7, <2>3, <2>4, <2>5, <2>6, <2>7 DEF TerminatorStep
<1>8. ASSUME NEW k \in BackfillKinds, BackfillStep(k) PROVE RefundsTypeInv'
  <2>1. UNCHANGED <<terminated, terminations, givenBack, terminator, dropped>>
    BY <1>8 DEF BackfillStep, StartBackfill, ReadItem, PostAmount
  <2>2. UNCHANGED mishaps \/ Mishap
    BY <1>8 DEF BackfillStep, StartBackfill, ReadItem, PostAmount
  <2>3. CASE StartBackfill(k)
    <3>1. Rest'
      BY <1>1, <2>1, <2>3 DEF StartBackfill
    <3> QED
      BY <1>2, <1>4, <2>1, <2>3, <3>1, StartBackfillTypes
  <2>4. CASE ReadItem(k)
    <3>1. Rest'
      BY <1>1, <1>3, <2>1, <2>2, <2>4 DEF ReadItem, Mishap
    <3>2. BackfillTypes'
      BY <1>1, <2>4, BackfillTypesKept DEF ReadItem
    <3> QED
      BY <1>2, <1>4, <2>1, <3>1, <3>2
  <2>5. CASE PostAmount(k)
    <3>1. Item(k) \in Sold
      <4>1. backfill[k].work \in Seq(Sold) /\ backfill[k].work # <<>>
        BY <1>1, <2>5 DEF PostAmount, BackfillTypes, BackfillState
      <4> QED
        BY <4>1 DEF Item
    <3>2. /\ costed' = costed \union {Item(k)} \/ UNCHANGED costed
          /\ refund' = [refund EXCEPT ![Item(k)] = "backfilled"] \/ UNCHANGED refund
      BY <2>5 DEF PostAmount
    <3>3. Rest'
      BY <1>1, <1>3, <2>1, <2>2, <3>1, <3>2 DEF Mishap
    <3>4. BackfillTypes'
      BY <1>1, <2>5, BackfillTypesKept DEF PostAmount
    <3> QED
      BY <1>2, <1>4, <2>1, <3>3, <3>4
  <2> QED
    BY <1>8, <2>3, <2>4, <2>5 DEF BackfillStep
<1>9. CASE UNCHANGED refundsVars
  <2>1. Rest' /\ UNCHANGED <<terminator, backfill>>
    BY <1>1, <1>9 DEF refundsVars
  <2> QED
    BY <1>2, <1>4, <1>5, <2>1
<1> QED
  BY <1>6, <1>7, <1>8, <1>9 DEF RefundsNext

LEMMA RefundsTypes == RefundsSpec => []RefundsTypeOK
<1>1. RefundsInit => RefundsTypeInv
  BY RefundsAssumption DEF RefundsInit, RefundsTypeInv, RefundsTypeOK, TerminatorIdle,
     TerminatorState, BackfillIdle, BackfillState
<1>2. RefundsTypeInv /\ [RefundsNext]_refundsVars => RefundsTypeInv'
  BY RefundsTypeStep
<1>3. RefundsTypeInv => RefundsTypeOK
  BY DEF RefundsTypeInv
<1> QED
  BY <1>1, <1>2, <1>3, PTL DEF RefundsSpec

LEMMA PollerTypes == PollerSpec => []PollerTypeOK
<1>1. PollerInv => PollerTypeOK
  BY DEF PollerInv
<1> QED
  BY <1>1, PollerKeepsInv, PTL

\* The trips.
LEMMA EnricherOk ==
  ASSUME TripTypeOK, NEW e \in Enrichers, NEW new \in EnricherState, SetEnricher(e, new)
  PROVE  enricher' \in [Enrichers -> EnricherState]
BY DEF TripTypeOK, SetEnricher

LEMMA TripTypeStep ==
  ASSUME TripTypeOK, [TripNext]_tripVars
  PROVE  TripTypeOK'
<1> USE DEF TripTypeOK, demandOfTrips, tripKeys, readerVars
<1>1. /\ MaxToken \in Nat \ {0} /\ MaxDemands \in Nat /\ MaxSlips \in Nat /\ EnrichMaxLen \in Nat \ {0}
  BY TripStoreAssumption
<1>2. EnricherIdle \in EnricherState
  BY <1>1 DEF EnricherIdle, EnricherState, Tokens
<1>3. CASE ChangeDemand
  BY <1>1, <1>3 DEF ChangeDemand
<1>4. CASE ReplaceLogin
  BY <1>1, <1>4 DEF ReplaceLogin
<1>5. ASSUME NEW e \in Enrichers, EnricherStep(e) \/ EnricherDies(e) PROVE TripTypeOK'
  <2>1. enricher[e] \in EnricherState
    OBVIOUS
  <2>2. /\ demand' \subseteq Trips /\ demands' \in 0..MaxDemands /\ liveLogin' \in 1..MaxToken
        /\ loginSyncer' \in [pc : {"wait", "user", "store"}, token : Tokens] /\ loginCache' \in Login
    BY <1>5 DEF EnricherStep, Enrich, LogIn, PullCache, Fetch, WriteUserData, WriteStore,
       PingReserver, EnricherDies
  <2>3. slips' \in 0..MaxSlips
    <3>1. UNCHANGED slips \/ Slip
      BY <1>5 DEF EnricherStep, Enrich, LogIn, PullCache, Fetch, WriteUserData, WriteStore,
         PingReserver, EnricherDies
    <3> QED
      BY <1>1, <3>1 DEF Slip
  <2>4. storedLogin' \in Tokens /\ store' \subseteq Trips
    BY <1>5, <2>1 DEF EnricherStep, Enrich, LogIn, PullCache, Fetch, WriteUserData, WriteStore,
       PingReserver, EnricherDies, EnricherState
  <2>5. enrichPings' \in 0..EnrichMaxLen
    <3>1. UNCHANGED enrichPings \/ (enrichPings < EnrichMaxLen /\ enrichPings' = enrichPings + 1)
      BY <1>5 DEF EnricherStep, Enrich, LogIn, PullCache, Fetch, WriteUserData, WriteStore,
         PingReserver, EnricherDies
    <3> QED
      BY <1>1, <3>1
  <2>6. \E new \in EnricherState : SetEnricher(e, new)
    <3>1. CASE Enrich(e)
      <4>1. PICK new : new = [EnricherIdle EXCEPT !.pc = "login", !.slots = demand]
        OBVIOUS
      <4>2. new \in EnricherState
        BY <1>2, <4>1 DEF EnricherState
      <4>3. SetEnricher(e, new)
        BY <3>1, <4>1 DEF Enrich
      <4> QED
        BY <4>2, <4>3
    <3>2. CASE LogIn(e)
      <4>1. PICK given \in 1..liveLogin :
              SetEnricher(e, [enricher[e] EXCEPT !.pc = "pull", !.token = given])
        BY <3>2 DEF LogIn
      <4>2. PICK new : new = [enricher[e] EXCEPT !.pc = "pull", !.token = given]
        OBVIOUS
      <4>3. given \in Tokens
        BY <1>1 DEF Tokens
      <4>4. new \in EnricherState
        BY <2>1, <4>2, <4>3 DEF EnricherState
      <4>5. SetEnricher(e, new)
        BY <4>1, <4>2
      <4> QED
        BY <4>4, <4>5
    <3>3. CASE PullCache(e)
      <4>1. PICK cached \in SUBSET Trips, seed \in SUBSET Trips : Partition(e, cached, seed)
        BY <2>1, <3>3 DEF PullCache, EnricherState
      <4>2. PICK slots : slots = enricher[e].slots
        OBVIOUS
      <4>3. CASE slots = {}
        BY <1>2, <4>1, <4>2, <4>3 DEF Partition
      <4>4. CASE slots # {}
        <5>1. PICK new : new = [enricher[e] EXCEPT !.pc = "fetch", !.slots = slots \ cached,
                                                   !.trips = seed, !.existing = slots \intersect cached]
          OBVIOUS
        <5>2. slots \subseteq Trips
          BY <2>1, <4>2 DEF EnricherState
        <5>3. new \in EnricherState
          BY <2>1, <5>1, <5>2 DEF EnricherState
        <5>4. SetEnricher(e, new)
          BY <4>1, <4>2, <4>4, <5>1 DEF Partition
        <5> QED
          BY <5>3, <5>4
      <4> QED
        BY <4>3, <4>4
    <3>4. CASE Fetch(e)
      <4>1. PICK fetched \in SUBSET Trips :
              SetEnricher(e, [enricher[e] EXCEPT !.pc = "user", !.slots = {}, !.trips = @ \union fetched])
        BY <2>1, <3>4 DEF Fetch, EnricherState
      <4>2. PICK trips : trips = enricher[e].trips \union fetched
        OBVIOUS
      <4>3. trips \subseteq Trips
        BY <2>1, <4>2 DEF EnricherState
      <4>4. PICK new : new = [enricher[e] EXCEPT !.pc = "user", !.slots = {}, !.trips = trips]
        OBVIOUS
      <4>5. new \in EnricherState /\ SetEnricher(e, new)
        BY <2>1, <4>1, <4>2, <4>3, <4>4 DEF EnricherState
      <4> QED
        BY <4>5
    <3>5. CASE WriteUserData(e)
      BY <2>1, <3>5 DEF WriteUserData, EnricherTo, EnricherState
    <3>6. CASE WriteStore(e)
      BY <2>1, <3>6 DEF WriteStore, EnricherTo, EnricherState
    <3>7. CASE PingReserver(e)
      <4>1. PICK existing : existing = enricher[e].existing
        OBVIOUS
      <4>2. CASE existing = {}
        BY <1>2, <3>7, <4>1, <4>2 DEF PingReserver
      <4>3. CASE existing # {}
        <5>1. PICK new : new = [enricher[e] EXCEPT !.pc = "fetch", !.existing = {}, !.slots = existing]
          OBVIOUS
        <5>2. new \in EnricherState
          BY <2>1, <4>1, <5>1 DEF EnricherState
        <5>3. SetEnricher(e, new)
          BY <3>7, <4>1, <4>3, <5>1 DEF PingReserver
        <5> QED
          BY <5>2, <5>3
      <4> QED
        BY <4>2, <4>3
    <3>8. CASE EnricherDies(e)
      BY <1>2, <3>8 DEF EnricherDies
    <3> QED
      BY <1>5, <3>1, <3>2, <3>3, <3>4, <3>5, <3>6, <3>7, <3>8 DEF EnricherStep
  <2>7. enricher' \in [Enrichers -> EnricherState]
    BY <2>6, EnricherOk
  <2> QED
    BY <2>2, <2>3, <2>4, <2>5, <2>7
<1>6. CASE ReadPing
  BY <1>1, <1>6 DEF ReadPing, Tokens
<1>7. CASE ReadUserData
  BY <1>1, <1>7 DEF ReadUserData, Tokens
<1>8. CASE GiveLogin
  BY <1>1, <1>8 DEF GiveLogin, Tokens, Login
<1>9. CASE ReadFails
  BY <1>1, <1>9 DEF ReadFails, Slip, Tokens
<1>10. CASE ReserverDies
  BY <1>1, <1>10 DEF ReserverDies, Slip, Tokens, Login
<1>11. CASE UNCHANGED tripVars
  BY <1>11 DEF tripVars
<1> QED
  BY <1>3, <1>4, <1>5, <1>6, <1>7, <1>8, <1>9, <1>10, <1>11 DEF TripNext, LoginSyncerStep

LEMMA TripTypes == TripSpec => []TripTypeOK
<1>1. TripInit => TripTypeOK
  BY TripStoreAssumption DEF TripInit, TripTypeOK, Tokens, Login, EnricherIdle, EnricherState
<1>2. TripTypeOK /\ [TripNext]_tripVars => TripTypeOK'
  BY TripTypeStep
<1> QED
  BY <1>1, <1>2, PTL DEF TripSpec

-----------------------------------------------------------------------------
(* Session: the proofs of SharedSession, at the instance Background runs.  *)

SP == INSTANCE SessionProofs WITH LeaseExpires <- TRUE

\* Both instances are of the same module.
LEMMA SameSession ==
  /\ Sess!Init => SP!Init
  /\ [Sess!Next]_(Sess!vars) => [SP!Next]_(SP!vars)
  /\ SP!TypeOK => Sess!TypeOK
<1>1. Sess!Init => SP!Init
  BY DEF
     Sess!Init, SP!Init, Sess!SessionInit, SP!SessionInit, Sess!NoJob, SP!NoJob,
     Sess!NoToken, SP!NoToken
<1>2. [Sess!Next]_(Sess!vars) => [SP!Next]_(SP!vars)
  BY DEF
     Sess!sessionVars, SP!sessionVars, Sess!redisVars, SP!redisVars, Sess!ktmbVars,
     SP!ktmbVars, Sess!NoToken, SP!NoToken, Sess!Token, SP!Token, Sess!Critical,
     SP!Critical, Sess!SessionPc, SP!SessionPc, Sess!Goto, SP!Goto, Sess!Take, SP!Take,
     Sess!Fault, SP!Fault, Sess!Cached, SP!Cached, Sess!Ask, SP!Ask, Sess!TryLock,
     SP!TryLock, Sess!Peek, SP!Peek, Sess!Recheck, SP!Recheck, Sess!KtmbLogin, SP!KtmbLogin,
     Sess!StoreToken, SP!StoreToken, Sess!ReleaseLock, SP!ReleaseLock, Sess!InvalidateRead,
     SP!InvalidateRead, Sess!InvalidateDelete, SP!InvalidateDelete, Sess!Fail, SP!Fail,
     Sess!Crash, SP!Crash, Sess!LeaseEnd, SP!LeaseEnd, Sess!Kill, SP!Kill, Sess!LoginStep,
     SP!LoginStep, Sess!storeVars, SP!storeVars, Sess!vars, SP!vars, Sess!Pc, SP!Pc,
     Sess!JobState, SP!JobState, Sess!NoJob, SP!NoJob, Sess!ReadSignals, SP!ReadSignals,
     Sess!ReadLogin, SP!ReadLogin, Sess!RemoveStale, SP!RemoveStale, Sess!CompareAndDelete,
     SP!CompareAndDelete, Sess!Ensure, SP!Ensure, Sess!SpawnerStep, SP!SpawnerStep,
     Sess!EnricherWrite, SP!EnricherWrite, Sess!WriteTopUp, SP!WriteTopUp,
     Sess!WriteRotated, SP!WriteRotated, Sess!EnricherStep, SP!EnricherStep, Sess!Done,
     SP!Done, Sess!Invalidate, SP!Invalidate, Sess!SetJob, SP!SetJob, Sess!LoadJob,
     SP!LoadJob, Sess!Rejected, SP!Rejected, Sess!Signal, SP!Signal, Sess!EndJob, SP!EndJob,
     Sess!JobStep, SP!JobStep, Sess!ExpireSignals, SP!ExpireSignals, Sess!ClientStep,
     SP!ClientStep, Sess!SessionNext, SP!SessionNext, Sess!Next, SP!Next
<1>3. SP!TypeOK => Sess!TypeOK
  BY DEF
     Sess!TypeOK, SP!TypeOK, Sess!Token, SP!Token, Sess!NoToken, SP!NoToken, Sess!Pc, SP!Pc,
     Sess!SessionPc, SP!SessionPc, Sess!Critical, SP!Critical, Sess!JobState, SP!JobState
<1> QED
  BY <1>1, <1>2, <1>3

LEMMA BackgroundSession == Sess!Spec => []Sess!TypeOK
<1>1. SP!Spec => []SP!TypeOK
  BY SP!SessionTypes, BackgroundAssumption
<1> QED
  BY <1>1, SameSession, PTL DEF Sess!Spec, SP!Spec

-----------------------------------------------------------------------------
(* Background.                                                             *)

LEMMA LoopsStart ==
  Init => /\ RaceInit /\ ScanInit /\ RepairInit /\ WithdrawerInit /\ RefundsInit /\ TripInit
          /\ PollerInit /\ Sess!Init /\ running \in Loops
BY DEF Init

\* A step is one of a loop, and the others rest.
LEMMA LoopsStep ==
  ASSUME [Next]_vars
  PROVE  /\ [RaceNext]_raceVars /\ [ScanNext]_scanVars /\ [RepairNext]_repairVars
         /\ [WithdrawerNext]_withdrawerVars /\ [RefundsNext]_refundsVars /\ [TripNext]_tripVars
         /\ [PollerNext]_pollerVars /\ [Sess!Next]_(Sess!vars) /\ UNCHANGED running
<1>1. sessVars' = sessVars => Sess!vars' = Sess!vars
  BY DEF sessVars, Sess!vars, Sess!sessionVars, Sess!storeVars
<1>2. CASE ReservationRuns
  BY <1>1, <1>2 DEF ReservationRuns, RaceOn, RaceNext
<1>3. CASE ScanRuns
  BY <1>1, <1>3 DEF ScanRuns
<1>4. CASE RepairRuns
  BY <1>1, <1>4 DEF RepairRuns, RepairOn
<1>5. CASE WithdrawerRuns
  BY <1>1, <1>5 DEF WithdrawerRuns
<1>6. CASE RefundsRun
  BY <1>1, <1>6 DEF RefundsRun
<1>7. CASE TripsRun
  BY <1>1, <1>7 DEF TripsRun
<1>8. CASE PollerRuns
  BY <1>1, <1>8 DEF PollerRuns
<1>9. CASE SessionRuns
  BY <1>9 DEF SessionRuns
<1>10. CASE UNCHANGED vars
  BY <1>1, <1>10 DEF vars
<1> QED
  BY <1>2, <1>3, <1>4, <1>5, <1>6, <1>7, <1>8, <1>9, <1>10 DEF Next

(* Background runs each loop as its own module specifies it: the loops     *)
(* have no variable in common.                                             *)
THEOREM BackgroundIsEach ==
  Spec => /\ RaceSpec /\ ScanSpec /\ RepairSpec /\ WithdrawerSpec /\ RefundsSpec /\ TripSpec
          /\ PollerSpec /\ Sess!Spec
<1> QED
  BY LoopsStart, LoopsStep, PTL
     DEF Spec, RaceSpec, ScanSpec, RepairSpec, WithdrawerSpec, RefundsSpec, TripSpec, PollerSpec,
         Sess!Spec

(* Every variable of the loops has its type: a page fits its listing, a    *)
(* replica that holds a message has a booking, a spawned plan is of dates, *)
(* and a death signal is of a token.                                       *)
THEOREM BackgroundTypeCorrect == Spec => []BackgroundTypeOK
<1>1. Spec => [](running \in Loops)
  <2>1. running \in Loops /\ [Next]_vars => (running \in Loops)'
    BY LoopsStep
  <2> QED
    BY <2>1, LoopsStart, PTL DEF Spec
<1>2. /\ RaceTypeOK /\ ScanTypeOK /\ RepairTypeOK /\ WithdrawerTypeOK /\ RefundsTypeOK /\ TripTypeOK
      /\ PollerTypeOK /\ Sess!TypeOK /\ running \in Loops
      => BackgroundTypeOK
  BY DEF BackgroundTypeOK
<1> QED
  BY <1>1, <1>2, BackgroundIsEach, RaceTypeCorrect, ScanTypeCorrect, RepairTypes, WithdrawerTypes,
     RefundsTypes, TripTypes, PollerTypes, BackgroundSession, PTL

(* What holds of a loop by itself holds of it in Background.               *)
THEOREM BackgroundSafe ==
  Spec => /\ [](NeverBlocked /\ SignalKept /\ AbsentIsDefinitive /\ CleanListDecided)
          /\ [](ParkedForCause /\ ReportedRefundIsMade /\ WatchKept)
          /\ SweepsUnderSwitch
<1> QED
  BY BackgroundIsEach, ReplicasNeverBlock, WinnersSignalKept, AbsentOnlyIfAbsent,
     CleanListIsDecided, ParksForCause, ReportedRefundsAreMade, WindowStaysWatched,
     PayoutsUnderSwitch, PTL
=============================================================================
