----------------------------- MODULE Background -----------------------------
(***************************************************************************)
(* The loops beside the purchase and its recovery: the reserver's replicas,*)
(* the recoverer's ticket scan and repair, the withdrawer, the terminator  *)
(* and the backfill, the enricher with the login syncer, the poller, and   *)
(* the shared session.  Their modules have no variable in common, so that  *)
(* every interleaving of them projects to a behaviour of each; here one of *)
(* them runs, chosen at the start, and the others rest.                    *)
(***************************************************************************)
EXTENDS Reservation, TicketScan, Repair, Withdrawer, Refunds, TripStore, Poller

CONSTANTS
  Clients, NoClient, Spawner, Enricher, Invalidators, Jobs,   \* of SharedSession
  MaxLogins, MaxKills, MaxFaults

ASSUME BackgroundAssumption ==
  /\ NoClient \notin Clients /\ {MaxLogins, MaxKills, MaxFaults} \subseteq Nat
  /\ Spawner \in Clients /\ Enricher \in Clients \ {Spawner}
  /\ Invalidators \subseteq Clients \ {Spawner, Enricher}

VARIABLES login, lock, live, issued, kills, faults, pc, token,   \* of SharedSession
          userData, signals, prints, job

VARIABLE running   \* the loop that runs

Sess == INSTANCE SharedSession WITH LeaseExpires <- TRUE
sessVars == <<login, lock, live, issued, kills, faults, pc, token, userData, signals, prints, job>>

Loops == {"reservation", "scan", "repair", "withdrawer", "refunds", "trips", "poller", "session"}

vars == <<raceVars, scanVars, repairVars, withdrawerVars, refundsVars, tripVars, pollerVars,
          sessVars, running>>

Is(loop) == running = loop

\* Of the loops that rest, one of the initial states will do.
Init ==
  /\ running \in Loops
  /\ RaceInit /\ RepairInit /\ RefundsInit /\ TripInit /\ Sess!Init
  /\ IF Is("scan") THEN ScanInit ELSE ScanInit /\ rows = <<>>
  /\ WithdrawerInit /\ (Is("withdrawer") \/ ~switch)
  /\ PollerInit /\ (Is("poller") \/ \A p \in Pollers : poller[p].cron = 1)

-----------------------------------------------------------------------------

RaceOn(r) == Is("reservation") /\ ReplicaStep(r)
RepairOn == Is("repair") /\ RepairNext
StartSweepOn(kind) == Is("withdrawer") /\ StartSweep(kind)
SweepOn == Is("withdrawer") /\ SweepStep
TickOn(kind) == Is("withdrawer") /\ Tick(kind)
TerminatorOn(t) == Is("refunds") /\ TerminatorStep(t)
BackfillOn(k) == Is("refunds") /\ BackfillStep(k)
EnricherOn(e) == Is("trips") /\ EnricherStep(e)
LoginSyncerOn == Is("trips") /\ LoginSyncerStep

\* The session's steps that are fair.
ClientOn(c) == Is("session") /\ Sess!ClientStep(c) /\ UNCHANGED <<userData, signals, prints, job>>
SpawnerOn == Is("session") /\ Sess!SpawnerStep
LoginsOn == Is("session") /\ Sess!EnricherStep
LeaseEndOn == Is("session") /\ Sess!LeaseEnd /\ UNCHANGED <<userData, signals, prints, job>>
JobOn(j) == Is("session") /\ Sess!JobStep(j)
LoadJobOn(j) == Is("session") /\ Sess!LoadJob(j)
RejectedOn(j) == Is("session") /\ Sess!Rejected(j)

ReservationRuns ==
  /\ \E r \in Replicas : RaceOn(r)
  /\ UNCHANGED <<scanVars, repairVars, withdrawerVars, refundsVars, tripVars, pollerVars, sessVars, running>>

ScanRuns ==
  /\ Is("scan") /\ ScanNext
  /\ UNCHANGED <<raceVars, repairVars, withdrawerVars, refundsVars, tripVars, pollerVars, sessVars, running>>

RepairRuns ==
  /\ RepairOn
  /\ UNCHANGED <<raceVars, scanVars, withdrawerVars, refundsVars, tripVars, pollerVars, sessVars, running>>

WithdrawerRuns ==
  /\ Is("withdrawer") /\ WithdrawerNext
  /\ UNCHANGED <<raceVars, scanVars, repairVars, refundsVars, tripVars, pollerVars, sessVars, running>>

RefundsRun ==
  /\ Is("refunds") /\ RefundsNext
  /\ UNCHANGED <<raceVars, scanVars, repairVars, withdrawerVars, tripVars, pollerVars, sessVars, running>>

TripsRun ==
  /\ Is("trips") /\ TripNext
  /\ UNCHANGED <<raceVars, scanVars, repairVars, withdrawerVars, refundsVars, pollerVars, sessVars, running>>

PollerRuns ==
  /\ Is("poller") /\ PollerNext
  /\ UNCHANGED <<raceVars, scanVars, repairVars, withdrawerVars, refundsVars, tripVars, sessVars, running>>

SessionRuns ==
  /\ Is("session") /\ Sess!Next
  /\ UNCHANGED <<raceVars, scanVars, repairVars, withdrawerVars, refundsVars, tripVars, pollerVars, running>>

Next ==
  \/ ReservationRuns \/ ScanRuns \/ RepairRuns \/ WithdrawerRuns
  \/ RefundsRun \/ TripsRun \/ PollerRuns \/ SessionRuns

Spec == Init /\ [][Next]_vars

(* Goroutines and processes run on, and are restarted; the crons tick, and *)
(* the withdrawer's select takes either of its channels again and again;   *)
(* somebody runs the refund backfill when there is something to do.  The   *)
(* spawner and the enricher are endless loops whose calls time out, a dead *)
(* owner's lock expires, and a Job asks KTMB again and again until its     *)
(* deadline, so that it notices a dead token.                              *)
Fairness ==
  /\ \A r \in Replicas : WF_raceVars(RaceOn(r))
  /\ WF_repairVars(RepairOn)
  /\ WF_withdrawerVars(SweepOn)
  /\ \A kind \in {"approve", "reconcile"} :
       WF_withdrawerVars(TickOn(kind)) /\ SF_withdrawerVars(StartSweepOn(kind))
  /\ \A t \in Terminators : WF_refundsVars(TerminatorOn(t))
  /\ \A k \in BackfillKinds : WF_refundsVars(BackfillOn(k))
  /\ \A e \in Enrichers : WF_tripVars(EnricherOn(e))
  /\ WF_tripVars(LoginSyncerOn)
  /\ \A c \in Clients : WF_sessVars(ClientOn(c))
  /\ WF_sessVars(SpawnerOn) /\ WF_sessVars(LoginsOn) /\ WF_sessVars(LeaseEndOn)
  /\ \A j \in Jobs : WF_sessVars(JobOn(j)) /\ SF_sessVars(LoadJobOn(j)) /\ SF_sessVars(RejectedOn(j))

FairSpec == Spec /\ Fairness

BackgroundTypeOK ==
  /\ RaceTypeOK /\ ScanTypeOK /\ RepairTypeOK /\ WithdrawerTypeOK
  /\ RefundsTypeOK /\ TripTypeOK /\ PollerTypeOK /\ Sess!TypeOK
  /\ running \in Loops

(* What one page of the repair leaves is picked up by a later sweep        *)
(* (repair.go:137-140): every ticket KTMB can print is attached, although  *)
(* bookings that nothing can repair, fewer than a page, stay listed first. *)
BacklogRepaired == <>[](Is("repair") => missing \subseteq Unnumbered \union Unknown)

(* "Leaving zinc refund missing for backfill" (terminator.go:136): the     *)
(* refund of a terminated booking is on zinc's record in the end, whichever*)
(* call failed after the refund, and although bookings without an amount   *)
(* are listed before it, fewer than --max; unless its termination was      *)
(* dropped before the refund, which nothing makes up for.  So is the cost  *)
(* of every booking that stays Completed, but for those without an amount. *)
MoneyRecorded ==
  /\ <>[](\A b \in (Exposed \intersect terminated) \ dropped :
            b \in givenBack /\ refund[b] # "none")
  /\ <>[](Is("refunds") => Unbooked("cost") \subseteq Priceless)

(* Once KTMB stops ending sessions, the probers' userData becomes, and     *)
(* stays, the token KTMB accepts, although signals and the lock's lease    *)
(* expire and the enricher writes an old token back (store.go:100-144).     *)
SessionRecovers == <>[](Is("session") => userData # Sess!NoToken /\ userData = live)
=============================================================================
