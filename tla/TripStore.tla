----------------------------- MODULE TripStore ------------------------------
(***************************************************************************)
(* How the reserver gets the login and the trip data it reserves with: the *)
(* replicas of the enricher (lib/enricher) keep both in Redis for the slots*)
(* that need tickets, under two keys, and ping the reserver's login syncer *)
(* (lib/reserver), which reads them back.                                  *)
(***************************************************************************)
EXTENDS Integers

CONSTANTS
  Trips,         \* slots
  Enrichers,     \* replicas of the enricher
  MaxToken,      \* bound: KTMB logins
  MaxDemands,    \* bound: changes of the demand
  MaxSlips,      \* bound: calls that fail
  EnrichMaxLen   \* entries XADD keeps in the stream

ASSUME TripStoreAssumption ==
  /\ {MaxToken, EnrichMaxLen} \subseteq Nat \ {0} /\ {MaxDemands, MaxSlips} \subseteq Nat

VARIABLES
  demand,        \* Redis: the slots the poller count names
  demands,       \* how often it changed
  liveLogin,     \* KTMB: the login that works, kept by the shared session
  storedLogin,   \* Redis: the userData written with the store, 0 if there is none
  store,         \* Redis: the slots with trip data
  enrichPings,   \* Redis: entries of the stream the reserver has not read
  enricher,      \* what each replica is doing
  loginSyncer,   \* what the login syncer is doing
  loginCache,    \* the reserver's login and trip data
  slips          \* failed calls so far

demandOfTrips == <<demand, demands>>
tripKeys == <<storedLogin, store>>
readerVars == <<loginSyncer, loginCache>>
tripVars == <<demandOfTrips, liveLogin, tripKeys, enrichPings, enricher, readerVars, slips>>

Tokens == 0..MaxToken

\* slots: those of the counts, then those to fetch; token: the login; trips:
\* the store it makes; existing: slots to refresh once the others are written.
EnricherIdle == [pc |-> "idle", slots |-> {}, token |-> 0, trips |-> {}, existing |-> {}]
EnricherState == [pc : {"idle", "login", "pull", "fetch", "user", "store", "ping"},
                  slots : SUBSET Trips, token : Tokens, trips : SUBSET Trips,
                  existing : SUBSET Trips]
Login == [token : Tokens, trips : SUBSET Trips]

TripInit ==
  /\ demand = {} /\ demands = 0 /\ liveLogin = 1
  /\ storedLogin = 0 /\ store = {} /\ enrichPings = 0
  /\ enricher = [e \in Enrichers |-> EnricherIdle]
  /\ loginSyncer = [pc |-> "user", token |-> 0]
  /\ loginCache = [token |-> 0, trips |-> {}]
  /\ slips = 0

TripTypeOK ==
  /\ demand \subseteq Trips /\ demands \in 0..MaxDemands /\ liveLogin \in 1..MaxToken
  /\ storedLogin \in Tokens /\ store \subseteq Trips /\ enrichPings \in 0..EnrichMaxLen
  /\ enricher \in [Enrichers -> EnricherState]
  /\ loginSyncer \in [pc : {"wait", "user", "store"}, token : Tokens]
  /\ loginCache \in Login /\ slips \in 0..MaxSlips

Slip == slips < MaxSlips /\ slips' = slips + 1

-----------------------------------------------------------------------------
(* The counts and the login change.                                        *)

ChangeDemand ==
  /\ demands < MaxDemands /\ demands' = demands + 1
  /\ demand' \in SUBSET Trips \ {demand}
  /\ UNCHANGED <<liveLogin, tripKeys, enrichPings, enricher, readerVars, slips>>

ReplaceLogin ==
  /\ liveLogin < MaxToken /\ liveLogin' = liveLogin + 1
  /\ UNCHANGED <<demandOfTrips, tripKeys, enrichPings, enricher, readerVars, slips>>

-----------------------------------------------------------------------------
(* Enricher.                                                               *)

SetEnricher(e, new) == enricher' = [enricher EXCEPT ![e] = new]
EnricherTo(e, pc) == SetEnricher(e, [enricher[e] EXCEPT !.pc = pc])

\* A trigger: the random one, if no other comes first.
Enrich(e) ==
  /\ enricher[e].pc = "idle"
  /\ SetEnricher(e, [EnricherIdle EXCEPT !.pc = "login", !.slots = demand])
  /\ UNCHANGED <<demandOfTrips, liveLogin, tripKeys, enrichPings, readerVars, slips>>

\* The session gives the login it has cached, which may be one KTMB no longer
\* accepts, until the session is healed; these times are slips.
LogIn(e) ==
  /\ enricher[e].pc = "login"
  /\ \E token \in 1..liveLogin :
       /\ SetEnricher(e, [enricher[e] EXCEPT !.pc = "pull", !.token = token])
       /\ IF token = liveLogin THEN UNCHANGED slips ELSE Slip
  /\ UNCHANGED <<demandOfTrips, liveLogin, tripKeys, enrichPings, readerVars>>

\* The slots of the counts that the cached store has, and the others.
Partition(e, cached, seed) ==
  LET slots == enricher[e].slots IN
  SetEnricher(e, IF slots = {} THEN EnricherIdle
                 ELSE [enricher[e] EXCEPT !.pc = "fetch", !.slots = slots \ cached,
                                          !.trips = seed, !.existing = slots \intersect cached])

\* Mutant: the new store starts empty.
PullWithoutSeed(e) ==
  /\ enricher[e].pc = "pull"
  /\ Partition(e, store, {})
  /\ UNCHANGED <<demandOfTrips, liveLogin, tripKeys, enrichPings, readerVars, slips>>

\* pullCache, which takes an error for an empty store.  The slots already
\* there start the new store; without demand the old one stays.
PullCache(e) ==
  /\ enricher[e].pc = "pull"
  /\ \/ Partition(e, store, enricher[e].slots \intersect store) /\ UNCHANGED slips
     \/ Slip /\ Partition(e, {}, {})
  /\ UNCHANGED <<demandOfTrips, liveLogin, tripKeys, enrichPings, readerVars>>

\* fetchInto: a slot that fails is skipped, as all do with a dead login.
Fetch(e) ==
  /\ enricher[e].pc = "fetch"
  /\ \E fetched \in SUBSET enricher[e].slots :
       /\ \/ enricher[e].token # liveLogin /\ fetched = {} /\ UNCHANGED slips
          \/ enricher[e].token = liveLogin /\ fetched = enricher[e].slots /\ UNCHANGED slips
          \/ enricher[e].token = liveLogin /\ fetched # enricher[e].slots /\ Slip
       /\ SetEnricher(e, [enricher[e] EXCEPT !.pc = "user", !.slots = {}, !.trips = @ \union fetched])
  /\ UNCHANGED <<demandOfTrips, liveLogin, tripKeys, enrichPings, readerVars>>

\* write: two SETs and a ping.
WriteUserData(e) ==
  /\ enricher[e].pc = "user"
  /\ storedLogin' = enricher[e].token
  /\ EnricherTo(e, "store")
  /\ UNCHANGED <<demandOfTrips, liveLogin, store, enrichPings, readerVars, slips>>

WriteStore(e) ==
  /\ enricher[e].pc = "store"
  /\ store' = enricher[e].trips
  /\ EnricherTo(e, "ping")
  /\ UNCHANGED <<demandOfTrips, liveLogin, storedLogin, enrichPings, readerVars, slips>>

\* A failed XADD goes unseen.  Then the slots there were are refreshed, and
\* all is written again.
PingReserver(e) ==
  /\ enricher[e].pc = "ping"
  /\ \/ /\ enrichPings' = IF enrichPings < EnrichMaxLen THEN enrichPings + 1 ELSE enrichPings
        /\ UNCHANGED slips
     \/ Slip /\ UNCHANGED enrichPings
  /\ SetEnricher(e, IF enricher[e].existing = {} THEN EnricherIdle
                    ELSE [enricher[e] EXCEPT !.pc = "fetch", !.existing = {},
                                             !.slots = enricher[e].existing])
  /\ UNCHANGED <<demandOfTrips, liveLogin, tripKeys, readerVars>>

\* Redis or the session fails, or the process dies; it is restarted.
EnricherDies(e) ==
  /\ enricher[e].pc # "idle" /\ Slip
  /\ SetEnricher(e, EnricherIdle)
  /\ UNCHANGED <<demandOfTrips, liveLogin, tripKeys, enrichPings, readerVars>>

EnricherStep(e) ==
  \/ Enrich(e) \/ LogIn(e) \/ PullCache(e) \/ Fetch(e)
  \/ WriteUserData(e) \/ WriteStore(e) \/ PingReserver(e)

-----------------------------------------------------------------------------
(* LoginSyncer and Retriever.                                              *)

\* At the start, and for every ping.
ReadPing ==
  /\ loginSyncer.pc = "wait" /\ enrichPings > 0
  /\ enrichPings' = enrichPings - 1
  /\ loginSyncer' = [loginSyncer EXCEPT !.pc = "user"]
  /\ UNCHANGED <<demandOfTrips, liveLogin, tripKeys, enricher, loginCache, slips>>

\* Without the key there is nothing to give.
ReadUserData ==
  /\ loginSyncer.pc = "user"
  /\ loginSyncer' = [pc |-> IF storedLogin = 0 THEN "wait" ELSE "store", token |-> storedLogin]
  /\ UNCHANGED <<demandOfTrips, liveLogin, tripKeys, enrichPings, enricher, loginCache, slips>>

\* toReserver <- message.
GiveLogin ==
  /\ loginSyncer.pc = "store"
  /\ loginCache' = [token |-> loginSyncer.token, trips |-> store]
  /\ loginSyncer' = [pc |-> "wait", token |-> 0]
  /\ UNCHANGED <<demandOfTrips, liveLogin, tripKeys, enrichPings, enricher, slips>>

ReadFails ==
  /\ loginSyncer.pc # "wait" /\ Slip
  /\ loginSyncer' = [pc |-> "wait", token |-> 0]
  /\ UNCHANGED <<demandOfTrips, liveLogin, tripKeys, enrichPings, enricher, loginCache>>

\* The reserver dies, and starts without a login.
ReserverDies ==
  /\ Slip
  /\ loginSyncer' = [pc |-> "user", token |-> 0]
  /\ loginCache' = [token |-> 0, trips |-> {}]
  /\ UNCHANGED <<demandOfTrips, liveLogin, tripKeys, enrichPings, enricher>>

LoginSyncerStep == ReadPing \/ ReadUserData \/ GiveLogin

TripNext ==
  \/ ChangeDemand \/ ReplaceLogin
  \/ \E e \in Enrichers : EnricherStep(e) \/ EnricherDies(e)
  \/ LoginSyncerStep \/ ReadFails \/ ReserverDies

TripSpec == TripInit /\ [][TripNext]_tripVars

-----------------------------------------------------------------------------

(* Once zinc and KTMB come to rest, the reserver has the login that works  *)
(* and the trip data of every slot that needs tickets, and keeps them: the *)
(* two keys are paired again whatever replica's writes crossed, no store is*)
(* left that an older one overwrote, and no ping or fetch is lost for good.*)
LoginArrives ==
  <>[](demand # {} => loginCache.token = liveLogin /\ demand \subseteq loginCache.trips)
=============================================================================
