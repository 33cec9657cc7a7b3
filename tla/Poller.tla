------------------------------- MODULE Poller -------------------------------
(***************************************************************************)
(* The poller (lib/poller): its replicas spawn generations of short-lived  *)
(* Jobs that watch the dates which need tickets, each minute and whenever  *)
(* the counts change; a key in Redis keeps the replicas from spawning the  *)
(* same targets twice.  The earliest dates and those released lately are   *)
(* watched at full power, some others at the light profile.                *)
(***************************************************************************)
EXTENDS Integers, FiniteSets

CONSTANTS
  Dates,          \* targets, numbered by date
  Pollers,        \* replicas
  MaxStreams,     \* targets of the full-power window
  MaxBoost,       \* released targets beyond the window at full power
  MaxLight,       \* targets at the light profile
  ShardSize,      \* targets of a Job
  CronEvery,      \* ticks between two cron triggers
  MinGeneration,  \* ticks for which a target set is not spawned again
  PolleeLife,     \* ticks a Job runs
  MaxTurns,       \* bound: changes of the counts and of the releases
  MaxErrors       \* bound: calls that fail

ASSUME PollerAssumption ==
  /\ Dates \subseteq Nat \ {0} /\ IsFiniteSet(Dates) /\ Pollers # {}
  /\ {MaxStreams, ShardSize, CronEvery, MinGeneration, PolleeLife} \subseteq Nat \ {0}
  /\ {MaxBoost, MaxLight, MaxTurns, MaxErrors} \subseteq Nat
  /\ MinGeneration + CronEvery <= PolleeLife

VARIABLES
  counted,     \* Redis: the dates the poller count names
  released,    \* Redis: dates with an unexpired boost
  turns,       \* changes so far
  signal,      \* an entry of the update stream no replica has read
  poller,      \* the replicas: ticks to the next cron trigger, what is planned
  generation,  \* Redis: target sets spawned lately, with the ticks left
  watched,     \* ticks for which each date is still watched at each level
  kept,        \* history: dates of the window spawned since they entered it
  gap,         \* history: ticks for which a date of the window was not watched
  errors       \* failed calls so far

pollerVars == <<counted, released, turns, signal, poller, generation, watched, kept, gap, errors>>

Earliest(S, n) == {d \in S : Cardinality({c \in S : c < d}) < n}

(* selectTargets.                                                          *)
Window == Earliest(counted, MaxStreams)
Targets(boost) ==
  LET boosted == Earliest((counted \ Window) \intersect boost, MaxBoost)
      full == Window \union boosted
  IN [full |-> full, light |-> Earliest(counted \ full, MaxLight)]

Plan == [full : SUBSET Dates, light : SUBSET Dates]
NoPlan == [full |-> {}, light |-> {}]
PollerState == [cron : 0..CronEvery + 1, pc : {"wait", "spawn"}, plan : Plan]
Levels == {"full", "light"}

PollerInit ==
  /\ counted = {} /\ released = {} /\ turns = 0 /\ signal = FALSE
  /\ poller \in [Pollers -> [cron : 1..CronEvery, pc : {"wait"}, plan : {NoPlan}]]
  /\ generation = {} /\ watched = [l \in Levels |-> [d \in Dates |-> 0]]
  /\ kept = {} /\ gap = [d \in Dates |-> 0] /\ errors = 0

PollerTypeOK ==
  /\ counted \subseteq Dates /\ released \subseteq Dates /\ turns \in 0..MaxTurns
  /\ signal \in BOOLEAN
  /\ poller \in [Pollers -> PollerState]
  /\ generation \subseteq [plan : Plan, left : 1..MinGeneration]
  /\ watched \in [Levels -> [Dates -> 0..PolleeLife]]
  /\ kept \subseteq Dates /\ gap \in [Dates -> Nat] /\ errors \in 0..MaxErrors

Error == errors < MaxErrors /\ errors' = errors + 1

-----------------------------------------------------------------------------
(* The counts change, with or without a signal; helium boosts the dates    *)
(* that are released; time passes.                                         *)

ChangeCounts ==
  /\ turns < MaxTurns /\ turns' = turns + 1
  /\ \E C \in SUBSET Dates : C # counted /\ counted' = C
  /\ signal' \in {TRUE, signal}
  /\ kept' = kept \intersect Window'
  /\ gap' = [d \in Dates |-> IF d \in Window' THEN gap[d] ELSE 0]
  /\ UNCHANGED <<released, poller, generation, watched, errors>>

ReleaseDates ==
  /\ turns < MaxTurns /\ turns' = turns + 1
  /\ \E R \in SUBSET Dates : R # released /\ released' = R
  /\ UNCHANGED <<counted, signal, poller, generation, watched, kept, gap, errors>>

Down(n) == IF n = 0 THEN 0 ELSE n - 1

\* No cron trigger is late, and a plan takes less than a tick.
PassTick ==
  /\ \A p \in Pollers : poller[p].cron > 0 /\ poller[p].pc = "wait"
  /\ poller' = [p \in Pollers |-> [poller[p] EXCEPT !.cron = @ - 1]]
  /\ generation' = {[g EXCEPT !.left = @ - 1] : g \in {h \in generation : h.left > 1}}
  /\ watched' = [l \in Levels |-> [d \in Dates |-> Down(watched[l][d])]]
  /\ gap' = [d \in Dates |-> IF d \in Window /\ watched.full[d] = 0 THEN gap[d] + 1 ELSE 0]
  /\ UNCHANGED <<counted, released, turns, signal, kept, errors>>

-----------------------------------------------------------------------------
(* A replica.                                                              *)

SetPoller(p, new) == poller' = [poller EXCEPT ![p] = new]

Planned(p, cron) == \E boost \in {released, {}} :
  /\ boost # released => Error
  /\ boost = released => UNCHANGED errors
  /\ SetPoller(p, [cron |-> cron, pc |-> "spawn", plan |-> Targets(boost)])

\* createPoller reads the counts, then the boost, which it does without when
\* that fails.  Counts that cannot be read count as none.
OnCron(p) ==
  /\ poller[p].pc = "wait" /\ poller[p].cron = 0
  /\ Planned(p, CronEvery) \/ (Error /\ SetPoller(p, [poller[p] EXCEPT !.cron = CronEvery]))
  /\ UNCHANGED <<counted, released, turns, signal, generation, watched, kept, gap>>

OnSignal(p) ==
  /\ poller[p].pc = "wait" /\ signal
  /\ signal' = FALSE
  /\ Planned(p, poller[p].cron) \/ (Error /\ UNCHANGED poller)
  /\ UNCHANGED <<counted, released, turns, generation, watched, kept, gap>>

Fresh(plan) == [plan |-> plan, left |-> MinGeneration]
Taken(plan) == \E g \in generation : g.plan = plan

Watch(spawned) ==
  /\ kept' = kept \union (spawned.full \intersect Window)
  /\ gap' = [d \in Dates |-> IF d \in spawned.full THEN 0 ELSE gap[d]]
  /\ watched' = [l \in Levels |-> [d \in Dates |->
                   IF d \in spawned[l] THEN PolleeLife ELSE watched[l][d]]]

\* Mutant: a claim that fails extends the generation.
SkipAndExtend(p) ==
  /\ poller[p].pc = "spawn" /\ Taken(poller[p].plan)
  /\ generation' = {g \in generation : g.plan # poller[p].plan} \union {Fresh(poller[p].plan)}
  /\ SetPoller(p, [poller[p] EXCEPT !.pc = "wait", !.plan = NoPlan])
  /\ UNCHANGED <<counted, released, turns, signal, watched, kept, gap, errors>>

\* claimGeneration: the key is there.
Skip(p) ==
  /\ poller[p].pc = "spawn" /\ Taken(poller[p].plan)
  /\ SetPoller(p, [poller[p] EXCEPT !.pc = "wait", !.plan = NoPlan])
  /\ UNCHANGED <<counted, released, turns, signal, generation, watched, kept, gap, errors>>

\* claimGeneration by SETNX; an error spawns all the same.
Claim(plan) ==
  \/ ~Taken(plan) /\ generation' = generation \union {Fresh(plan)} /\ UNCHANGED errors
  \/ Error /\ UNCHANGED generation

\* CreateMultiJob for each level, by shards.
Spawn(p) ==
  /\ poller[p].pc = "spawn"
  /\ Claim(poller[p].plan)
  /\ Watch(poller[p].plan)
  /\ SetPoller(p, [poller[p] EXCEPT !.pc = "wait", !.plan = NoPlan])
  /\ UNCHANGED <<counted, released, turns, signal>>

\* A shard that cannot be created takes those after it with it, but not the
\* other level.  The process exits, and starts again within a tick.
SpawnSome(p) ==
  /\ poller[p].pc = "spawn" /\ ~Taken(poller[p].plan) /\ Error
  /\ generation' = generation \union {Fresh(poller[p].plan)}
  /\ \E l \in Levels, shards \in 0..Cardinality(Dates) :
       LET plan == poller[p].plan IN
       /\ shards * ShardSize < Cardinality(plan[l])
       /\ Watch([plan EXCEPT ![l] = Earliest(@, shards * ShardSize)])
  /\ SetPoller(p, [cron |-> CronEvery + 1, pc |-> "wait", plan |-> NoPlan])
  /\ UNCHANGED <<counted, released, turns, signal>>

PollerNext ==
  \/ ChangeCounts \/ ReleaseDates \/ PassTick
  \/ \E p \in Pollers : OnCron(p) \/ OnSignal(p) \/ Skip(p) \/ Spawn(p) \/ SpawnSome(p)

PollerSpec == PollerInit /\ [][PollerNext]_pollerVars

-----------------------------------------------------------------------------

(* "A generation per minute keeps them overlapping" (poller.go:44-47): the *)
(* Jobs of a date in the full-power window do not run out before the next  *)
(* ones come, whatever the phases of the replicas' crons and of the key    *)
(* that keeps them from spawning twice.  A date new to the window waits for*)
(* a cron trigger at most; a failed call, which may have claimed the       *)
(* generation, costs the rest of it and one more.                          *)
WatchKept ==
  /\ errors = 0 => \A d \in kept : gap[d] = 0
  /\ \A d \in Dates : gap[d] <= CronEvery + errors * (MinGeneration + CronEvery)
=============================================================================
