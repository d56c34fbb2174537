---- MODULE BackoffProofs ----
(* The crash breaker's backoff holds for every value of the constants.      *)
EXTENDS DaemonProofs

----
(* The inductive invariant.                                                 *)
(*                                                                          *)
(* A trip is booked at the time its pass began, and the spawns of a pass    *)
(* are decided at that same time, so the order of the two needs the clock   *)
(* of a pass never to run ahead of the clock, and no trip to lie ahead of   *)
(* the pass.  A tracker whose trips were forgotten would let a supervisor   *)
(* start early: an entity is only ever made anew where nothing tripped.     *)

\* What is known of one repo's breaker.
TripsForgottenWithEntity(r) ==
    phase = "down" \/ fleet[r].settings = NoSettings => DOMAIN trips[r] = {}

TripsPast(r) ==
    \A i \in DOMAIN trips[r] :
        /\ trips[r][i] <= now
        /\ phase = "reconcile" => trips[r][i] <= pass.now

TripsHoldBack(r) ==
    \A i \in DOMAIN trips[r] : trips[r][i] + Backoff <= fleet[r].crashes.backoffUntil

SpawnedLater(r) ==
    Running(fleet[r].supervisor) =>
        \A i \in DOMAIN trips[r] : fleet[r].supervisor.spawnedAt >= trips[r][i] + Backoff

BreakerOK(r) ==
    /\ TripsForgottenWithEntity(r)
    /\ TripsPast(r)
    /\ TripsHoldBack(r)
    /\ SpawnedLater(r)

PassNotAhead == phase = "reconcile" => pass.now <= now

BackoffInv ==
    /\ PassNotAhead
    /\ \A r \in Repos : BreakerOK(r)

----
(* Types, in the form the steps below need them. *)

LEMMA BreakerTypes ==
    ASSUME TypeOK, NEW r \in Repos
    PROVE  /\ now \in Nat /\ pass.now \in Nat /\ Backoff \in Nat
           /\ trips[r] \in Seq(Nat)
           /\ \A i \in DOMAIN trips[r] : trips[r][i] \in Nat
           /\ fleet[r] \in Entities
           /\ fleet[r].crashes \in CrashTrackers
           /\ fleet[r].crashes.backoffUntil \in Nat
           /\ fleet[r].supervisor \in Supervisors
           /\ fleet[r].supervisor.spawnedAt \in Nat
           /\ fleet[r].supervisor.pid \in Nat
  <1>1. now \in Nat /\ pass.now \in Nat /\ Backoff \in Nat
    BY TimingAssumption DEF TypeOK, MachineTypeOK, Passes
  <1>2. trips[r] \in Seq(Nat) /\ fleet[r] \in Entities
    BY DEF TypeOK
  <1>3. \A i \in DOMAIN trips[r] : trips[r][i] \in Nat
    BY <1>2
  <1>4. fleet[r].crashes \in CrashTrackers /\ fleet[r].supervisor \in Supervisors
    BY <1>2 DEF Entities
  <1> QED
    BY <1>1, <1>2, <1>3, <1>4 DEF CrashTrackers, Supervisors

----
(* Steps that leave a repo's breaker alone. *)

\* The clock and the loop may move, the entity keeps its tracker and its
\* settings, and its supervisor stays or is released.
BreakerLeftAlone(r) ==
    /\ trips'[r] = trips[r]
    /\ fleet'[r].settings = fleet[r].settings
    /\ fleet'[r].crashes = fleet[r].crashes
    /\ Running(fleet'[r].supervisor) =>
          /\ Running(fleet[r].supervisor)
          /\ fleet'[r].supervisor.spawnedAt = fleet[r].supervisor.spawnedAt

\* No pass begins, and no daemon goes down.
LoopGoesOn ==
    /\ now' \in {now, now + 1}
    /\ phase' = "down" => phase = "down"
    /\ phase' = "reconcile" => phase = "reconcile" /\ pass'.now = pass.now

LEMMA LeftAloneKeeps ==
    ASSUME TypeOK, BackoffInv, LoopGoesOn,
           NEW r \in Repos, BreakerLeftAlone(r)
    PROVE  BreakerOK(r)'
  <1>1. BreakerOK(r)
    BY DEF BackoffInv
  <1>2. \A i \in DOMAIN trips[r] : trips[r][i] \in Nat
    BY BreakerTypes
  <1>3. now \in Nat /\ now' >= now
    BY BreakerTypes DEF LoopGoesOn
  <1>4. TripsForgottenWithEntity(r)'
    BY <1>1 DEF BreakerOK, TripsForgottenWithEntity, BreakerLeftAlone, LoopGoesOn
  <1>5. TripsPast(r)'
    <2> SUFFICES ASSUME NEW i \in DOMAIN trips[r]
                 PROVE  /\ trips[r][i] <= now'
                        /\ phase' = "reconcile" => trips[r][i] <= pass'.now
      BY DEF TripsPast, BreakerLeftAlone
    <2>1. trips[r][i] <= now /\ (phase = "reconcile" => trips[r][i] <= pass.now)
      BY <1>1 DEF BreakerOK, TripsPast
    <2>2. trips[r][i] <= now'
      BY <1>2, <1>3, <2>1 DEF LoopGoesOn
    <2> QED
      BY <2>1, <2>2 DEF LoopGoesOn
  <1>6. TripsHoldBack(r)'
    BY <1>1 DEF BreakerOK, TripsHoldBack, BreakerLeftAlone
  <1>7. SpawnedLater(r)'
    BY <1>1 DEF BreakerOK, SpawnedLater, BreakerLeftAlone
  <1> QED
    BY <1>4, <1>5, <1>6, <1>7 DEF BreakerOK

LEMMA AllLeftAloneKeeps ==
    ASSUME TypeOK, BackoffInv, LoopGoesOn,
           \A r \in Repos : BreakerLeftAlone(r)
    PROVE  BackoffInv'
  <1>1. \A r \in Repos : BreakerOK(r)'
    BY LeftAloneKeeps
  <1>2. PassNotAhead'
    <2>1. now \in Nat /\ pass.now \in Nat
      BY DEF TypeOK, MachineTypeOK, Passes
    <2> QED
      BY <2>1 DEF BackoffInv, PassNotAhead, LoopGoesOn
  <1> QED
    BY <1>1, <1>2 DEF BackoffInv

\* The usual case: no entity changes at all.
LEMMA SameFleetKeeps ==
    ASSUME TypeOK, BackoffInv, LoopGoesOn, UNCHANGED << fleet, trips >>
    PROVE  BackoffInv'
  BY AllLeftAloneKeeps DEF BreakerLeftAlone

\* One entity changes, and not in its breaker.
LEMMA OneEntityKeeps ==
    ASSUME TypeOK, BackoffInv, LoopGoesOn, UNCHANGED trips,
           NEW r \in Repos, NEW sr,
           fleet' = [fleet EXCEPT ![r] = sr],
           sr.settings = fleet[r].settings,
           sr.crashes = fleet[r].crashes,
           Running(sr.supervisor) =>
               /\ Running(fleet[r].supervisor)
               /\ sr.supervisor.spawnedAt = fleet[r].supervisor.spawnedAt
    PROVE  BackoffInv'
  <1>1. fleet \in [Repos -> Entities]
    BY DEF TypeOK
  <1>2. ASSUME NEW q \in Repos PROVE BreakerLeftAlone(q)
    <2>1. CASE q = r
      BY <1>1, <2>1 DEF BreakerLeftAlone
    <2>2. CASE q # r
      BY <1>1, <2>2 DEF BreakerLeftAlone
    <2> QED
      BY <2>1, <2>2
  <1> QED
    BY <1>2, AllLeftAloneKeeps

----
(* Reconcile. *)

\* An entity is only made anew for a directory nothing has tripped in.
LEMMA EntityKeepsBreaker ==
    ASSUME BackoffInv, NEW r \in Repos, DOMAIN trips[r] # {}
    PROVE  EntityOf(r) = fleet[r] /\ fleet[r].settings # NoSettings
  BY DEF BackoffInv, BreakerOK, TripsForgottenWithEntity, EntityOf

\* The other repos are as they were when one of them is reconciled.
LEMMA OthersKeep ==
    ASSUME SafetyInv, BackoffInv, LoopGoesOn, NEW r \in Repos, NEW sr, NEW ts,
           fleet' = [fleet EXCEPT ![r] = sr],
           trips' = [trips EXCEPT ![r] = ts],
           BreakerOK(r)'
    PROVE  BackoffInv'
  <1>1. TypeOK /\ fleet \in [Repos -> Entities] /\ trips \in [Repos -> Seq(Nat)]
    BY DEF SafetyInv, TypeOK
  <1>2. ASSUME NEW q \in Repos, q # r PROVE BreakerOK(q)'
    <2>1. BreakerLeftAlone(q)
      BY <1>1, <1>2 DEF BreakerLeftAlone
    <2> QED
      BY <1>1, <2>1, LeftAloneKeeps
  <1>3. PassNotAhead'
    <2>1. now \in Nat /\ pass.now \in Nat
      BY <1>1 DEF TypeOK, MachineTypeOK, Passes
    <2> QED
      BY <2>1 DEF BackoffInv, PassNotAhead, LoopGoesOn
  <1> QED
    BY <1>2, <1>3 DEF BackoffInv

LEMMA ReconcileSpawnsBacksOff ==
    ASSUME SafetyInv, BackoffInv, NEW r \in Repos, ReconcileSpawns(r)
    PROVE  BackoffInv'
  <1> DEFINE plan == SupervisionPlan(r)
             sup == Spawned(nextPid, plan.sr.settings)
             sr == [plan.sr EXCEPT !.supervisor = sup]
  <1>1. /\ UNCHANGED << now, phase, trips >>
        /\ fleet' = [fleet EXCEPT ![r] = sr]
        /\ pass' = [Visited(r) EXCEPT !.spawned = Visited(r).spawned + 1]
        /\ phase = "reconcile" /\ r \in pass.todo
        /\ plan.decision = "spawn"
    BY DEF ReconcileSpawns, Turn, MayVisit
  <1>2. SupervisionOutcome(EntityOf(r), pass.now, plan)
    BY SupervisionPlanOutcome
  <1>3. EntityOf(r).settings \in Settings
    BY <1>1, EntityOfType DEF SafetyInv, VisitsEntries
  <1>4. sup.spawnedAt = now
    BY DEF Spawned
  <1> HIDE DEF plan, sup
  <1>5. /\ plan.sr \in Entities
        /\ plan.sr.settings = EntityOf(r).settings
        /\ ~InBackoff(plan.sr.crashes, pass.now)
        /\ plan.sr.crashes.backoffUntil = EntityOf(r).crashes.backoffUntil
    BY <1>1, <1>2 DEF SupervisionOutcome
  <1>6. /\ sr.settings \in Settings /\ sr.crashes = plan.sr.crashes
        /\ sr.supervisor = sup
    BY <1>5, <1>3 DEF Entities
  <1> HIDE DEF sr
  <1>7. pass'.now = pass.now
    BY <1>1 DEF SafetyInv, TypeOK, Passes, Visited
  <1>8. fleet'[r] = sr
    BY <1>1 DEF SafetyInv, TypeOK
  <1>9. LoopGoesOn
    BY <1>1, <1>7 DEF LoopGoesOn
  <1>10. pass.now <= now
    BY <1>1 DEF BackoffInv, PassNotAhead
  <1>11. BreakerOK(r)
    BY DEF BackoffInv
  <1>12. TripsForgottenWithEntity(r)'
    BY <1>1, <1>6, <1>8 DEF TripsForgottenWithEntity, Settings, NoSettings
  <1>13. TripsPast(r)'
    BY <1>1, <1>7, <1>11 DEF BreakerOK, TripsPast
  <1>14. ASSUME NEW i \in DOMAIN trips[r]
         PROVE  trips[r][i] + Backoff <= sr.crashes.backoffUntil
    BY <1>5, <1>6, <1>11, <1>14, EntityKeepsBreaker DEF BreakerOK, TripsHoldBack
  <1>15. TripsHoldBack(r)'
    BY <1>1, <1>8, <1>14 DEF TripsHoldBack
  <1>16. ASSUME NEW i \in DOMAIN trips[r]
         PROVE  now >= trips[r][i] + Backoff
    <2>1. trips[r][i] \in Nat /\ Backoff \in Nat /\ now \in Nat /\ pass.now \in Nat
      BY BreakerTypes DEF SafetyInv
    <2>2. sr.crashes.backoffUntil \in Nat
      BY <1>5, <1>6 DEF Entities, CrashTrackers
    <2>3. sr.crashes.backoffUntil <= pass.now
      BY <1>5, <1>6, <2>1, <2>2 DEF InBackoff
    <2> QED
      BY <1>10, <1>14, <2>1, <2>2, <2>3
  <1>17. SpawnedLater(r)'
    BY <1>1, <1>4, <1>6, <1>8, <1>16 DEF SpawnedLater
  <1>18. BreakerOK(r)'
    BY <1>12, <1>13, <1>15, <1>17 DEF BreakerOK
  <1>19. trips' = [trips EXCEPT ![r] = trips[r]]
    BY <1>1 DEF SafetyInv, TypeOK
  <1> QED
    BY <1>1, <1>9, <1>18, <1>19, OthersKeep

LEMMA ReconcileWaitsBacksOff ==
    ASSUME SafetyInv, BackoffInv, NEW r \in Repos, ReconcileWaits(r)
    PROVE  BackoffInv'
  <1> DEFINE plan == SupervisionPlan(r)
             sr == plan.sr
             ts == IF plan.decision = "alert" THEN Append(trips[r], pass.now) ELSE trips[r]
  <1>1. /\ UNCHANGED << now, phase >>
        /\ fleet' = [fleet EXCEPT ![r] = sr]
        /\ pass' = Visited(r)
        /\ phase = "reconcile" /\ r \in pass.todo
    BY DEF ReconcileWaits, Turn, MayVisit, machineVars
  <1>2. trips' = [trips EXCEPT ![r] = ts]
    BY DEF ReconcileWaits, SafetyInv, TypeOK
  <1>3. /\ sr \in Entities
        /\ sr.settings = EntityOf(r).settings
        /\ sr.supervisor \in {EntityOf(r).supervisor, NoSupervisor}
        /\ plan.decision = "alert" =>
              /\ sr.supervisor = NoSupervisor
              /\ sr.crashes.backoffUntil = pass.now + Backoff
        /\ plan.decision # "alert" =>
              sr.crashes.backoffUntil = EntityOf(r).crashes.backoffUntil
    <2> DEFINE here == plan
    <2>1. SupervisionOutcome(EntityOf(r), pass.now, here)
      BY SupervisionPlanOutcome
    <2> HIDE DEF here
    <2>2. /\ here.sr \in Entities
          /\ here.sr.settings = EntityOf(r).settings
          /\ here.sr.supervisor \in {EntityOf(r).supervisor, NoSupervisor}
          /\ here.decision = "alert" =>
                /\ here.sr.supervisor = NoSupervisor
                /\ here.sr.crashes.backoffUntil = pass.now + Backoff
          /\ here.decision # "alert" =>
                here.sr.crashes.backoffUntil = EntityOf(r).crashes.backoffUntil
      BY <2>1 DEF SupervisionOutcome
    <2> QED
      BY <2>2 DEF here
  <1>4. EntityOf(r).settings \in Settings
    BY <1>1, EntityOfType DEF SafetyInv, VisitsEntries
  <1> HIDE DEF sr
  <1>5. pass'.now = pass.now
    BY <1>1 DEF SafetyInv, TypeOK, Passes, Visited
  <1>6. fleet'[r] = sr /\ trips'[r] = ts
    BY <1>1, <1>2 DEF SafetyInv, TypeOK
  <1>7. LoopGoesOn
    BY <1>1, <1>5 DEF LoopGoesOn
  <1>8. BreakerOK(r) /\ pass.now <= now
    BY <1>1 DEF BackoffInv, PassNotAhead
  <1>9. /\ now \in Nat /\ pass.now \in Nat /\ Backoff \in Nat
        /\ trips[r] \in Seq(Nat)
        /\ \A i \in DOMAIN trips[r] : trips[r][i] \in Nat
    BY BreakerTypes DEF SafetyInv
  <1>10. BreakerOK(r)'
    <2>1. TripsForgottenWithEntity(r)'
      BY <1>1, <1>3, <1>4, <1>6 DEF TripsForgottenWithEntity, Settings, NoSettings
    <2>2. CASE plan.decision = "alert"
      <3>1. ASSUME NEW i \in DOMAIN ts
            PROVE  ts[i] = pass.now \/ (i \in DOMAIN trips[r] /\ ts[i] = trips[r][i])
        BY <1>9, <2>2
      <3>2. ASSUME NEW i \in DOMAIN ts PROVE ts[i] \in Nat /\ ts[i] <= pass.now
        BY <1>1, <1>8, <1>9, <3>1, <3>2 DEF BreakerOK, TripsPast
      <3>3. ~Running(sr.supervisor) /\ sr.crashes.backoffUntil = pass.now + Backoff
        BY <1>3, <2>2, NoSupervisorType
      <3> HIDE DEF ts
      <3>4. TripsPast(r)'
        <4> SUFFICES ASSUME NEW i \in DOMAIN ts
                     PROVE  ts[i] <= now /\ ts[i] <= pass.now
          BY <1>1, <1>5, <1>6 DEF TripsPast
        <4> QED
          BY <1>8, <1>9, <3>2
      <3>5. TripsHoldBack(r)'
        <4> SUFFICES ASSUME NEW i \in DOMAIN ts
                     PROVE  ts[i] + Backoff <= sr.crashes.backoffUntil
          BY <1>6 DEF TripsHoldBack
        <4> QED
          BY <1>9, <3>2, <3>3
      <3>6. SpawnedLater(r)'
        BY <1>6, <3>3 DEF SpawnedLater
      <3> QED
        BY <2>1, <3>4, <3>5, <3>6 DEF BreakerOK
    <2>3. CASE plan.decision # "alert"
      <3>1. ts = trips[r]
        BY <2>3
      <3> HIDE DEF ts
      <3>2. TripsPast(r)'
        BY <1>1, <1>5, <1>6, <1>8, <3>1 DEF BreakerOK, TripsPast
      <3>3. TripsHoldBack(r)'
        BY <1>3, <1>6, <1>8, <2>3, <3>1, EntityKeepsBreaker DEF BreakerOK, TripsHoldBack
      <3>4. SpawnedLater(r)'
        <4>1. ASSUME NEW i \in DOMAIN trips[r], Running(sr.supervisor)
              PROVE  sr.supervisor.spawnedAt >= trips[r][i] + Backoff
          <5>1. sr.supervisor = fleet[r].supervisor
            BY <1>3, <4>1, EntityKeepsBreaker, NoSupervisorType
          <5> QED
            BY <1>8, <4>1, <5>1 DEF BreakerOK, SpawnedLater
        <4> QED
          BY <1>6, <3>1, <4>1 DEF SpawnedLater
      <3> QED
        BY <2>1, <3>2, <3>3, <3>4 DEF BreakerOK
    <2> QED
      BY <2>2, <2>3
  <1> HIDE DEF ts, plan
  <1> QED
    BY <1>1, <1>2, <1>7, <1>10, OthersKeep

----
(* The other steps of the daemon. *)

LEMMA StartBacksOff ==
    ASSUME SafetyInv, BackoffInv, Start PROVE BackoffInv'
  <1>1. /\ UNCHANGED << now, trips >> /\ phase = "down" /\ phase' = "idle"
    BY DEF Start, machineVars
  <1>2. ASSUME NEW r \in Repos PROVE DOMAIN trips[r] = {}
    BY <1>1 DEF BackoffInv, BreakerOK, TripsForgottenWithEntity
  <1> QED
    BY <1>1, <1>2 DEF BackoffInv, PassNotAhead, BreakerOK, TripsForgottenWithEntity,
                      TripsPast, TripsHoldBack, SpawnedLater

LEMMA StopBacksOff ==
    ASSUME SafetyInv, BackoffInv, Stop PROVE BackoffInv'
  <1>1. phase' = "down" /\ trips' = [r \in Repos |-> << >>]
    BY DEF Stop
  <1>2. ASSUME NEW r \in Repos PROVE DOMAIN trips'[r] = {}
    BY <1>1
  <1> QED
    BY <1>1, <1>2 DEF BackoffInv, PassNotAhead, BreakerOK, TripsForgottenWithEntity,
                      TripsPast, TripsHoldBack, SpawnedLater

LEMMA BeginPassBacksOff ==
    ASSUME SafetyInv, BackoffInv, NEW readable \in BOOLEAN, NEW torn \in BOOLEAN,
           BeginPass(readable, torn)
    PROVE  BackoffInv'
  <1>1. /\ UNCHANGED << now, fleet, trips >>
        /\ pass'.now = now
        /\ phase = "idle" /\ phase' = "reconcile"
    BY DEF BeginPass, machineVars
  <1>2. now \in Nat
    BY BreakerTypes DEF SafetyInv, TypeOK, MachineTypeOK
  <1>3. PassNotAhead'
    BY <1>1, <1>2 DEF PassNotAhead
  <1>4. ASSUME NEW r \in Repos PROVE BreakerOK(r)'
    <2>1. BreakerOK(r)
      BY DEF BackoffInv
    <2> QED
      BY <1>1, <2>1 DEF BreakerOK, TripsForgottenWithEntity, TripsPast, TripsHoldBack,
                        SpawnedLater
  <1> QED
    BY <1>3, <1>4 DEF BackoffInv

LEMMA RetireRepoBacksOff ==
    ASSUME SafetyInv, BackoffInv, NEW r \in Repos,
           NEW read \in Readings(r), RetireRepo(r, read)
    PROVE  BackoffInv'
  <1> DEFINE plan == RetirementPlan(r, read)
             alive == Alive(fleet[r].supervisor)
             quiet == alive /\ AllQuiet(r, read)
             none == [total |-> 0, working |-> 0, anchored |-> FALSE]
             census == IF alive THEN Census(r, read) ELSE none
             sr == IF plan.decision = "forget"
                   THEN [plan.sr EXCEPT !.supervisor = NoSupervisor] ELSE plan.sr
  <1>1. /\ UNCHANGED << now, trips, phase >>
        /\ phase = "retire"
        /\ fleet' = [fleet EXCEPT ![r] = sr]
    BY DEF RetireRepo, machineVars
  <1>2. fleet[r] \in Entities /\ pass.now \in Nat
    BY DEF SafetyInv, TypeOK, Passes
  <1>3. census \in Censuses /\ alive \in BOOLEAN /\ quiet \in BOOLEAN
    BY CensusFacts DEF SafetyInv, Censuses, Alive, LivePid
  <1>4. plan = PlanRetirement(fleet[r], alive, quiet, census, pass.now)
    BY DEF RetirementPlan
  <1> HIDE DEF plan, alive, quiet, census
  <1>5. /\ plan.sr \in Entities
        /\ plan.sr.supervisor = fleet[r].supervisor
        /\ plan.sr.settings = fleet[r].settings
        /\ plan.sr.crashes = fleet[r].crashes
    BY <1>2, <1>3, <1>4, PlanRetirementFacts
  <1>6. /\ sr.settings = fleet[r].settings
        /\ sr.crashes = fleet[r].crashes
        /\ sr.supervisor \in {NoSupervisor, fleet[r].supervisor}
    BY <1>5 DEF Entities
  <1> HIDE DEF sr
  <1>7. LoopGoesOn
    BY <1>1 DEF LoopGoesOn
  <1> QED
    BY <1>1, <1>6, <1>7, NoSupervisorType, OneEntityKeeps DEF SafetyInv

LEMMA ConvergeRepoBacksOff ==
    ASSUME SafetyInv, BackoffInv, NEW r \in Repos, NEW probed \in 0..MaxVersion,
           NEW read \in Readings(r), ConvergeRepo(r, probed, read)
    PROVE  BackoffInv'
  <1> DEFINE quiet == AllQuiet(r, read)
             census == Census(r, read)
             sr == fleet[r]
             plan == PlanDrift(sr, binaryVersion, probed, quiet, census, now)
  <1>1. /\ UNCHANGED << now, trips, phase >>
        /\ phase = "tick"
        /\ fleet' = [fleet EXCEPT ![r] = plan.sr]
    BY DEF ConvergeRepo, machineVars
  <1>2. /\ sr \in Entities /\ now \in Nat /\ probed \in Nat /\ binaryVersion \in Nat
    BY MachineAssumption DEF SafetyInv, TypeOK, MachineTypeOK
  <1>3. census \in Censuses /\ quiet \in BOOLEAN
    BY CensusFacts DEF SafetyInv
  <1> HIDE DEF quiet, census, sr
  <1>4. /\ plan.sr.settings = sr.settings
        /\ plan.sr.crashes = sr.crashes
        /\ SameRecord(plan.sr.supervisor, sr.supervisor)
    BY <1>2, <1>3, PlanDriftFacts
  <1> HIDE DEF plan
  <1>5. Running(plan.sr.supervisor) =>
            /\ Running(sr.supervisor)
            /\ plan.sr.supervisor.spawnedAt = sr.supervisor.spawnedAt
    BY <1>4 DEF SameRecord, Running
  <1>6. LoopGoesOn
    BY <1>1 DEF LoopGoesOn
  <1> QED
    BY <1>1, <1>4, <1>5, <1>6, OneEntityKeeps DEF SafetyInv, sr

\* terminate returns: the supervisor is released, or stays where it is.
LEMMA ReturnBacksOff ==
    ASSUME SafetyInv, BackoffInv, StopReturns \/ StopFails
    PROVE  BackoffInv'
  <1> DEFINE r == stopping.repo
             sr == [fleet[r] EXCEPT !.supervisor = NoSupervisor]
  <1>1. stopping \in Stops
    BY DEF StopReturns, StopFails, Stopping, SafetyInv, TypeOK, NoStop
  <1>2. r \in Repos /\ fleet[r] \in Entities
    BY <1>1 DEF Stops, SafetyInv, TypeOK
  <1>3. /\ UNCHANGED << now, trips, phase, pass >>
        /\ fleet' \in {fleet, [fleet EXCEPT ![r] = sr]}
    BY DEF StopReturns, StopFails, SafetyInv, TypeOK, machineVars
  <1>4. /\ sr.settings = fleet[r].settings
        /\ sr.crashes = fleet[r].crashes
        /\ ~Running(sr.supervisor)
    BY <1>2, NoSupervisorType DEF Entities
  <1> HIDE DEF r, sr
  <1>5. LoopGoesOn
    BY <1>3 DEF LoopGoesOn
  <1>6. CASE fleet' = fleet
    BY <1>3, <1>5, <1>6, SameFleetKeeps DEF SafetyInv
  <1>7. CASE fleet' = [fleet EXCEPT ![r] = sr]
    BY <1>2, <1>3, <1>4, <1>5, <1>7, OneEntityKeeps DEF SafetyInv
  <1> QED
    BY <1>3, <1>6, <1>7

\* The steps that change no entity.
LEMMA LoopBacksOff ==
    ASSUME SafetyInv, BackoffInv,
           \/ EndReconcile \/ SkipTick \/ EndTick \/ EndPass
           \/ NightlyUpdates \/ NightlyFails \/ Killed \/ PassFails
           \/ \E version \in 0..MaxVersion : BeginTick(version)
           \/ \E r \in Repos : ConvergeSkips(r)
    PROVE  BackoffInv'
  <1> SUFFICES UNCHANGED << fleet, trips >> /\ LoopGoesOn
    BY SameFleetKeeps DEF SafetyInv
  <1>1. CASE EndReconcile
    BY <1>1 DEF EndReconcile, LoopGoesOn, machineVars
  <1>2. CASE SkipTick
    BY <1>2 DEF SkipTick, LoopGoesOn, machineVars
  <1>3. CASE EndTick
    BY <1>3 DEF EndTick, LoopGoesOn, machineVars
  <1>4. CASE EndPass
    BY <1>4 DEF EndPass, LoopGoesOn, machineVars
  <1>5. CASE NightlyUpdates
    BY <1>5 DEF NightlyUpdates, LoopGoesOn
  <1>6. CASE NightlyFails
    BY <1>6 DEF NightlyFails, LoopGoesOn, machineVars
  <1>7. CASE Killed
    BY <1>7 DEF Killed, LoopGoesOn
  <1>8. ASSUME NEW version \in 0..MaxVersion, BeginTick(version)
        PROVE  UNCHANGED << fleet, trips >> /\ LoopGoesOn
    BY <1>8 DEF BeginTick, LoopGoesOn, machineVars
  <1>9. ASSUME NEW r \in Repos, ConvergeSkips(r)
        PROVE  UNCHANGED << fleet, trips >> /\ LoopGoesOn
    BY <1>9 DEF ConvergeSkips, LoopGoesOn, machineVars
  <1>10. CASE PassFails
    BY <1>10 DEF PassFails, LoopGoesOn, machineVars
  <1> QED
    BY <1>1, <1>2, <1>3, <1>4, <1>5, <1>6, <1>7, <1>8, <1>9, <1>10

\* The clock never goes back.
LEMMA MachineClock ==
    ASSUME MachineNext PROVE now' \in {now, now + 1}
  BY DEF MachineNext, Advance, Release, Die, Connect, OpenSession, StartByHand,
         CmdRemove, DirectoryMoves, CmdAdd, TakeTurn, GoQuiet, EndSession

LEMMA NextBacksOff ==
    ASSUME SafetyInv, BackoffInv, [Next]_vars PROVE BackoffInv'
  <1>1. CASE UNCHANGED vars
    <2>1. UNCHANGED << fleet, trips >> /\ LoopGoesOn
      BY <1>1 DEF vars, LoopGoesOn
    <2> QED
      BY <2>1, SameFleetKeeps DEF SafetyInv
  <1>2. CASE MachineStep
    <2>1. UNCHANGED << fleet, trips >> /\ LoopGoesOn
      BY <1>2, MachineClock DEF MachineStep, LoopGoesOn
    <2> QED
      BY <2>1, SameFleetKeeps DEF SafetyInv
  <1>3. CASE DaemonNext
    <2>1. CASE Start
      BY <2>1, StartBacksOff
    <2>2. CASE Stop
      BY <2>2, StopBacksOff
    <2>3. ASSUME NEW readable \in BOOLEAN, NEW torn \in BOOLEAN, BeginPass(readable, torn)
          PROVE  BackoffInv'
      BY <2>3, BeginPassBacksOff
    <2>4. ASSUME NEW r \in Repos, ReconcileWaits(r) PROVE BackoffInv'
      BY <2>4, ReconcileWaitsBacksOff
    <2>5. ASSUME NEW r \in Repos, ReconcileSpawns(r) PROVE BackoffInv'
      BY <2>5, ReconcileSpawnsBacksOff
    <2>6. ASSUME NEW r \in Repos, NEW read \in Readings(r), RetireRepo(r, read)
          PROVE  BackoffInv'
      BY <2>6, RetireRepoBacksOff
    <2>7. ASSUME NEW r \in Repos, NEW read \in Readings(r),
                 NEW probed \in 0..MaxVersion, ConvergeRepo(r, probed, read)
          PROVE  BackoffInv'
      BY <2>7, ConvergeRepoBacksOff
    <2>8. CASE StopReturns \/ StopFails
      BY <2>8, ReturnBacksOff
    <2>9. CASE \/ EndReconcile \/ SkipTick \/ EndTick \/ EndPass
               \/ NightlyUpdates \/ NightlyFails \/ Killed \/ PassFails
               \/ \E version \in 0..MaxVersion : BeginTick(version)
               \/ \E r \in Repos : ConvergeSkips(r)
      BY <2>9, LoopBacksOff
    <2> QED
      BY <1>3, <2>1, <2>2, <2>3, <2>4, <2>5, <2>6, <2>7, <2>8, <2>9 DEF DaemonNext
  <1> QED
    BY <1>1, <1>2, <1>3 DEF Next

LEMMA InitBacksOff ==
    ASSUME Init PROVE BackoffInv
  <1>1. phase = "down" /\ trips = [r \in Repos |-> << >>]
    BY DEF Init
  <1>2. ASSUME NEW r \in Repos PROVE DOMAIN trips[r] = {}
    BY <1>1
  <1> QED
    BY <1>1, <1>2 DEF BackoffInv, PassNotAhead, BreakerOK, TripsForgottenWithEntity,
                      TripsPast, TripsHoldBack, SpawnedLater

----
(* Whatever the fleet, the crashes, the removals and the re-additions, the   *)
(* supervisor that runs in a directory was started at least the backoff      *)
(* after every trip of that directory's breaker.                             *)
THEOREM BackoffHolds == Spec => []BackoffHonoured
  <1>1. BackoffInv => BackoffHonoured
    BY DEF BackoffInv, BreakerOK, SpawnedLater, BackoffHonoured
  <1>2. SafetyInv /\ BackoffInv /\ [Next]_vars => BackoffInv'
    BY NextBacksOff
  <1>3. Init => BackoffInv
    BY InitBacksOff
  <1> QED
    BY <1>1, <1>2, <1>3, SafetyHolds, PTL DEF Spec

====
