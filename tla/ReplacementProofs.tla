---- MODULE ReplacementProofs ----
(* What a replacement of supervisors promises, for every value of the       *)
(* constants: the rollout that is announced has really happened, and an     *)
(* anchor that does not come back costs a directory one supervisor.         *)
EXTENDS LifetimeProofs

----
(* What plan_drift makes of a supervisor, decision by decision. *)

LEMMA ObservedFields ==
    ASSUME NEW sr \in Entities, NEW probed \in Nat, NEW census \in Censuses
    PROVE  LET seen == Observed(sr, probed, census)
           IN  /\ seen \in Entities
               /\ seen.settings = sr.settings
               /\ SameRecord(seen.supervisor, sr.supervisor)
               /\ seen.supervisor.launchedVersion =
                      IF sr.supervisor.launchedVersion = 0
                      THEN probed ELSE sr.supervisor.launchedVersion
               /\ seen.anchorReplaced = IF census.anchored THEN 0 ELSE sr.anchorReplaced
  <1>1. /\ Observed(sr, probed, census) \in Entities
        /\ Observed(sr, probed, census).settings = sr.settings
        /\ SameRecord(Observed(sr, probed, census).supervisor, sr.supervisor)
    BY ObservedType
  <1>2. /\ Observed(sr, probed, census).supervisor.launchedVersion =
               IF sr.supervisor.launchedVersion = 0
               THEN probed ELSE sr.supervisor.launchedVersion
        /\ Observed(sr, probed, census).anchorReplaced =
               IF census.anchored THEN 0 ELSE sr.anchorReplaced
    BY DEF Observed, Entities, Supervisors
  <1> QED
    BY <1>1, <1>2

\* The entity keeps what was observed, or what it was where nothing is; a
\* restart for a lost anchor, and nothing else, writes down whom it replaces.
DriftOutcome(sr, version, seen, reasons, plan) ==
    \/ /\ plan.decision = "converged"
       /\ plan.sr.supervisor = sr.supervisor
       /\ plan.sr.anchorReplaced = sr.anchorReplaced
       /\ ~Running(sr.supervisor) \/ version = 0
    \/ /\ plan.decision \in {"converged", "defer"}
       /\ plan.sr.supervisor = seen.supervisor
       /\ plan.sr.anchorReplaced = seen.anchorReplaced
       /\ Running(sr.supervisor) /\ version # 0
    \/ /\ plan.decision = "restart"
       /\ plan.sr.supervisor = seen.supervisor
       /\ plan.sr.anchorReplaced = IF "anchor" \in reasons THEN seen.supervisor.pid
                                                           ELSE seen.anchorReplaced
       /\ Running(sr.supervisor) /\ version # 0
       /\ reasons = {"anchor"} => ~RetrySpent(seen)

LEMMA PlanDriftOutcome ==
    ASSUME NEW sr \in Entities, NEW version \in Nat, NEW probed \in Nat,
           NEW quiet \in BOOLEAN, NEW census \in Censuses, NEW time \in Nat
    PROVE  LET seen == Observed(sr, probed, census)
           IN  DriftOutcome(sr, version, seen, DriftReasons(seen, version, census, time),
                            PlanDrift(sr, version, probed, quiet, census, time))
  <1> DEFINE seen == Observed(sr, probed, census)
             reasons == DriftReasons(seen, version, census, time)
             restart == [ClockReset(seen) EXCEPT
                             !.anchorReplaced = IF "anchor" \in reasons
                                                THEN seen.supervisor.pid ELSE @]
             same == [sr EXCEPT !.warnings = @ \ DriftWarnings]
             plan == PlanDrift(sr, version, probed, quiet, census, time)
  <1>1. seen \in Entities
    BY ObservedFields
  <1>2. \/ /\ ~Running(sr.supervisor) \/ version = 0
           /\ plan = [sr |-> same, decision |-> "converged", alert |-> "none"]
        \/ /\ Running(sr.supervisor) /\ version # 0
           /\ \/ plan = [sr |-> ClockReset(seen), decision |-> "converged", alert |-> "none"]
              \/ plan = Deferred(seen, "anchor", time)
              \/ plan = Deferred(seen, "drift", time)
              \/ /\ reasons = {"anchor"} => ~RetrySpent(seen)
                 /\ plan = [sr |-> restart, decision |-> "restart",
                            alert |-> IF census.working > 0 THEN "interrupted" ELSE "none"]
    BY DEF PlanDrift
  <1> HIDE DEF plan, seen, reasons
  <1>3. /\ same.supervisor = sr.supervisor
        /\ same.anchorReplaced = sr.anchorReplaced
    BY DEF Entities
  <1>4. /\ ClockReset(seen).supervisor = seen.supervisor
        /\ ClockReset(seen).anchorReplaced = seen.anchorReplaced
    BY <1>1 DEF ClockReset, Entities
  <1>5. ASSUME NEW kind \in DriftWarnings
        PROVE  /\ Deferred(seen, kind, time).decision = "defer"
               /\ Deferred(seen, kind, time).sr.supervisor = seen.supervisor
               /\ Deferred(seen, kind, time).sr.anchorReplaced = seen.anchorReplaced
    <2>1. Warn(seen, kind) \in Entities /\ Warn(seen, kind).anchorReplaced = seen.anchorReplaced
      BY <1>1, WarnType DEF Entities
    <2>2. StuckAlert(Warn(seen, kind), time).sr.anchorReplaced = Warn(seen, kind).anchorReplaced
      BY <2>1 DEF StuckAlert, Entities
    <2> QED
      BY <1>1, <2>1, <2>2, DeferredFacts DEF Deferred
  <1>6. /\ restart.supervisor = seen.supervisor
        /\ restart.anchorReplaced = IF "anchor" \in reasons THEN seen.supervisor.pid
                                                            ELSE seen.anchorReplaced
    BY <1>1, <1>4 DEF ClockReset, Entities
  <1> HIDE DEF restart, same
  <1>7. "anchor" \in DriftWarnings /\ "drift" \in DriftWarnings
    BY DEF DriftWarnings
  <1>8. DriftOutcome(sr, version, seen, reasons, plan)
    BY <1>2, <1>3, <1>4, <1>5, <1>6, <1>7 DEF DriftOutcome
  <1> QED
    BY <1>8 DEF plan, reasons, seen

----
(* Labels.                                                                  *)
(*                                                                          *)
(* launched_version is what the daemon believes.  It is not the version of  *)
(* the process, which comes from the binary on disk when the process was    *)
(* started; but releases only go forward, so it never overstates it, unless *)
(* it is that of a session, which may be younger than the supervisor.       *)

\* Nobody has heard of a release that does not exist.
BinaryKnown ==
    /\ binaryVersion <= binary
    /\ \A pid \in DOMAIN procs : procs[pid].version <= binary

LabelsHonest ==
    \A r \in Repos \ guessed : Alive(fleet[r].supervisor) =>
        fleet[r].supervisor.launchedVersion <= procs[fleet[r].supervisor.pid].version

LabelInv == BinaryKnown /\ LabelsHonest

\* A process has the version it had, none, or the one on disk when it starts.
VersionsAge ==
    \A pid \in DOMAIN procs' :
        \/ procs'[pid].version \in {0, binary}
        \/ pid \in DOMAIN procs /\ procs'[pid].version = procs[pid].version

LEMMA VersionsStand == ASSUME UNCHANGED procs PROVE VersionsAge
  BY DEF VersionsAge

LEMMA EndsVersions ==
    ASSUME TypeOK, NEW pid \in DOMAIN procs, NEW how \in {"died", "stopped"}, Ends(pid, how)
    PROVE  VersionsAge
  <1>1. /\ procs \in [1..(nextPid - 1) -> Processes]
        /\ procs' = [procs EXCEPT ![pid].state = how, ![pid].starting = FALSE,
                                  ![pid].version = 0, ![pid].created = 0]
    BY DEF TypeOK, MachineTypeOK, Ends
  <1>2. procs[pid] \in Processes
    BY <1>1
  <1>3. procs'[pid].version = 0 /\ DOMAIN procs' = DOMAIN procs
    BY <1>1, <1>2 DEF Processes
  <1>4. \A q \in DOMAIN procs : q # pid => procs'[q] = procs[q]
    BY <1>1
  <1> QED
    BY <1>3, <1>4 DEF VersionsAge

LEMMA StartsVersions ==
    ASSUME TypeOK, NEW r \in Repos, NEW args, Starts(r, binary, args)
    PROVE  VersionsAge
  BY StartsAge DEF VersionsAge

LEMMA MachineVersions ==
    ASSUME TypeOK, MachineNext
    PROVE  VersionsAge /\ binary <= binary'
  <1>1. binary \in Nat
    BY MachineAssumption DEF TypeOK, MachineTypeOK
  <1>2. CASE UNCHANGED procs
    <2>1. binary' \in {binary, binary + 1}
      BY <1>2 DEF MachineNext, Advance, Release, OpenSession, CmdRemove, DirectoryMoves, CmdAdd,
             TakeTurn, GoQuiet, EndSession, Die, Connect, StartByHand
    <2> QED
      BY <1>1, <1>2, <2>1, VersionsStand
  <1>3. ASSUME NEW pid \in DOMAIN procs, Die(pid) PROVE VersionsAge /\ binary <= binary'
    BY <1>1, <1>3, EndsVersions DEF Die
  <1>4. ASSUME NEW pid \in DOMAIN procs, Connect(pid) PROVE VersionsAge /\ binary <= binary'
    <2>1. /\ procs \in [1..(nextPid - 1) -> Processes]
          /\ procs' = [procs EXCEPT ![pid].starting = FALSE]
      BY <1>4 DEF TypeOK, MachineTypeOK, Connect
    <2>2. procs[pid] \in Processes
      BY <2>1
    <2> QED
      BY <1>1, <1>4, <2>1, <2>2 DEF Processes, VersionsAge, Connect
  <1>5. ASSUME NEW r \in Repos, StartByHand(r) PROVE VersionsAge /\ binary <= binary'
    BY <1>1, <1>5, StartsVersions DEF StartByHand
  <1>6. \/ UNCHANGED procs
        \/ \E pid \in DOMAIN procs : Die(pid) \/ Connect(pid)
        \/ \E r \in Repos : StartByHand(r)
    BY DEF MachineNext, Advance, Release, OpenSession, CmdRemove, DirectoryMoves,
           CmdAdd, TakeTurn, GoQuiet, EndSession
  <1> QED
    BY <1>2, <1>3, <1>4, <1>5, <1>6

\* The shape of every step: the binary is never taken back, what is read of it
\* is there, and a supervisor is the one it was or is labelled honestly.
LEMMA LabelsKept ==
    ASSUME SafetyInv, TypeOK', LabelInv, ProcsAge, VersionsAge, binary <= binary',
           binaryVersion' \in {0, binaryVersion, binary, binary'},
           \A r \in Repos \ guessed' :
              \/ ~Running(fleet'[r].supervisor)
              \/ /\ r \notin guessed
                 /\ fleet'[r].supervisor.pid = fleet[r].supervisor.pid
                 /\ fleet'[r].supervisor.launchedVersion = fleet[r].supervisor.launchedVersion
              \/ fleet'[r].supervisor.launchedVersion
                     <= procs'[fleet'[r].supervisor.pid].version
    PROVE  LabelInv'
  <1>1. /\ binary \in Nat /\ binary' \in Nat /\ binaryVersion \in Nat
        /\ \A pid \in DOMAIN procs : procs[pid].version \in Nat
    BY MachineAssumption DEF SafetyInv, TypeOK, MachineTypeOK, Processes
  <1>2. binaryVersion' <= binary'
    BY <1>1 DEF LabelInv, BinaryKnown
  <1>3. ASSUME NEW pid \in DOMAIN procs' PROVE procs'[pid].version <= binary'
    <2>1. CASE procs'[pid].version \in {0, binary}
      BY <1>1, <2>1
    <2>2. CASE pid \in DOMAIN procs /\ procs'[pid].version = procs[pid].version
      BY <1>1, <2>2 DEF LabelInv, BinaryKnown
    <2> QED
      BY <2>1, <2>2 DEF VersionsAge
  <1>4. LabelsHonest'
    <2> SUFFICES ASSUME NEW r \in Repos \ guessed', Alive(fleet[r].supervisor)'
                 PROVE  fleet'[r].supervisor.launchedVersion
                            <= procs'[fleet'[r].supervisor.pid].version
      BY DEF LabelsHonest
    <2> DEFINE pid == fleet'[r].supervisor.pid
    <2>1. pid \in DOMAIN procs' /\ procs'[pid].state = "live"
      BY DEF Alive, LivePid
    <2>2. pid # 0
      BY <2>1 DEF TypeOK, MachineTypeOK
    <2>3. CASE /\ r \notin guessed
               /\ pid = fleet[r].supervisor.pid
               /\ fleet'[r].supervisor.launchedVersion = fleet[r].supervisor.launchedVersion
      <3>1. pid \in DOMAIN procs
        BY <2>2, <2>3 DEF SafetyInv, SupervisorsKnown, Running
      <3>2. procs[pid].state = "live" /\ procs'[pid].version = procs[pid].version
        BY <2>1, <3>1 DEF ProcsAge
      <3>3. Alive(fleet[r].supervisor)
        BY <2>3, <3>1, <3>2 DEF Alive, LivePid
      <3> QED
        BY <2>3, <3>2, <3>3 DEF LabelInv, LabelsHonest
    <2> QED
      BY <2>2, <2>3 DEF Running
  <1> QED
    BY <1>2, <1>3, <1>4 DEF LabelInv, BinaryKnown

\* A step that changes no process: what it needs of LabelsKept besides.
LEMMA SameProcsLabels ==
    ASSUME SafetyInv, TypeOK', LabelInv, UNCHANGED << procs, binary >>,
           binaryVersion' \in {0, binaryVersion, binary},
           \A r \in Repos \ guessed' :
              \/ ~Running(fleet'[r].supervisor)
              \/ /\ r \notin guessed
                 /\ fleet'[r].supervisor.pid = fleet[r].supervisor.pid
                 /\ fleet'[r].supervisor.launchedVersion = fleet[r].supervisor.launchedVersion
              \/ fleet'[r].supervisor.launchedVersion
                     <= procs'[fleet'[r].supervisor.pid].version
    PROVE  LabelInv'
  <1>1. binary <= binary'
    BY MachineAssumption DEF SafetyInv, TypeOK, MachineTypeOK
  <1> QED
    BY <1>1, ProcsStand, VersionsStand, LabelsKept

LEMMA ReconcileWaitsLabels ==
    ASSUME SafetyInv, TypeOK', LabelInv, NEW r \in Repos, ReconcileWaits(r)
    PROVE  LabelInv'
  <1> DEFINE sr == SupervisionPlan(r).sr
  <1>1. /\ UNCHANGED << procs, binary, binaryVersion, guessed >>
        /\ fleet' = [fleet EXCEPT ![r] = sr]
    BY DEF ReconcileWaits, machineVars
  <1>2. sr.supervisor \in {NoSupervisor, fleet[r].supervisor}
    BY SupervisionPlanFacts
  <1>3. fleet'[r] = sr /\ \A q \in Repos : q # r => fleet'[q] = fleet[q]
    BY <1>1 DEF SafetyInv, TypeOK
  <1> HIDE DEF sr
  <1>4. ~Running(NoSupervisor)
    BY NoSupervisorType
  <1> QED
    BY <1>1, <1>2, <1>3, <1>4, SameProcsLabels

\* The label of a new supervisor is the daemon's last look at the binary, which
\* may be older than the binary that is started.
LEMMA ReconcileSpawnsLabels ==
    ASSUME SafetyInv, TypeOK', LabelInv, NEW r \in Repos, ReconcileSpawns(r)
    PROVE  LabelInv'
  <1> DEFINE plan == SupervisionPlan(r)
             sup == Spawned(nextPid, plan.sr.settings)
             sr == [plan.sr EXCEPT !.supervisor = sup]
  <1>1. /\ UNCHANGED << binary, binaryVersion >>
        /\ Starts(r, binary, RcArgs(plan.sr.settings))
        /\ fleet' = [fleet EXCEPT ![r] = sr]
        /\ guessed' = guessed \ {r}
    BY DEF ReconcileSpawns
  <1>2. ProcsAge /\ VersionsAge /\ procs'[nextPid].version = binary
    BY <1>1, StartsAge, StartsVersions DEF SafetyInv
  <1>3. plan.sr \in Entities
    BY SupervisionPlanFacts
  <1>4. sup.pid = nextPid /\ sup.launchedVersion = binaryVersion
    BY DEF Spawned
  <1> HIDE DEF plan, sup
  <1>5. sr.supervisor = sup
    BY <1>3 DEF Entities
  <1>6. fleet'[r] = sr /\ \A q \in Repos : q # r => fleet'[q] = fleet[q]
    BY <1>1 DEF SafetyInv, TypeOK
  <1> HIDE DEF sr
  <1>7. fleet'[r].supervisor.launchedVersion <= procs'[fleet'[r].supervisor.pid].version
    BY <1>2, <1>4, <1>5, <1>6 DEF LabelInv, BinaryKnown
  <1>8. binary <= binary'
    BY <1>1, MachineAssumption DEF SafetyInv, TypeOK, MachineTypeOK
  <1> QED
    BY <1>1, <1>2, <1>6, <1>7, <1>8, LabelsKept

\* What plan_retirement does, called as retire_unregistered calls it.
LEMMA RetirementPlanFacts ==
    ASSUME SafetyInv, NEW r \in Repos, NEW read \in Readings(r)
    PROVE  /\ RetirementPlan(r, read).sr \in Entities
           /\ RetirementPlan(r, read).sr.supervisor = fleet[r].supervisor
           /\ RetirementPlan(r, read).sr.settings = fleet[r].settings
           /\ RetirementPlan(r, read).sr.anchorReplaced = fleet[r].anchorReplaced
  <1> DEFINE live == Alive(fleet[r].supervisor)
             quiet == live /\ AllQuiet(r, read)
             none == [total |-> 0, working |-> 0, anchored |-> FALSE]
             census == IF live THEN Census(r, read) ELSE none
             was == fleet[r]
             time == pass.now
  <1>1. RetirementPlan(r, read) = PlanRetirement(was, live, quiet, census, time)
    BY DEF RetirementPlan
  <1>2. was \in Entities /\ time \in Nat
    BY DEF SafetyInv, TypeOK, Passes
  <1>3. census \in Censuses /\ live \in BOOLEAN /\ quiet \in BOOLEAN
    BY CensusFacts DEF SafetyInv, Censuses, Alive, LivePid
  <1> HIDE DEF live, quiet, census, was, time
  <1>4. /\ PlanRetirement(was, live, quiet, census, time).sr \in Entities
        /\ PlanRetirement(was, live, quiet, census, time).sr.supervisor = was.supervisor
        /\ PlanRetirement(was, live, quiet, census, time).sr.settings = was.settings
    BY <1>2, <1>3, PlanRetirementFacts
  <1>5. PlanRetirement(was, live, quiet, census, time).sr.anchorReplaced = was.anchorReplaced
    BY <1>2, <1>3, PlanRetirementForgets
  <1> QED
    BY <1>1, <1>4, <1>5 DEF was

LEMMA RetireRepoLabels ==
    ASSUME SafetyInv, TypeOK', LabelInv, NEW r \in Repos, NEW read \in Readings(r),
           RetireRepo(r, read)
    PROVE  LabelInv'
  <1> DEFINE sr == IF RetirementPlan(r, read).decision = "forget"
                   THEN [RetirementPlan(r, read).sr EXCEPT !.supervisor = NoSupervisor]
                   ELSE RetirementPlan(r, read).sr
  <1>1. /\ UNCHANGED << procs, binary, binaryVersion, guessed >>
        /\ fleet' = [fleet EXCEPT ![r] = sr]
    BY DEF RetireRepo, machineVars
  <1>2. sr.supervisor \in {NoSupervisor, fleet[r].supervisor}
    BY RetirementPlanFacts DEF Entities
  <1>3. fleet'[r] = sr /\ \A q \in Repos : q # r => fleet'[q] = fleet[q]
    BY <1>1 DEF SafetyInv, TypeOK
  <1> HIDE DEF sr
  <1>4. ~Running(NoSupervisor)
    BY NoSupervisorType
  <1> QED
    BY <1>1, <1>2, <1>3, <1>4, SameProcsLabels

\* What plan_drift makes of a supervisor, called as converge calls it.
LEMMA ConvergePlanFacts ==
    ASSUME SafetyInv, NEW r \in Repos, NEW probed \in 0..MaxVersion,
           NEW read \in Readings(r)
    PROVE  LET was     == fleet[r]
               seen    == Observed(was, probed, Census(r, read))
               reasons == DriftReasons(seen, binaryVersion, Census(r, read), now)
               plan    == PlanDrift(was, binaryVersion, probed, AllQuiet(r, read),
                                    Census(r, read), now)
           IN  /\ DriftOutcome(was, binaryVersion, seen, reasons, plan)
               /\ plan.sr \in Entities
               /\ plan.sr.settings = was.settings
               /\ SameRecord(seen.supervisor, was.supervisor)
               /\ seen.settings = was.settings
               /\ seen.supervisor.launchedVersion =
                      IF was.supervisor.launchedVersion = 0
                      THEN probed ELSE was.supervisor.launchedVersion
               /\ seen.anchorReplaced = IF Census(r, read).anchored THEN 0 ELSE was.anchorReplaced
  <1> DEFINE quiet == AllQuiet(r, read)
             census == Census(r, read)
             was == fleet[r]
             version == binaryVersion
             time == now
             seen == Observed(was, probed, census)
             reasons == DriftReasons(seen, version, census, time)
             plan == PlanDrift(was, version, probed, quiet, census, time)
  <1>1. /\ was \in Entities /\ time \in Nat /\ probed \in Nat /\ version \in Nat
    BY MachineAssumption DEF SafetyInv, TypeOK, MachineTypeOK
  <1>2. census \in Censuses /\ quiet \in BOOLEAN
    BY CensusFacts DEF SafetyInv
  <1> HIDE DEF quiet, census, was, version, time
  <1>3. DriftOutcome(was, version, seen, reasons, plan)
    BY <1>1, <1>2, PlanDriftOutcome
  <1>4. plan.sr \in Entities /\ plan.sr.settings = was.settings
    BY <1>1, <1>2, PlanDriftFacts
  <1>5. /\ SameRecord(seen.supervisor, was.supervisor)
        /\ seen.settings = was.settings
        /\ seen.supervisor.launchedVersion =
               IF was.supervisor.launchedVersion = 0
               THEN probed ELSE was.supervisor.launchedVersion
        /\ seen.anchorReplaced = IF census.anchored THEN 0 ELSE was.anchorReplaced
    BY <1>1, <1>2, ObservedFields
  <1> HIDE DEF seen, reasons, plan
  <1> QED
    BY <1>3, <1>4, <1>5 DEF quiet, census, was, version, time, seen, reasons, plan

\* A probe fills in a label that was missing: with the version of the process
\* itself, or a session's, and then the repo is one that was guessed.
LEMMA ConvergeRepoLabels ==
    ASSUME SafetyInv, TypeOK', LabelInv, NEW r \in Repos, NEW probed \in 0..MaxVersion,
           NEW read \in Readings(r), ConvergeRepo(r, probed, read)
    PROVE  LabelInv'
  <1> DEFINE was == fleet[r]
             seen == Observed(was, probed, Census(r, read))
             reasons == DriftReasons(seen, binaryVersion, Census(r, read), now)
             plan == PlanDrift(was, binaryVersion, probed, AllQuiet(r, read),
                               Census(r, read), now)
             sr == plan.sr
             own == procs[was.supervisor.pid].version
  <1>1. /\ UNCHANGED << procs, binary, binaryVersion >>
        /\ fleet' = [fleet EXCEPT ![r] = sr]
        /\ Alive(was.supervisor)
    BY DEF ConvergeRepo, machineVars
  <1>2. guessed' = IF binaryVersion # 0 /\ was.supervisor.launchedVersion = 0 /\ probed \notin {0, own}
                   THEN guessed \cup {r} ELSE guessed
    BY DEF ConvergeRepo
  <1>3. /\ DriftOutcome(was, binaryVersion, seen, reasons, plan)
        /\ SameRecord(seen.supervisor, was.supervisor)
        /\ seen.supervisor.launchedVersion =
               IF was.supervisor.launchedVersion = 0
               THEN probed ELSE was.supervisor.launchedVersion
    BY ConvergePlanFacts
  <1>4. fleet'[r] = sr /\ \A q \in Repos : q # r => fleet'[q] = fleet[q]
    BY <1>1 DEF SafetyInv, TypeOK
  <1>5. own \in Nat /\ was.supervisor.pid # 0
    <2>1. was.supervisor.pid \in DOMAIN procs
      BY <1>1 DEF Alive, LivePid
    <2>2. procs \in [1..(nextPid - 1) -> Processes] /\ nextPid \in 1..(MaxPid + 1)
      BY DEF SafetyInv, TypeOK, MachineTypeOK
    <2> DEFINE pid == was.supervisor.pid
    <2>3. pid \in 1..(nextPid - 1)
      BY <2>1, <2>2
    <2> HIDE DEF pid
    <2>4. procs[pid] \in Processes /\ pid # 0
      BY <2>2, <2>3, MachineAssumption
    <2>5. procs[pid].version \in Nat
      BY <2>4 DEF Processes
    <2> QED
      BY <2>4, <2>5 DEF pid
  <1>6. \/ sr.supervisor = was.supervisor
        \/ /\ sr.supervisor.pid = was.supervisor.pid
           /\ sr.supervisor.launchedVersion = was.supervisor.launchedVersion
        \/ /\ binaryVersion # 0 /\ was.supervisor.launchedVersion = 0
           /\ sr.supervisor.pid = was.supervisor.pid
           /\ sr.supervisor.launchedVersion = probed
    <2> HIDE DEF was, seen, reasons, plan
    <2> QED
      BY <1>3 DEF DriftOutcome, SameRecord
  <1> HIDE DEF seen, reasons, plan, sr
  <1>7. ASSUME r \notin guessed'
        PROVE  /\ r \notin guessed
               /\ \/ /\ fleet'[r].supervisor.pid = fleet[r].supervisor.pid
                     /\ fleet'[r].supervisor.launchedVersion = fleet[r].supervisor.launchedVersion
                  \/ fleet'[r].supervisor.launchedVersion
                         <= procs'[fleet'[r].supervisor.pid].version
    BY <1>1, <1>2, <1>4, <1>5, <1>6, <1>7
  <1>8. \A q \in Repos : q # r /\ q \notin guessed' => q \notin guessed
    BY <1>2
  <1> QED
    BY <1>1, <1>4, <1>7, <1>8, SameProcsLabels

\* An adopted process has no label yet.
LEMMA StartLabels ==
    ASSUME SafetyInv, TypeOK', LabelInv, Start
    PROVE  LabelInv'
  <1>1. PICK adopted \in [Repos -> 0..(nextPid - 1)] :
            /\ Adoption(adopted)
            /\ fleet' = [r \in Repos |->
                  IF adopted[r] = 0
                  THEN NewEntity(NoSettings)
                  ELSE [NewEntity(IF Registered(r) THEN registry[r] ELSE Defaults)
                            EXCEPT !.supervisor = Adopted(adopted[r])]]
    BY DEF Start
  <1>2. UNCHANGED << procs, binary, guessed >> /\ binaryVersion' \in {0, binary}
    BY DEF Start, machineVars
  <1>3. ASSUME NEW r \in Repos, Running(fleet'[r].supervisor)
        PROVE  fleet'[r].supervisor.launchedVersion
                   <= procs'[fleet'[r].supervisor.pid].version
    <2>1. adopted[r] # 0
      BY <1>1, <1>3, NoSupervisorType DEF NewEntity
    <2>2. adopted[r] \in DOMAIN procs
      BY <1>1, <2>1 DEF Adoption, ProcessesOf
    <2> DEFINE new == NewEntity(IF Registered(r) THEN registry[r] ELSE Defaults)
    <2>3. fleet'[r] = [new EXCEPT !.supervisor = Adopted(adopted[r])]
      BY <1>1, <2>1
    <2>4. fleet'[r].supervisor = Adopted(adopted[r])
      BY <2>3 DEF NewEntity
    <2>5. fleet'[r].supervisor.pid = adopted[r] /\ fleet'[r].supervisor.launchedVersion = 0
      BY <2>4 DEF Adopted
    <2>6. procs[adopted[r]].version \in Nat
      BY <2>2 DEF SafetyInv, TypeOK, MachineTypeOK, Processes
    <2> QED
      BY <1>2, <2>5, <2>6
  <1> QED
    BY <1>2, <1>3, SameProcsLabels

\* Steps that leave every supervisor as it is, or let go of it.
LEMMA LoopLabels ==
    ASSUME SafetyInv, TypeOK', LabelInv,
           \/ Stop \/ StopReturns \/ StopFails \/ Killed
           \/ EndReconcile \/ SkipTick \/ EndTick \/ EndPass \/ NightlyUpdates \/ NightlyFails
           \/ PassFails
           \/ \E readable, torn \in BOOLEAN : BeginPass(readable, torn)
           \/ \E version \in 0..MaxVersion : BeginTick(version)
           \/ \E r \in Repos : ConvergeSkips(r)
    PROVE  LabelInv'
  <1>1. binary <= binary' /\ binaryVersion' \in {0, binaryVersion, binary, binary'}
    <2>1. binary \in Nat
      BY MachineAssumption DEF SafetyInv, TypeOK, MachineTypeOK
    <2>2. CASE NightlyUpdates
      <3>1. binary' \in {binary, binary + 1} /\ RefreshBinaryVersion(binary')
        BY <2>2 DEF NightlyUpdates
      <3> QED
        BY <2>1, <3>1 DEF RefreshBinaryVersion
    <2>3. ASSUME NEW version \in 0..MaxVersion, BeginTick(version)
          PROVE  binary' = binary /\ binaryVersion' \in {binaryVersion, binary}
      BY <2>3 DEF BeginTick, RefreshBinaryVersion, VersionRead, machineVars
    <2>4. CASE ~NightlyUpdates /\ ~\E version \in 0..MaxVersion : BeginTick(version)
      <3>1. binary' = binary /\ binaryVersion' \in {0, binaryVersion}
        BY <2>4 DEF Stop, StopReturns, StopFails, Killed, EndReconcile, SkipTick, EndTick,
                    EndPass, NightlyFails, PassFails, BeginPass, ConvergeSkips, machineVars
      <3> QED
        BY <2>1, <3>1
    <2> QED
      BY <2>1, <2>2, <2>3, <2>4
  <1>2. ProcsAge /\ VersionsAge
    <2>1. CASE Killed
      <3>1. LivePid(stopping.pid) /\ Ends(stopping.pid, "stopped")
        BY <2>1 DEF Killed
      <3>2. stopping.pid \in DOMAIN procs
        BY <3>1 DEF LivePid
      <3> QED
        BY <3>1, <3>2, EndsAge, EndsVersions DEF SafetyInv
    <2>2. CASE ~Killed
      <3>1. UNCHANGED procs
        BY <2>2 DEF Stop, StopReturns, StopFails, EndReconcile, SkipTick, EndTick, EndPass,
                    NightlyUpdates, NightlyFails, PassFails, BeginPass, BeginTick,
                    ConvergeSkips, machineVars
      <3> QED
        BY <3>1, ProcsStand, VersionsStand
    <2> QED
      BY <2>1, <2>2
  <1>3. ASSUME NEW r \in Repos
        PROVE  \/ fleet'[r].supervisor = NoSupervisor
               \/ fleet'[r].supervisor = fleet[r].supervisor /\ guessed' = guessed
    <2>1. CASE Stop
      BY <2>1 DEF Stop, NewEntity
    <2>2. CASE StopReturns \/ StopFails
      <3>1. /\ fleet' \in {fleet, [fleet EXCEPT ![stopping.repo].supervisor = NoSupervisor]}
            /\ guessed' = guessed
        BY <2>2 DEF StopReturns, StopFails
      <3>2. fleet \in [Repos -> Entities] /\ fleet[r] \in Entities
        BY DEF SafetyInv, TypeOK
      <3>3. CASE fleet' = fleet
        BY <3>1, <3>3
      <3>4. CASE fleet' = [fleet EXCEPT ![stopping.repo].supervisor = NoSupervisor]
        <4>1. CASE r = stopping.repo
          <5>1. fleet'[r] = [fleet[r] EXCEPT !.supervisor = NoSupervisor]
            BY <3>2, <3>4, <4>1
          <5> QED
            BY <3>2, <5>1 DEF Entities
        <4>2. CASE r # stopping.repo
          BY <3>1, <3>2, <3>4, <4>2
        <4> QED
          BY <4>1, <4>2
      <3> QED
        BY <3>1, <3>3, <3>4
    <2>3. CASE ~Stop /\ ~StopReturns /\ ~StopFails
      <3>1. UNCHANGED << fleet, guessed >>
        BY <2>3 DEF Killed, EndReconcile, SkipTick, EndTick, EndPass, NightlyUpdates,
                    NightlyFails, PassFails, BeginPass, BeginTick, ConvergeSkips
      <3> QED
        BY <3>1
    <2> QED
      BY <2>1, <2>2, <2>3
  <1>4. ~Running(NoSupervisor)
    BY NoSupervisorType
  <1> QED
    BY <1>1, <1>2, <1>3, <1>4, LabelsKept

LEMMA InitLabels == ASSUME Init PROVE LabelInv
  <1>1. procs = << >> /\ binaryVersion = 0 /\ binary = 1
    BY DEF Init
  <1>2. DOMAIN procs = 1..0 /\ \A pid \in 1..0 : FALSE
    BY <1>1
  <1>3. \A r \in Repos : ~Alive(fleet[r].supervisor)
    BY <1>2 DEF Alive, LivePid
  <1> QED
    BY <1>1, <1>2, <1>3 DEF LabelInv, BinaryKnown, LabelsHonest

LEMMA NextLabels ==
    ASSUME SafetyInv, LabelInv, [Next]_vars PROVE LabelInv'
  <1>1. TypeOK'
    BY NextKeeps DEF SafetyInv
  <1>2. CASE UNCHANGED vars
    <2>1. UNCHANGED << procs, fleet, binary, binaryVersion, guessed >>
      BY <1>2 DEF vars
    <2> QED
      BY <1>1, <2>1, SameProcsLabels
  <1>3. CASE MachineStep
    <2>1. UNCHANGED << fleet, binaryVersion, guessed >> /\ MachineNext
      BY <1>3 DEF MachineStep
    <2>2. ProcsAge /\ VersionsAge /\ binary <= binary'
      BY <2>1, MachineAges, MachineVersions DEF SafetyInv
    <2> QED
      BY <1>1, <2>1, <2>2, LabelsKept
  <1>4. CASE DaemonNext
    <2>1. CASE Start
      BY <1>1, <2>1, StartLabels
    <2>2. ASSUME NEW r \in Repos, ReconcileWaits(r) PROVE LabelInv'
      BY <1>1, <2>2, ReconcileWaitsLabels
    <2>3. ASSUME NEW r \in Repos, ReconcileSpawns(r) PROVE LabelInv'
      BY <1>1, <2>3, ReconcileSpawnsLabels
    <2>4. ASSUME NEW r \in Repos, NEW read \in Readings(r), RetireRepo(r, read)
          PROVE  LabelInv'
      BY <1>1, <2>4, RetireRepoLabels
    <2>5. ASSUME NEW r \in Repos, NEW read \in Readings(r),
                 NEW probed \in 0..MaxVersion, ConvergeRepo(r, probed, read)
          PROVE  LabelInv'
      BY <1>1, <2>5, ConvergeRepoLabels
    <2>6. CASE \/ Stop \/ StopReturns \/ StopFails \/ Killed
               \/ EndReconcile \/ SkipTick \/ EndTick \/ EndPass \/ NightlyUpdates
               \/ NightlyFails \/ PassFails
               \/ \E readable, torn \in BOOLEAN : BeginPass(readable, torn)
               \/ \E version \in 0..MaxVersion : BeginTick(version)
               \/ \E r \in Repos : ConvergeSkips(r)
      BY <1>1, <2>6, LoopLabels
    <2> QED
      BY <1>4, <2>1, <2>2, <2>3, <2>4, <2>5, <2>6 DEF DaemonNext
  <1> QED
    BY <1>2, <1>3, <1>4 DEF Next

(* The label of a running supervisor never claims a release its process does *)
(* not have, whatever was read, probed, missed or released in between, unless *)
(* it was taken from a session.                                              *)
THEOREM LabelsHold == Spec => []LabelInv
  BY InitLabels, NextLabels, SafetyHolds, PTL DEF Spec

LEMMA ConvergeRepoSilent ==
    ASSUME SafetyInv, NEW r \in Repos, NEW read \in Readings(r),
           NEW probed \in 0..MaxVersion, ConvergeRepo(r, probed, read)
    PROVE  notice' \in {"none", "stuck"}
  <1> DEFINE quiet == AllQuiet(r, read)
             census == Census(r, read)
             was == fleet[r]
             version == binaryVersion
             time == now
             plan == PlanDrift(was, version, probed, quiet, census, time)
  <1>1. notice' = IF plan.decision = "defer" THEN plan.alert ELSE "none"
    BY DEF ConvergeRepo
  <1>2. /\ was \in Entities /\ time \in Nat /\ probed \in Nat /\ version \in Nat
    BY MachineAssumption DEF SafetyInv, TypeOK, MachineTypeOK
  <1>3. census \in Censuses /\ quiet \in BOOLEAN
    BY CensusFacts DEF SafetyInv
  <1> HIDE DEF quiet, census, was, version, time
  <1>4. plan.decision = "defer" => plan.alert \in {"none", "stuck"}
    BY <1>2, <1>3, PlanDriftFacts
  <1> HIDE DEF plan
  <1> QED
    BY <1>1, <1>4

LEMMA StopReturnsSilent ==
    ASSUME SafetyInv, StopReturns PROVE notice' \in {"none", "interrupted"}
  <1>1. stopping.pid # 0 /\ notice' = stopping.alert
    BY DEF StopReturns, Stopping
  <1>2. stopping \in Stops
    BY <1>1 DEF SafetyInv, TypeOK, NoStop
  <1>3. stopping.alert \in {"none", "interrupted"}
    BY <1>2 DEF Stops
  <1> QED
    BY <1>1, <1>3

\* Only the end of a tick announces a rollout.
LEMMA EndTickAnnounces ==
    ASSUME SafetyInv, Next, notice' = "fleet updated"
    PROVE  EndTick /\ RolloutComplete
  <1>1. ASSUME NEW r \in Repos, NEW read \in Readings(r), NEW probed \in 0..MaxVersion
        PROVE  ~ConvergeRepo(r, probed, read)
    BY ConvergeRepoSilent
  <1>2. ~StopReturns
    BY StopReturnsSilent
  <1>3. ASSUME NEW r \in Repos
        PROVE  ~ReconcileWaits(r) /\ \A read \in Readings(r) : ~RetireRepo(r, read)
    BY DEF RetireRepo, ReconcileWaits
  <1>4. /\ ~MachineStep /\ ~Start /\ ~Stop /\ ~EndReconcile /\ ~SkipTick
        /\ ~Killed /\ ~StopFails /\ ~NightlyUpdates /\ ~NightlyFails /\ ~EndPass /\ ~PassFails
        /\ \A readable, torn \in BOOLEAN : ~BeginPass(readable, torn)
        /\ \A version \in 0..MaxVersion : ~BeginTick(version)
        /\ \A r \in Repos : ~ReconcileSpawns(r) /\ ~ConvergeSkips(r)
    BY DEF MachineStep, Start, Stop, BeginPass, ReconcileSpawns, ConvergeSkips, EndReconcile,
           BeginTick, SkipTick, Killed, StopFails, NightlyUpdates, NightlyFails, EndPass,
           PassFails
  <1>5. EndTick
    BY <1>1, <1>2, <1>3, <1>4 DEF Next, DaemonNext
  <1> QED
    BY <1>5 DEF EndTick

\* A rollout is complete when the labels say so, and the labels are honest.
LEMMA CompleteIsRunning ==
    ASSUME SafetyInv, LabelInv, RolloutComplete, NEW r \in Repos \ guessed,
           Alive(fleet[r].supervisor)
    PROVE  procs[fleet[r].supervisor.pid].version >= pendingRollout
  <1>1. fleet[r].supervisor.pid \in DOMAIN procs
    BY DEF Alive, LivePid
  <1>2. fleet[r].supervisor.pid # 0 /\ procs[fleet[r].supervisor.pid].version \in Nat
    <2> DEFINE pid == fleet[r].supervisor.pid
    <2>1. procs \in [1..(nextPid - 1) -> Processes] /\ pid \in DOMAIN procs
      BY <1>1 DEF SafetyInv, TypeOK, MachineTypeOK
    <2> HIDE DEF pid
    <2>2. pid # 0 /\ procs[pid] \in Processes
      BY <2>1
    <2> QED
      BY <2>2 DEF Processes, pid
  <1>3. fleet[r].supervisor.launchedVersion = pendingRollout
    BY <1>2 DEF RolloutComplete, Running
  <1>4. pendingRollout \in Nat
    BY MachineAssumption DEF SafetyInv, TypeOK
  <1> QED
    BY <1>2, <1>3, <1>4 DEF LabelInv, LabelsHonest

(* Whenever the fleet is announced updated, every supervisor whose process   *)
(* lives runs at least the release that is announced: releases during the    *)
(* pass, failed reads, adoptions and restarts of the daemon included.  Only  *)
(* an adoptee whose label was taken from a session may be older.             *)
THEOREM RolloutIsTrue == Spec => RolloutAlertTruthful
  <1>1. SafetyInv /\ LabelInv /\ [Next]_vars
            => [notice' = "fleet updated" =>
                   \A r \in Repos \ guessed :
                       Alive(fleet[r].supervisor)
                           => procs[fleet[r].supervisor.pid].version >= pendingRollout]_vars
    <2> SUFFICES ASSUME SafetyInv, LabelInv, Next, notice' = "fleet updated",
                        NEW r \in Repos \ guessed, Alive(fleet[r].supervisor)
                 PROVE  procs[fleet[r].supervisor.pid].version >= pendingRollout
      OBVIOUS
    <2>1. RolloutComplete
      BY EndTickAnnounces
    <2> QED
      BY <2>1, CompleteIsRunning
  <1> QED
    BY <1>1, SafetyHolds, LabelsHold, PTL DEF Spec, RolloutAlertTruthful

----
(* Anchors.                                                                 *)
(*                                                                          *)
(* A supervisor replaced for a lost anchor alone is written down before it  *)
(* is stopped, and the pid that is written down is what refuses the next    *)
(* one.  That the refusal is not passed round takes two facts: the pid is   *)
(* never that of a later supervisor, since it is in use already; and as     *)
(* long as the written-down supervisor itself is still there, because it    *)
(* did not die of the stop, what stops it again is not the anchor alone.    *)
(* The daemon forgets all of it when it ends: the promise is that of one    *)
(* run of the daemon.                                                       *)

\* There is more to replace here than an anchor.
OtherDrift(r) ==
    /\ Running(fleet[r].supervisor)
    /\ \/ fleet[r].supervisor.launchedArgs # RcArgs(fleet[r].settings)
       \/ fleet[r].supervisor.launchedVersion < binaryVersion

SwapSpent(r) ==
    /\ fleet[r].settings # NoSettings
    /\ fleet[r].anchorReplaced # 0
    /\ fleet[r].anchorReplaced = fleet[r].supervisor.pid => OtherDrift(r)
    /\ binaryVersion # 0
    /\ Running(fleet[r].supervisor) => fleet[r].supervisor.launchedVersion \in 1..binaryVersion

StopForAnchor(r) == Stopping /\ stopping.repo = r /\ stopping.reasons = {"anchor"}

AnchorKept(r) ==
    /\ fleet[r].anchorReplaced # 0 => fleet[r].anchorReplaced \in DOMAIN procs
    /\ anchorSwaps[r] \in {0, 1}
    /\ phase = "down" => anchorSwaps[r] = 0
    /\ anchorSwaps[r] = 1 => SwapSpent(r)
    /\ StopForAnchor(r) => /\ anchorSwaps[r] = 0
                           /\ fleet[r].anchorReplaced = stopping.pid
                           /\ binaryVersion # 0

AnchorInv == \A r \in Repos : AnchorKept(r)

\* The steps that leave the fleet alone; a release may be noticed.
LEMMA SameFleetAnchors ==
    ASSUME SafetyInv, TypeOK', LabelInv, AnchorInv, ProcsAge,
           UNCHANGED << fleet, stopping, anchorSwaps >>,
           phase' = "down" => phase = "down",
           binaryVersion' = binaryVersion \/ binaryVersion' \in {binary, binary'},
           binary <= binary'
    PROVE  AnchorInv'
  <1> SUFFICES ASSUME NEW r \in Repos PROVE AnchorKept(r)'
    BY DEF AnchorInv
  <1>1. /\ binary \in Nat \ {0} /\ binary' \in Nat \ {0}
        /\ binaryVersion \in Nat /\ binaryVersion' \in Nat
        /\ fleet[r].supervisor.launchedVersion \in Nat
    BY MachineAssumption DEF SafetyInv, TypeOK, MachineTypeOK, Entities, Supervisors
  <1>2. binaryVersion <= binaryVersion'
    BY <1>1 DEF LabelInv, BinaryKnown
  <1>3. SwapSpent(r) => SwapSpent(r)'
    BY <1>1, <1>2 DEF SwapSpent, OtherDrift
  <1>4. AnchorKept(r)
    BY DEF AnchorInv
  <1> QED
    BY <1>1, <1>2, <1>3, <1>4 DEF AnchorKept, StopForAnchor, Stopping, ProcsAge

\* The steps that change one entity, with no stop under way before.
LEMMA OneEntityAnchors ==
    ASSUME SafetyInv, AnchorInv, ProcsAge, phase # "down", phase' = phase,
           NEW r \in Repos, NEW sr, fleet' = [fleet EXCEPT ![r] = sr],
           binaryVersion' = binaryVersion,
           \A q \in Repos : q # r => anchorSwaps'[q] = anchorSwaps[q],
           stopping' = NoStop \/ stopping'.repo = r,
           AnchorKept(r)'
    PROVE  AnchorInv'
  <1> SUFFICES ASSUME NEW q \in Repos, q # r PROVE AnchorKept(q)'
    BY DEF AnchorInv
  <1>1. fleet'[q] = fleet[q] /\ anchorSwaps'[q] = anchorSwaps[q]
    BY DEF SafetyInv, TypeOK
  <1>2. AnchorKept(q)
    BY DEF AnchorInv
  <1>3. ~StopForAnchor(q)'
    BY DEF StopForAnchor, Stopping, NoStop
  <1>4. SwapSpent(q) => SwapSpent(q)'
    BY <1>1 DEF SwapSpent, OtherDrift
  <1> QED
    BY <1>1, <1>2, <1>3, <1>4 DEF AnchorKept, ProcsAge

\* plan_supervision and the spawn leave the retry alone.
LEMMA SupervisionKeepsAnchor ==
    ASSUME SafetyInv, NEW r \in Repos
    PROVE  SupervisionPlan(r).sr.anchorReplaced = EntityOf(r).anchorReplaced
  <1> DEFINE sr0 == EntityOf(r)
             time == pass.now
             here == r \in present
             trust == r \in pass.trusted
             git == r \in Git
             alive == Alive(EntityOf(r).supervisor)
             sr == [sr0 EXCEPT !.warnings = @ \ SupervisionWarnings]
             gone == [sr EXCEPT !.supervisor = NoSupervisor,
                                !.crashes = RecordCrash(sr.crashes, time).crashes]
             plan == PlanSupervision(sr0, time, here, trust, git, alive)
  <1>1. sr0 \in Entities /\ SupervisionPlan(r) = plan
    BY EntityOfType DEF SupervisionPlan
  <1> HIDE DEF sr0, time, here, trust, git, alive
  <1>2. /\ sr \in Entities /\ sr.anchorReplaced = sr0.anchorReplaced
        /\ gone.anchorReplaced = sr0.anchorReplaced
        /\ Warn(sr, "missing").anchorReplaced = sr0.anchorReplaced
    BY <1>1 DEF Entities, Warn
  <1>3. /\ Warn(sr, "untrusted").anchorReplaced = sr0.anchorReplaced
        /\ Warn(gone, "untrusted").anchorReplaced = sr0.anchorReplaced
        /\ Warn(sr, "no_git").anchorReplaced = sr0.anchorReplaced
        /\ Warn(gone, "no_git").anchorReplaced = sr0.anchorReplaced
    BY <1>1 DEF Entities, Warn
  <1>4. plan.sr \in {sr, gone, Warn(sr, "missing"), Warn(sr, "untrusted"), Warn(gone, "untrusted"),
                     Warn(sr, "no_git"), Warn(gone, "no_git")}
    BY DEF PlanSupervision, SpawnGate
  <1> HIDE DEF sr, gone, plan
  <1>5. plan.sr.anchorReplaced = sr0.anchorReplaced
    BY <1>2, <1>3, <1>4
  <1> QED
    BY <1>1, <1>5 DEF sr0

\* What an entity taken up by reconcile keeps, if its swap is spent.
LEMMA EntityOfAnchor ==
    ASSUME SafetyInv, NEW r \in Repos
    PROVE  /\ SwapSpent(r) => EntityOf(r) = fleet[r]
           /\ EntityOf(r).anchorReplaced \in {0, fleet[r].anchorReplaced}
  BY DEF EntityOf, SwapSpent, NewEntity

LEMMA ReconcileWaitsAnchors ==
    ASSUME SafetyInv, AnchorInv, NEW r \in Repos, ReconcileWaits(r)
    PROVE  AnchorInv'
  <1> DEFINE sr == SupervisionPlan(r).sr
  <1>1. /\ UNCHANGED << procs, phase, stopping, binaryVersion, anchorSwaps >>
        /\ phase = "reconcile" /\ ~Stopping
        /\ fleet' = [fleet EXCEPT ![r] = sr]
    BY DEF ReconcileWaits, machineVars, Turn, MayVisit
  <1>2. /\ sr.supervisor \in {NoSupervisor, fleet[r].supervisor}
        /\ sr.settings = EntityOf(r).settings
        /\ sr.anchorReplaced = EntityOf(r).anchorReplaced
    BY SupervisionPlanFacts, SupervisionKeepsAnchor
  <1>3. fleet'[r] = sr /\ AnchorKept(r)
    BY <1>1 DEF SafetyInv, TypeOK, AnchorInv
  <1> HIDE DEF sr
  <1>4. stopping' = NoStop
    BY <1>1 DEF SafetyInv, TypeOK, Stopping, Stops
  <1>5. SwapSpent(r) => SwapSpent(r)'
    <2>1. ~Running(NoSupervisor) /\ NoSupervisor.pid = 0
      BY NoSupervisorType DEF NoSupervisor
    <2> QED
      BY <1>1, <1>2, <1>3, <2>1, EntityOfAnchor DEF SwapSpent, OtherDrift
  <1>6. AnchorKept(r)'
    BY <1>1, <1>2, <1>3, <1>4, <1>5, EntityOfAnchor
       DEF AnchorKept, StopForAnchor, Stopping, NoStop
  <1> QED
    BY <1>1, <1>4, <1>6, ProcsStand, OneEntityAnchors

\* A supervisor that is started wears a pid nobody wore before it, and is
\* labelled with the version that was last read.
LEMMA ReconcileSpawnsAnchors ==
    ASSUME SafetyInv, AnchorInv, NEW r \in Repos, ReconcileSpawns(r)
    PROVE  AnchorInv'
  <1> DEFINE plan == SupervisionPlan(r)
             sup == Spawned(nextPid, plan.sr.settings)
             sr == [plan.sr EXCEPT !.supervisor = sup]
  <1>1. /\ UNCHANGED << phase, stopping, binaryVersion, anchorSwaps >>
        /\ phase = "reconcile" /\ ~Stopping
        /\ Starts(r, binary, RcArgs(plan.sr.settings))
        /\ fleet' = [fleet EXCEPT ![r] = sr]
    BY DEF ReconcileSpawns, Turn, MayVisit
  <1>2. /\ plan.sr \in Entities
        /\ plan.sr.settings = EntityOf(r).settings
        /\ plan.sr.anchorReplaced = EntityOf(r).anchorReplaced
    BY SupervisionPlanFacts, SupervisionKeepsAnchor
  <1>3. sup.pid = nextPid /\ sup.launchedVersion = binaryVersion
    BY DEF Spawned
  <1> HIDE DEF plan, sup
  <1>4. /\ sr.supervisor = sup
        /\ sr.settings = EntityOf(r).settings
        /\ sr.anchorReplaced = EntityOf(r).anchorReplaced
    BY <1>2 DEF Entities
  <1>5. fleet'[r] = sr /\ AnchorKept(r)
    BY <1>1 DEF SafetyInv, TypeOK, AnchorInv
  <1> HIDE DEF sr
  <1>6. stopping' = NoStop
    BY <1>1 DEF SafetyInv, TypeOK, Stopping, Stops
  <1>7. ProcsAge /\ nextPid \notin DOMAIN procs
    BY <1>1, StartsAge DEF SafetyInv
  <1>8. binaryVersion \in Nat
    BY MachineAssumption DEF SafetyInv, TypeOK
  <1>9. SwapSpent(r) => SwapSpent(r)'
    <2> SUFFICES ASSUME SwapSpent(r) PROVE SwapSpent(r)'
      OBVIOUS
    <2>1. EntityOf(r) = fleet[r]
      BY EntityOfAnchor
    <2>2. fleet[r].anchorReplaced # nextPid
      BY <1>5, <1>7 DEF AnchorKept, SwapSpent
    <2>3. binaryVersion \in 1..binaryVersion
      BY <1>8 DEF SwapSpent
    <2> QED
      BY <1>1, <1>3, <1>4, <1>5, <2>1, <2>2, <2>3 DEF SwapSpent
  <1>10. AnchorKept(r)'
    BY <1>1, <1>4, <1>5, <1>6, <1>7, <1>9, EntityOfAnchor
       DEF AnchorKept, StopForAnchor, Stopping, NoStop, ProcsAge
  <1> QED
    BY <1>1, <1>6, <1>7, <1>10, OneEntityAnchors

LEMMA RetireRepoAnchors ==
    ASSUME SafetyInv, AnchorInv, NEW r \in Repos, NEW read \in Readings(r),
           RetireRepo(r, read)
    PROVE  AnchorInv'
  <1> DEFINE plan == RetirementPlan(r, read)
             sr == IF plan.decision = "forget"
                   THEN [plan.sr EXCEPT !.supervisor = NoSupervisor] ELSE plan.sr
  <1>1. /\ UNCHANGED << procs, phase, binaryVersion, anchorSwaps >>
        /\ phase = "retire" /\ ~Stopping
        /\ fleet' = [fleet EXCEPT ![r] = sr]
        /\ stopping' = NoStop \/ (stopping'.repo = r /\ stopping'.reasons = {})
    BY DEF RetireRepo, machineVars, MayVisit
  <1>2. /\ sr.supervisor \in {NoSupervisor, fleet[r].supervisor}
        /\ sr.settings = fleet[r].settings
        /\ sr.anchorReplaced = fleet[r].anchorReplaced
    <2> HIDE DEF plan
    <2> QED
      BY RetirementPlanFacts DEF Entities, plan
  <1>3. fleet'[r] = sr /\ AnchorKept(r)
    BY <1>1 DEF SafetyInv, TypeOK, AnchorInv
  <1> HIDE DEF sr
  <1>4. ~StopForAnchor(r)'
    BY <1>1 DEF StopForAnchor, Stopping, NoStop
  <1>5. SwapSpent(r) => SwapSpent(r)'
    <2>1. ~Running(NoSupervisor) /\ NoSupervisor.pid = 0
      BY NoSupervisorType DEF NoSupervisor
    <2> QED
      BY <1>1, <1>2, <1>3, <2>1 DEF SwapSpent, OtherDrift
  <1>6. AnchorKept(r)'
    BY <1>1, <1>2, <1>3, <1>4, <1>5 DEF AnchorKept
  <1> QED
    BY <1>1, <1>6, ProcsStand, OneEntityAnchors

\* What a drift reason says.
LEMMA ReasonFacts ==
    ASSUME NEW seen, NEW version, NEW census, NEW time
    PROVE  LET reasons == DriftReasons(seen, version, census, time)
           IN  /\ "version" \in reasons <=> seen.supervisor.launchedVersion # version
               /\ "args" \in reasons <=> seen.supervisor.launchedArgs # RcArgs(seen.settings)
               /\ "anchor" \in reasons => ~census.anchored
  BY DEF DriftReasons, AnchorLost

\* A drift restart for the anchor alone is the first one since an anchor was
\* seen, or there is more to replace than the anchor.
LEMMA ConvergeRepoAnchors ==
    ASSUME SafetyInv, AnchorInv, NEW r \in Repos, NEW probed \in 0..MaxVersion,
           NEW read \in Readings(r), ConvergeRepo(r, probed, read)
    PROVE  AnchorInv'
  <1> DEFINE was == fleet[r]
             census == Census(r, read)
             seen == Observed(was, probed, census)
             reasons == DriftReasons(seen, binaryVersion, census, now)
             plan == PlanDrift(was, binaryVersion, probed, AllQuiet(r, read), census, now)
             sr == plan.sr
             pid == was.supervisor.pid
  <1>1. /\ UNCHANGED << procs, phase, binaryVersion >>
        /\ phase = "tick" /\ ~Stopping
        /\ fleet' = [fleet EXCEPT ![r] = sr]
        /\ anchorSwaps' = [anchorSwaps EXCEPT ![r] = IF census.anchored THEN 0 ELSE @]
        /\ Alive(was.supervisor)
    BY DEF ConvergeRepo, machineVars, Turn, MayVisit
  <1>2. stopping' = IF plan.decision = "restart"
                    THEN [repo |-> r, why |-> "drift", pid |-> pid, reasons |-> reasons,
                          alert |-> plan.alert, seen |-> SessionView(r, read)]
                    ELSE NoStop
    BY DEF ConvergeRepo
  <1>3. \/ stopping' = NoStop
        \/ /\ plan.decision = "restart"
           /\ stopping'.repo = r /\ stopping'.pid = pid /\ stopping'.reasons = reasons
    BY <1>2
  <1>4. /\ DriftOutcome(was, binaryVersion, seen, reasons, plan)
        /\ sr.settings = was.settings
        /\ SameRecord(seen.supervisor, was.supervisor)
        /\ seen.settings = was.settings
        /\ seen.supervisor.launchedVersion =
               IF was.supervisor.launchedVersion = 0
               THEN probed ELSE was.supervisor.launchedVersion
        /\ seen.anchorReplaced = IF census.anchored THEN 0 ELSE was.anchorReplaced
    BY ConvergePlanFacts
  <1>5. /\ "version" \in reasons <=> seen.supervisor.launchedVersion # binaryVersion
        /\ "args" \in reasons <=> seen.supervisor.launchedArgs # RcArgs(seen.settings)
        /\ "anchor" \in reasons => ~census.anchored
    BY ReasonFacts
  <1>6. /\ fleet'[r] = sr
        /\ anchorSwaps'[r] = IF census.anchored THEN 0 ELSE anchorSwaps[r]
        /\ \A q \in Repos : q # r => anchorSwaps'[q] = anchorSwaps[q]
        /\ AnchorKept(r)
        /\ binaryVersion \in Nat
    BY <1>1, MachineAssumption DEF SafetyInv, TypeOK, AnchorInv
  <1>7. pid \in DOMAIN procs /\ pid # 0
    <2>1. pid \in DOMAIN procs
      BY <1>1 DEF Alive, LivePid
    <2> QED
      BY <2>1 DEF SafetyInv, TypeOK, MachineTypeOK
  <1> HIDE DEF was, census, seen, reasons, plan, pid
  <1>8. /\ pid = was.supervisor.pid /\ was = fleet[r]
        /\ seen.supervisor.pid = pid /\ sr.supervisor.pid = pid
        /\ seen.supervisor.launchedArgs = was.supervisor.launchedArgs
        /\ Running(was.supervisor)
    BY <1>4, <1>7 DEF DriftOutcome, SameRecord, Running, was, pid
  <1> HIDE DEF sr
  <1>9. fleet'[r].anchorReplaced # 0 => fleet'[r].anchorReplaced \in DOMAIN procs'
    BY <1>1, <1>4, <1>6, <1>7, <1>8 DEF DriftOutcome, AnchorKept, sr
  <1>10. StopForAnchor(r)' => /\ reasons = {"anchor"} /\ plan.decision = "restart"
                              /\ stopping'.pid = pid
    BY <1>3 DEF StopForAnchor, Stopping, NoStop
  <1>11. ASSUME SwapSpent(r), ~census.anchored
         PROVE  SwapSpent(r)' /\ ~StopForAnchor(r)'
    <2>1. /\ was.settings # NoSettings /\ was.anchorReplaced # 0
          /\ was.anchorReplaced = pid =>
                \/ was.supervisor.launchedArgs # RcArgs(was.settings)
                \/ was.supervisor.launchedVersion < binaryVersion
          /\ binaryVersion # 0
          /\ was.supervisor.launchedVersion \in 1..binaryVersion
      BY <1>8, <1>11 DEF SwapSpent, OtherDrift
    <2>2. /\ seen.supervisor.launchedVersion = was.supervisor.launchedVersion
          /\ seen.anchorReplaced = was.anchorReplaced
      BY <1>4, <1>6, <1>11, <2>1
    <2>3. /\ sr.supervisor.launchedVersion = was.supervisor.launchedVersion
          /\ sr.supervisor.launchedArgs = was.supervisor.launchedArgs
      BY <1>4, <1>8, <2>2 DEF DriftOutcome, sr
    <2>4. Running(sr.supervisor)
      BY <1>7, <1>8 DEF Running
    <2>5. plan.decision = "restart" => reasons # {"anchor"}
      <3> SUFFICES ASSUME plan.decision = "restart", reasons = {"anchor"} PROVE FALSE
        OBVIOUS
      <3>1. ~RetrySpent(seen)
        BY <1>4 DEF DriftOutcome
      <3>2. was.anchorReplaced = pid
        BY <1>8, <2>1, <2>2, <3>1 DEF RetrySpent
      <3>3. "version" \notin reasons /\ "args" \notin reasons
        OBVIOUS
      <3>4. /\ was.supervisor.launchedVersion = binaryVersion
            /\ was.supervisor.launchedArgs = RcArgs(was.settings)
        BY <1>4, <1>5, <1>8, <2>2, <3>3
      <3> QED
        BY <1>6, <2>1, <3>2, <3>4
    <2>6. /\ sr.anchorReplaced # 0
          /\ sr.anchorReplaced = pid =>
                \/ was.supervisor.launchedArgs # RcArgs(was.settings)
                \/ was.supervisor.launchedVersion < binaryVersion
      <3>1. CASE plan.decision = "restart" /\ "anchor" \in reasons
        <4>1. reasons \subseteq {"version", "args", "anchor"}
          BY DEF reasons, DriftReasons
        <4>2. "version" \in reasons \/ "args" \in reasons
          BY <2>5, <3>1, <4>1
        <4>3. \/ was.supervisor.launchedVersion # binaryVersion
              \/ was.supervisor.launchedArgs # RcArgs(was.settings)
          BY <1>4, <1>5, <1>8, <2>2, <4>2
        <4>4. sr.anchorReplaced = pid
          BY <1>4, <1>8, <3>1 DEF DriftOutcome, sr
        <4> QED
          BY <1>6, <1>7, <2>1, <4>3, <4>4
      <3>2. CASE ~(plan.decision = "restart" /\ "anchor" \in reasons)
        <4>1. sr.anchorReplaced = was.anchorReplaced
          BY <1>4, <2>2, <3>2 DEF DriftOutcome, sr
        <4> QED
          BY <2>1, <4>1
      <3> QED
        BY <3>1, <3>2
    <2>7. SwapSpent(r)'
      BY <1>1, <1>4, <1>6, <1>8, <2>1, <2>3, <2>4, <2>6 DEF SwapSpent, OtherDrift, sr
    <2> QED
      BY <1>10, <2>5, <2>7
  <1>12. ASSUME StopForAnchor(r)'
         PROVE  /\ anchorSwaps'[r] = 0
                /\ fleet'[r].anchorReplaced = stopping'.pid
                /\ binaryVersion' # 0
    <2>1. reasons = {"anchor"} /\ plan.decision = "restart" /\ stopping'.pid = pid
      BY <1>10, <1>12
    <2>2. "anchor" \in reasons
      BY <2>1
    <2>3. ~census.anchored
      BY <1>5, <2>2
    <2>4. anchorSwaps[r] = 0
      BY <1>6, <1>11, <1>12, <2>3 DEF AnchorKept
    <2>5. sr.anchorReplaced = pid /\ binaryVersion # 0
      BY <1>4, <1>8, <2>1, <2>2 DEF DriftOutcome, sr
    <2> QED
      BY <1>1, <1>6, <2>1, <2>3, <2>4, <2>5
  <1>13. anchorSwaps'[r] \in {0, 1} /\ (anchorSwaps'[r] = 1 => SwapSpent(r)')
    BY <1>6, <1>11 DEF AnchorKept
  <1>14. AnchorKept(r)'
    BY <1>1, <1>9, <1>12, <1>13 DEF AnchorKept
  <1> QED
    BY <1>1, <1>3, <1>6, <1>14, ProcsStand, OneEntityAnchors

LEMMA StartAnchors ==
    ASSUME SafetyInv, LifeInv, AnchorInv, Start
    PROVE  AnchorInv'
  <1> SUFFICES ASSUME NEW r \in Repos PROVE AnchorKept(r)'
    BY DEF AnchorInv
  <1>1. PICK adopted \in [Repos -> 0..(nextPid - 1)] :
            fleet' = [q \in Repos |->
                  IF adopted[q] = 0
                  THEN NewEntity(NoSettings)
                  ELSE [NewEntity(IF Registered(q) THEN registry[q] ELSE Defaults)
                            EXCEPT !.supervisor = Adopted(adopted[q])]]
    BY DEF Start
  <1>2. UNCHANGED << procs, stopping, anchorSwaps >> /\ phase = "down" /\ phase' = "idle"
    BY DEF Start, machineVars
  <1>3. ~StopForAnchor(r)'
    BY <1>2 DEF LifeInv, StopHitsSupervisor, StopForAnchor, Stopping
  <1>4. fleet'[r].anchorReplaced = 0
    <2>1. CASE adopted[r] = 0
      BY <1>1, <2>1 DEF NewEntity
    <2>2. CASE adopted[r] # 0
      <3> DEFINE new == NewEntity(IF Registered(r) THEN registry[r] ELSE Defaults)
      <3>1. fleet'[r] = [new EXCEPT !.supervisor = Adopted(adopted[r])]
        BY <1>1, <2>2
      <3> QED
        BY <3>1 DEF NewEntity
    <2> QED
      BY <2>1, <2>2
  <1>5. anchorSwaps'[r] = 0
    BY <1>2 DEF AnchorInv, AnchorKept
  <1> QED
    BY <1>2, <1>3, <1>4, <1>5 DEF AnchorKept

\* The stop that was for the anchor alone is the one that is counted, and the
\* process it ended is the one that is written down.
LEMMA ReturnAnchors ==
    ASSUME SafetyInv, LifeInv, AnchorInv, StopReturns \/ StopFails
    PROVE  AnchorInv'
  <1> DEFINE r == stopping.repo
             sr == [fleet[r] EXCEPT !.supervisor = NoSupervisor]
  <1>1. /\ UNCHANGED << procs, phase, binaryVersion >>
        /\ Stopping /\ stopping' = NoStop
        /\ \/ /\ fleet' = [fleet EXCEPT ![r].supervisor = NoSupervisor]
              /\ anchorSwaps' = [anchorSwaps EXCEPT ![r] =
                                    IF stopping.reasons = {"anchor"} THEN @ + 1 ELSE @]
           \/ /\ fleet' \in {fleet, [fleet EXCEPT ![r].supervisor = NoSupervisor]}
              /\ anchorSwaps' = anchorSwaps
    BY DEF StopReturns, StopFails, machineVars
  <1>2. stopping \in Stops /\ r \in Repos /\ stopping.pid # 0
    BY <1>1 DEF SafetyInv, TypeOK, Stopping, NoStop, Stops
  <1>3. /\ phase # "down" /\ fleet[r].supervisor.pid = stopping.pid
        /\ fleet[r].settings # NoSettings
        /\ fleet[r] \in Entities /\ fleet \in [Repos -> Entities]
    BY <1>1, <1>2 DEF LifeInv, StopHitsSupervisor, SupervisorSettled, SafetyInv, TypeOK, Running
  <1>4. /\ sr.supervisor = NoSupervisor /\ sr.settings = fleet[r].settings
        /\ sr.anchorReplaced = fleet[r].anchorReplaced
    BY <1>3 DEF Entities
  <1>5. ~Running(NoSupervisor) /\ NoSupervisor.pid = 0
    BY NoSupervisorType DEF NoSupervisor
  <1> HIDE DEF sr
  <1>6. AnchorKept(r) /\ anchorSwaps \in [Repos -> Nat]
    BY <1>2 DEF AnchorInv, SafetyInv, TypeOK
  <1>7. ASSUME NEW q \in Repos
        PROVE  /\ fleet'[q].supervisor \in {fleet[q].supervisor, NoSupervisor}
               /\ fleet'[q].settings = fleet[q].settings
               /\ fleet'[q].anchorReplaced = fleet[q].anchorReplaced
    <2>1. fleet' \in {fleet, [fleet EXCEPT ![r] = sr]}
      BY <1>1, <1>3 DEF sr
    <2> HIDE DEF r
    <2> QED
      BY <1>2, <1>3, <1>4, <2>1
  <1>8. ASSUME NEW q \in Repos, SwapSpent(q) PROVE SwapSpent(q)'
    BY <1>1, <1>5, <1>7, <1>8 DEF SwapSpent, OtherDrift
  <1>9. ASSUME NEW q \in Repos, anchorSwaps'[q] # anchorSwaps[q]
        PROVE  /\ q = r /\ StopForAnchor(r) /\ anchorSwaps'[q] = anchorSwaps[q] + 1
               /\ fleet'[r].supervisor = NoSupervisor
    <2>1. /\ fleet' = [fleet EXCEPT ![r].supervisor = NoSupervisor]
          /\ anchorSwaps' = [anchorSwaps EXCEPT ![r] =
                                IF stopping.reasons = {"anchor"} THEN @ + 1 ELSE @]
      BY <1>1, <1>9
    <2>2. q = r /\ stopping.reasons = {"anchor"} /\ anchorSwaps'[q] = anchorSwaps[q] + 1
      BY <1>6, <1>9, <2>1
    <2>3. fleet'[r].supervisor = NoSupervisor
      BY <1>2, <1>3, <1>4, <2>1 DEF sr
    <2> QED
      BY <1>1, <2>2, <2>3 DEF StopForAnchor
  <1> SUFFICES ASSUME NEW q \in Repos PROVE AnchorKept(q)'
    BY DEF AnchorInv
  <1>10. AnchorKept(q)
    BY DEF AnchorInv
  <1>11. ~StopForAnchor(q)'
    BY <1>1 DEF StopForAnchor, Stopping, NoStop
  <1>12. anchorSwaps'[q] \in {0, 1} /\ (anchorSwaps'[q] = 1 => SwapSpent(q)')
    <2>1. CASE anchorSwaps'[q] = anchorSwaps[q]
      BY <1>8, <1>10, <2>1 DEF AnchorKept
    <2>2. CASE anchorSwaps'[q] # anchorSwaps[q]
      <3>1. q = r /\ StopForAnchor(r) /\ anchorSwaps'[q] = anchorSwaps[q] + 1
        BY <1>9, <2>2
      <3>2. fleet'[r].supervisor = NoSupervisor
        BY <1>9, <2>2
      <3>3. /\ anchorSwaps[r] = 0 /\ fleet[r].anchorReplaced = stopping.pid
            /\ binaryVersion # 0
        <4> HIDE DEF r
        <4> QED
          BY <1>6, <3>1 DEF AnchorKept
      <3>4. /\ fleet'[q].settings # NoSettings /\ fleet'[q].anchorReplaced # 0
            /\ fleet'[q].supervisor = NoSupervisor
        <4> HIDE DEF r
        <4> QED
          BY <1>2, <1>3, <1>7, <3>1, <3>2, <3>3
      <3>5. SwapSpent(q)'
        BY <1>1, <1>5, <3>3, <3>4 DEF SwapSpent
      <3>6. anchorSwaps'[q] = 1
        <4> HIDE DEF r
        <4> QED
          BY <3>1, <3>3
      <3> QED
        BY <3>5, <3>6
    <2> QED
      BY <2>1, <2>2
  <1> QED
    BY <1>1, <1>3, <1>7, <1>10, <1>11, <1>12 DEF AnchorKept

\* The steps that leave the fleet alone.
LEMMA LoopAnchors ==
    ASSUME SafetyInv, TypeOK', LabelInv, AnchorInv,
           \/ Killed
           \/ EndReconcile \/ SkipTick \/ EndTick \/ EndPass \/ NightlyUpdates \/ NightlyFails
           \/ PassFails
           \/ \E readable, torn \in BOOLEAN : BeginPass(readable, torn)
           \/ \E version \in 0..MaxVersion : BeginTick(version)
           \/ \E r \in Repos : ConvergeSkips(r)
    PROVE  AnchorInv'
  <1>1. UNCHANGED << fleet, stopping, anchorSwaps >> /\ (phase' = "down" => phase = "down")
    BY DEF Killed, EndReconcile, SkipTick, EndTick, EndPass, NightlyUpdates, NightlyFails,
           PassFails, BeginPass, BeginTick, ConvergeSkips
  <1>2. /\ binary <= binary'
        /\ binaryVersion' = binaryVersion \/ binaryVersion' \in {binary, binary'}
    <2>1. binary \in Nat
      BY MachineAssumption DEF SafetyInv, TypeOK, MachineTypeOK
    <2>2. CASE NightlyUpdates
      <3>1. binary' \in {binary, binary + 1} /\ RefreshBinaryVersion(binary')
        BY <2>2 DEF NightlyUpdates
      <3> QED
        BY <2>1, <3>1 DEF RefreshBinaryVersion
    <2>3. ASSUME NEW version \in 0..MaxVersion, BeginTick(version)
          PROVE  binary' = binary /\ binaryVersion' \in {binaryVersion, binary}
      BY <2>3 DEF BeginTick, RefreshBinaryVersion, VersionRead, machineVars
    <2>4. CASE ~NightlyUpdates /\ ~\E version \in 0..MaxVersion : BeginTick(version)
      <3>1. binary' = binary /\ binaryVersion' = binaryVersion
        BY <2>4 DEF Killed, EndReconcile, SkipTick, EndTick, EndPass, NightlyFails, PassFails,
                    BeginPass, ConvergeSkips, machineVars
      <3> QED
        BY <2>1, <3>1
    <2> QED
      BY <2>1, <2>2, <2>3, <2>4
  <1>3. ProcsAge
    <2>1. CASE Killed
      <3>1. LivePid(stopping.pid) /\ Ends(stopping.pid, "stopped")
        BY <2>1 DEF Killed
      <3>2. stopping.pid \in DOMAIN procs
        BY <3>1 DEF LivePid
      <3> QED
        BY <3>1, <3>2, EndsAge DEF SafetyInv
    <2>2. CASE ~Killed
      <3>1. UNCHANGED procs
        BY <2>2 DEF EndReconcile, SkipTick, EndTick, EndPass, NightlyUpdates, NightlyFails,
                    PassFails, BeginPass, BeginTick, ConvergeSkips, machineVars
      <3> QED
        BY <3>1, ProcsStand
    <2> QED
      BY <2>1, <2>2
  <1> QED
    BY <1>1, <1>2, <1>3, SameFleetAnchors

LEMMA InitAnchors == ASSUME Init PROVE AnchorInv
  <1> SUFFICES ASSUME NEW r \in Repos PROVE AnchorKept(r)
    BY DEF AnchorInv
  <1>1. /\ fleet = [q \in Repos |-> NewEntity(NoSettings)]
        /\ stopping = NoStop /\ anchorSwaps = [q \in Repos |-> 0]
    BY DEF Init
  <1>2. fleet[r].anchorReplaced = 0 /\ anchorSwaps[r] = 0
    BY <1>1 DEF NewEntity
  <1>3. ~StopForAnchor(r)
    BY <1>1 DEF StopForAnchor, Stopping, NoStop
  <1> QED
    BY <1>2, <1>3 DEF AnchorKept

LEMMA NextAnchors ==
    ASSUME "restart" \notin Events, SafetyInv, LifeInv, LabelInv, AnchorInv, [Next]_vars
    PROVE  AnchorInv'
  <1>1. TypeOK'
    BY NextKeeps DEF SafetyInv
  <1>2. CASE UNCHANGED vars
    <2>1. UNCHANGED << procs, phase, fleet, stopping, anchorSwaps, binaryVersion, binary >>
      BY <1>2 DEF vars
    <2>2. binary <= binary'
      BY <2>1, MachineAssumption DEF SafetyInv, TypeOK, MachineTypeOK
    <2> QED
      BY <1>1, <2>1, <2>2, ProcsStand, SameFleetAnchors
  <1>3. CASE MachineStep
    <2>1. UNCHANGED << phase, fleet, stopping, anchorSwaps, binaryVersion >> /\ MachineNext
      BY <1>3 DEF MachineStep
    <2>2. ProcsAge /\ binary <= binary'
      BY <2>1, MachineAges, MachineVersions DEF SafetyInv
    <2> QED
      BY <1>1, <2>1, <2>2, SameFleetAnchors
  <1>4. CASE DaemonNext
    <2>1. CASE Start
      BY <2>1, StartAnchors
    <2>2. ~Stop
      BY DEF Stop
    <2>3. ASSUME NEW r \in Repos, ReconcileWaits(r) PROVE AnchorInv'
      BY <2>3, ReconcileWaitsAnchors
    <2>4. ASSUME NEW r \in Repos, ReconcileSpawns(r) PROVE AnchorInv'
      BY <2>4, ReconcileSpawnsAnchors
    <2>5. ASSUME NEW r \in Repos, NEW read \in Readings(r), RetireRepo(r, read)
          PROVE  AnchorInv'
      BY <2>5, RetireRepoAnchors
    <2>6. ASSUME NEW r \in Repos, NEW read \in Readings(r),
                 NEW probed \in 0..MaxVersion, ConvergeRepo(r, probed, read)
          PROVE  AnchorInv'
      BY <2>6, ConvergeRepoAnchors
    <2>7. CASE StopReturns \/ StopFails
      BY <2>7, ReturnAnchors
    <2>8. CASE \/ Killed
               \/ EndReconcile \/ SkipTick \/ EndTick \/ EndPass \/ NightlyUpdates
               \/ NightlyFails \/ PassFails
               \/ \E readable, torn \in BOOLEAN : BeginPass(readable, torn)
               \/ \E version \in 0..MaxVersion : BeginTick(version)
               \/ \E r \in Repos : ConvergeSkips(r)
      BY <1>1, <2>8, LoopAnchors
    <2> QED
      BY <1>4, <2>1, <2>2, <2>3, <2>4, <2>5, <2>6, <2>7, <2>8 DEF DaemonNext
  <1> QED
    BY <1>2, <1>3, <1>4 DEF Next

(* "It replaces the supervisor once": within a run of the daemon, whatever   *)
(* dies, is released, added, removed, retired or cannot be killed, no second *)
(* supervisor of a directory is swapped out for a lost anchor alone before a *)
(* drift check has seen an anchor there again.                               *)
THEOREM AnchorSwappedOnce ==
    ASSUME "restart" \notin Events PROVE Spec => []AnchorReplacedOnce
  <1>1. Init => AnchorInv
    BY InitAnchors
  <1>2. SafetyInv /\ LifeInv /\ LabelInv /\ AnchorInv /\ [Next]_vars => AnchorInv'
    BY NextAnchors
  <1>3. AnchorInv => AnchorReplacedOnce
    BY DEF AnchorInv, AnchorKept, AnchorReplacedOnce
  <1> QED
    BY <1>1, <1>2, <1>3, SafetyHolds, LifeHolds, LabelsHold, PTL DEF Spec

====
