---- MODULE Daemon ----
(* The daemon (daemon.py): one thread that goes round a loop of passes.     *)
(* A pass reads the registry, reconciles every entry, retires supervisors   *)
(* of unregistered directories, and once an hour ticks: it refreshes the    *)
(* binary version, converges every repo and looks at the rollout.           *)
(*                                                                          *)
(* A step of this module handles one repo of one phase.  A terminate() is   *)
(* not one step: it takes up to 70 seconds, and the machine goes on         *)
(* meanwhile, so the decision, the process's end and the return are steps   *)
(* of their own.                                                            *)
EXTENDS Machine

CONSTANTS
    MaxSpawnsPerPass,  \* MAX_SPAWNS_PER_PASS
    Defaults           \* the global settings of config.toml

ASSUME DaemonAssumption ==
    /\ MaxSpawnsPerPass \in Nat
    /\ Defaults \in Settings

VARIABLES
    phase,           \* where the loop is; "down" without a daemon
    pass,            \* what this pass read, and the repos it still has to visit
    fleet,           \* Daemon.fleet: the entity of each directory
    stopping,        \* the terminate() in progress
    binaryVersion,   \* Daemon.binary_version
    pendingRollout,  \* Daemon.pending_rollout
    notice,          \* the alert the last step sent
    anchorSwaps,     \* history: anchor-only replacements since an anchor was seen
    trips,           \* history: when the crash breaker tripped
    guessed          \* history: the repos whose supervisor has a session's version
                     \* for a label, and not the one of its own process

daemonVars == << phase, pass, fleet, stopping, binaryVersion, pendingRollout,
                 notice, anchorSwaps, trips, guessed >>

vars == << now, procs, nextPid, sess, registry, trusted, present, binary,
           phase, pass, fleet, stopping, binaryVersion, pendingRollout,
           notice, anchorSwaps, trips, guessed >>

Phases == {"down", "idle", "reconcile", "retire", "tick", "wrapup"}

Passes ==
    [entries : [Repos -> Settings \cup {NoSettings}], now : Nat,
     trusted : SUBSET Repos, todo : SUBSET Repos, spawned : 0..MaxSpawnsPerPass]

Stops ==
    [repo : Repos, why : {"drift", "retirement"}, pid : Nat \ {0},
     reasons : SUBSET {"version", "args", "anchor"},
     alert : {"none", "interrupted"}, seen : [Sessions -> SessionStates]]

NoStop == [pid |-> 0]

Notices ==
    {"none", "crash loop", "stuck", "interrupted", "fleet updated", "update failed"}

TypeOK ==
    /\ MachineTypeOK
    /\ phase \in Phases
    /\ pass \in Passes
    /\ fleet \in [Repos -> Entities]
    /\ stopping \in Stops \cup {NoStop}
    /\ binaryVersion \in 0..MaxVersion
    /\ pendingRollout \in 0..MaxVersion
    /\ notice \in Notices
    /\ anchorSwaps \in [Repos -> Nat]
    /\ trips \in [Repos -> Seq(Nat)]
    /\ guessed \subseteq Repos

----
(* Helpers of the shell. *)

Stopping == stopping.pid # 0

EntryOf(r) == pass.entries[r] # NoSettings

\* Forgetting the entity of a directory that left the registry, instead of
\* keeping it for a directory that is removed and added again.
EntityOf_Recreated(r) == NewEntity(pass.entries[r])

\* Daemon.repo: the entity, created with the entry's settings at first sight.
EntityOf(r) ==
    IF fleet[r].settings = NoSettings THEN NewEntity(pass.entries[r]) ELSE fleet[r]

\* Repos are visited one at a time: entries in the order of the registry, which
\* save_registry sorts, and the fleet in the order its entities were made.
MayVisit(r) == ~Stopping /\ r \in pass.todo

Turn(r) == MayVisit(r) /\ \A q \in pass.todo : r <= q

\* trusted_paths: nothing is trusted when ~/.claude.json is read torn.
TrustSnapshot(torn) == IF torn THEN {} ELSE trusted

\* binary_version, 0 when it answers None.
VersionRead(version) == version = binary \/ (version = 0 /\ "noversion" \in Events)

\* The version of an engine session that the tick found in the directory when it
\* began: of whichever process and release, that session need not be there now.
SessionVersion(version) == Sessions # {} /\ version \in 1..binary

\* process_version, and where it answers None the version of a session, if any.
VersionProbed(pid, version) ==
    \/ version = procs[pid].version
    \/ "noversion" \in Events /\ (version = 0 \/ SessionVersion(version))

Visited(r) == [pass EXCEPT !.todo = @ \ {r}]

Spawned(pid, settings) ==
    [pid |-> pid, launchedVersion |-> binaryVersion,
     launchedArgs |-> RcArgs(settings), spawnedAt |-> now]

Adopted(pid) ==
    [pid |-> pid, launchedVersion |-> 0,
     launchedArgs |-> procs[pid].args, spawnedAt |-> procs[pid].created]

----
(* Start, stop and crash. *)

Adoptable_RegisteredOnly(r) == Registered(r)

\* match_orphans: which process of each repo a starting daemon adopts.  A repository
\* is a directory with a .git in it, so one that is gone is none.
Adoptable(r) == Registered(r) \/ (r \in UnderRoot /\ r \in Git /\ r \in present)

Adoption(adopted) ==
    \A r \in Repos :
        IF Adoptable(r) /\ ProcessesOf(r) # {}
        THEN adopted[r] \in ProcessesOf(r)
        ELSE adopted[r] = 0

Start ==
    /\ phase = "down"
    /\ phase' = "idle"
    /\ \E adopted \in [Repos -> 0..(nextPid - 1)] :
          /\ Adoption(adopted)
          /\ fleet' = [r \in Repos |->
                IF adopted[r] = 0
                THEN NewEntity(NoSettings)
                ELSE [NewEntity(IF Registered(r) THEN registry[r] ELSE Defaults)
                          EXCEPT !.supervisor = Adopted(adopted[r])]]
    /\ pass' = [pass EXCEPT !.entries = registry]
    /\ \E version \in {0, binary} : VersionRead(version) /\ binaryVersion' = version
    /\ notice' = "none"
    /\ UNCHANGED << machineVars, stopping, pendingRollout, anchorSwaps, trips, guessed >>

\* The daemon exits or crashes, wherever it is, and forgets; its children live on.
Stop ==
    /\ "restart" \in Events
    /\ phase # "down"
    /\ phase' = "down"
    /\ fleet' = [r \in Repos |-> NewEntity(NoSettings)]
    /\ pass' = [entries |-> [r \in Repos |-> NoSettings], now |-> 0,
                trusted |-> {}, todo |-> {}, spawned |-> 0]
    /\ stopping' = NoStop
    /\ binaryVersion' = 0
    /\ pendingRollout' = 0
    /\ notice' = "none"
    /\ trips' = [r \in Repos |-> << >>]
    /\ guessed' = {}
    /\ UNCHANGED << machineVars, anchorSwaps >>

----
(* Reconcile. *)

\* The top of the loop: the clock, the registry (kept from the last pass when it
\* cannot be read) and the trust snapshot (empty when ~/.claude.json is torn).
BeginPass(readable, torn) ==
    /\ phase = "idle"
    /\ readable \/ "unreadable" \in Events
    /\ torn => "torn" \in Events
    /\ LET entries == IF readable THEN registry ELSE pass.entries
       IN  pass' = [entries |-> entries, now |-> now,
                    trusted |-> TrustSnapshot(torn),
                    todo |-> {r \in Repos : entries[r] # NoSettings}, spawned |-> 0]
    /\ phase' = "reconcile"
    /\ notice' = "none"
    /\ UNCHANGED << machineVars, fleet, stopping, binaryVersion, pendingRollout,
                    anchorSwaps, trips, guessed >>

SupervisionPlan(r) ==
    PlanSupervision(EntityOf(r), pass.now, r \in present, r \in pass.trusted,
                    r \in Git, Alive(EntityOf(r).supervisor))

\* One entry of the registry that is not spawned in this pass: it waits, the
\* breaker trips, the ramp is full, or the spawn fails with an OSError.
ReconcileWaits(r) ==
    LET plan == SupervisionPlan(r)
    IN  /\ phase = "reconcile"
        /\ Turn(r)
        /\ \/ plan.decision # "spawn"
           \/ pass.spawned >= MaxSpawnsPerPass
           \/ "oserror" \in Events
           \/ nextPid > MaxPid
        /\ fleet' = [fleet EXCEPT ![r] = plan.sr]
        /\ pass' = Visited(r)
        /\ notice' = IF plan.decision = "alert" THEN "crash loop" ELSE "none"
        /\ trips' = IF plan.decision = "alert"
                    THEN [trips EXCEPT ![r] = Append(@, pass.now)] ELSE trips
        /\ UNCHANGED << machineVars, phase, stopping, binaryVersion, pendingRollout,
                        anchorSwaps, guessed >>

\* One entry that gets a supervisor.
ReconcileSpawns(r) ==
    LET plan == SupervisionPlan(r)
    IN  /\ phase = "reconcile"
        /\ Turn(r)
        /\ plan.decision = "spawn"
        /\ pass.spawned < MaxSpawnsPerPass
        /\ Starts(r, binary, RcArgs(plan.sr.settings))
        /\ fleet' = [fleet EXCEPT ![r] =
                        [plan.sr EXCEPT !.supervisor = Spawned(nextPid, plan.sr.settings)]]
        /\ pass' = [Visited(r) EXCEPT !.spawned = @ + 1]
        /\ guessed' = guessed \ {r}
        /\ notice' = "none"
        /\ UNCHANGED << now, sess, registry, trusted, present, binary, phase, stopping,
                        binaryVersion, pendingRollout, anchorSwaps, trips >>

EndReconcile ==
    /\ phase = "reconcile"
    /\ pass.todo = {}
    /\ phase' = "retire"
    /\ pass' = [pass EXCEPT !.trusted = {}, !.spawned = 0, !.todo =
                    {r \in Repos : ~EntryOf(r) /\ Running(fleet[r].supervisor)}]
    /\ notice' = "none"
    /\ UNCHANGED << machineVars, fleet, stopping, binaryVersion, pendingRollout,
                    anchorSwaps, trips, guessed >>

----
(* Retirement of unregistered directories. *)

RetirementPlan(r, read) ==
    LET alive == Alive(fleet[r].supervisor)
        live  == [total |-> 0, working |-> 0, anchored |-> FALSE]
    IN  PlanRetirement(fleet[r], alive, alive /\ AllQuiet(r, read),
                       IF alive THEN Census(r, read) ELSE live, pass.now)

RetireRepo(r, read) ==
    LET plan == RetirementPlan(r, read)
        sr   == IF plan.decision = "forget"
                THEN [plan.sr EXCEPT !.supervisor = NoSupervisor] ELSE plan.sr
    IN  /\ phase = "retire"
        /\ MayVisit(r)
        /\ fleet' = [fleet EXCEPT ![r] = sr]
        /\ stopping' = IF plan.decision = "terminate"
                       THEN [repo |-> r, why |-> "retirement",
                             pid |-> fleet[r].supervisor.pid, reasons |-> {},
                             alert |-> "none", seen |-> SessionView(r, read)]
                       ELSE NoStop
        /\ pass' = Visited(r)
        /\ notice' = IF plan.decision = "alert" THEN "stuck" ELSE "none"
        /\ UNCHANGED << machineVars, phase, binaryVersion, pendingRollout,
                        anchorSwaps, trips, guessed >>

----
(* The hourly tick. *)

\* refresh_binary_version, given the version just read (0: it could not be).
RefreshBinaryVersion(version) ==
    /\ binaryVersion' = IF version = 0 THEN binaryVersion ELSE version
    /\ pendingRollout' = IF version \notin {0, binaryVersion} /\ binaryVersion # 0
                         THEN version ELSE pendingRollout

BeginTick(version) ==
    /\ phase = "retire"
    /\ pass.todo = {}
    /\ ~Stopping
    /\ VersionRead(version)
    /\ phase' = "tick"
    /\ pass' = [pass EXCEPT !.now = 0, !.todo = {r \in Repos : EntryOf(r)}]
    /\ RefreshBinaryVersion(version)
    /\ notice' = "none"
    /\ UNCHANGED << machineVars, fleet, stopping, anchorSwaps, trips, guessed >>

\* The tick is not due yet.
SkipTick ==
    /\ phase = "retire"
    /\ pass.todo = {}
    /\ ~Stopping
    /\ phase' = "wrapup"
    /\ pass' = [pass EXCEPT !.now = 0]
    /\ notice' = "none"
    /\ UNCHANGED << machineVars, fleet, stopping, binaryVersion, pendingRollout,
                    anchorSwaps, trips, guessed >>

\* A repo converge() leaves alone: no directory, no supervisor, or a dead one; or
\* reading its sessions raised an exception, which tick catches.
ConvergeSkips(r) ==
    /\ phase = "tick"
    /\ Turn(r)
    /\ r \notin present \/ ~Alive(fleet[r].supervisor) \/ "exception" \in Events
    /\ pass' = Visited(r)
    /\ notice' = "none"
    /\ UNCHANGED << machineVars, phase, fleet, stopping, binaryVersion, pendingRollout,
                    anchorSwaps, trips, guessed >>

\* converge: probe, one fresh read of the clock and the sessions, the decision,
\* and the start of the stop it may ask for.
ConvergeRepo(r, probed, read) ==
    LET sup    == fleet[r].supervisor
        census == Census(r, read)
        plan   == PlanDrift(fleet[r], binaryVersion, probed, AllQuiet(r, read), census, now)
    IN  /\ phase = "tick"
        /\ Turn(r)
        /\ r \in present
        /\ Alive(sup)
        /\ VersionProbed(sup.pid, probed)
        /\ fleet' = [fleet EXCEPT ![r] = plan.sr]
        /\ stopping' = IF plan.decision = "restart"
                       THEN [repo |-> r, why |-> "drift", pid |-> sup.pid,
                             reasons |-> DriftReasons(Observed(fleet[r], probed, census),
                                                      binaryVersion, census, now),
                             alert |-> plan.alert, seen |-> SessionView(r, read)]
                       ELSE NoStop
        /\ pass' = Visited(r)
        /\ notice' = IF plan.decision = "defer" THEN plan.alert ELSE "none"
        /\ anchorSwaps' = [anchorSwaps EXCEPT ![r] = IF census.anchored THEN 0 ELSE @]
        /\ guessed' = IF /\ binaryVersion # 0 /\ sup.launchedVersion = 0
                         /\ probed \notin {0, procs[sup.pid].version}
                      THEN guessed \cup {r} ELSE guessed
        /\ UNCHANGED << machineVars, phase, binaryVersion, pendingRollout, trips >>

RolloutComplete_Any ==
    /\ pendingRollout # 0
    /\ pendingRollout = binaryVersion
    /\ \E r \in Repos : Running(fleet[r].supervisor)

\* check_rollout_complete: the supervisors of the fleet that are running.
RolloutComplete ==
    LET running == {r \in Repos : Running(fleet[r].supervisor)}
    IN  /\ pendingRollout # 0
        /\ pendingRollout = binaryVersion
        /\ running # {}
        /\ \A r \in running : fleet[r].supervisor.launchedVersion = pendingRollout

EndTick ==
    /\ phase = "tick"
    /\ pass.todo = {}
    /\ ~Stopping
    /\ phase' = "wrapup"
    /\ notice' = IF RolloutComplete THEN "fleet updated" ELSE "none"
    /\ pendingRollout' = IF RolloutComplete THEN 0 ELSE pendingRollout
    /\ UNCHANGED << machineVars, pass, fleet, stopping, binaryVersion,
                    anchorSwaps, trips, guessed >>

----
(* terminate, and what its two callers do with its answer. *)

\* SIGTERM, or SIGKILL a minute later, ends the process.
Killed ==
    /\ Stopping
    /\ LivePid(stopping.pid)
    /\ Ends(stopping.pid, "stopped")
    /\ notice' = "none"
    /\ UNCHANGED << now, nextPid, registry, trusted, present, binary, phase, pass, fleet,
                    stopping, binaryVersion, pendingRollout, anchorSwaps, trips, guessed >>

\* Leaving the stopped supervisor in place for the next pass to find dead.
StopReturns_KeepsSupervisor ==
    /\ Stopping
    /\ ~LivePid(stopping.pid)
    /\ notice' = stopping.alert
    /\ stopping' = NoStop
    /\ UNCHANGED << machineVars, phase, pass, fleet, binaryVersion, pendingRollout,
                    anchorSwaps, trips, guessed >>

\* The process is gone: both callers release the supervisor, converge alerts.
StopReturns ==
    /\ Stopping
    /\ ~LivePid(stopping.pid)
    /\ fleet' = [fleet EXCEPT ![stopping.repo].supervisor = NoSupervisor]
    /\ anchorSwaps' = [anchorSwaps EXCEPT ![stopping.repo] =
                          IF stopping.reasons = {"anchor"} THEN @ + 1 ELSE @]
    /\ notice' = stopping.alert
    /\ stopping' = NoStop
    /\ UNCHANGED << machineVars, phase, pass, binaryVersion, pendingRollout, trips, guessed >>

\* Neither caller looks at the answer.
StopFails_Ignored ==
    /\ "unkillable" \in Events
    /\ Stopping
    /\ LivePid(stopping.pid)
    /\ fleet' = [fleet EXCEPT ![stopping.repo].supervisor = NoSupervisor]
    /\ notice' = "none"
    /\ stopping' = NoStop
    /\ UNCHANGED << machineVars, phase, pass, binaryVersion, pendingRollout,
                    anchorSwaps, trips, guessed >>

\* The process survives even SIGKILL.  converge keeps its supervisor and sends
\* no alert; retire_unregistered does not look at the answer.
StopFails ==
    /\ "unkillable" \in Events
    /\ Stopping
    /\ LivePid(stopping.pid)
    /\ fleet' = IF stopping.why = "retirement"
                THEN [fleet EXCEPT ![stopping.repo].supervisor = NoSupervisor]
                ELSE fleet
    /\ notice' = "none"
    /\ stopping' = NoStop
    /\ UNCHANGED << machineVars, phase, pass, binaryVersion, pendingRollout,
                    anchorSwaps, trips, guessed >>

----
(* The end of a pass. *)

\* nightly: `claude update` runs, whatever its exit code, and may install a
\* release before the version is read again.
NightlyUpdates ==
    /\ phase = "wrapup"
    /\ phase' = "idle"
    /\ binary' \in {v \in {binary, binary + 1} : v <= MaxVersion}
    /\ RefreshBinaryVersion(binary')
    /\ notice' \in {"none", "update failed"}
    /\ UNCHANGED << now, procs, nextPid, sess, registry, trusted, present, pass, fleet,
                    stopping, anchorSwaps, trips, guessed >>

\* nightly: the update cannot be run or times out, and nothing is refreshed.
NightlyFails ==
    /\ phase = "wrapup"
    /\ phase' = "idle"
    /\ notice' = "update failed"
    /\ UNCHANGED << machineVars, pass, fleet, stopping, binaryVersion, pendingRollout,
                    anchorSwaps, trips, guessed >>

EndPass ==
    /\ phase = "wrapup"
    /\ phase' = "idle"
    /\ notice' = "none"
    /\ UNCHANGED << machineVars, pass, fleet, stopping, binaryVersion, pendingRollout,
                    anchorSwaps, trips, guessed >>

\* An exception that nothing nearer to it catches ends the pass where it is, and
\* what the pass had still to do is left to the next one.
PassFails ==
    /\ "exception" \in Events
    /\ phase \in {"reconcile", "retire", "tick"}
    /\ ~Stopping
    /\ phase' = "idle"
    /\ pass' = [pass EXCEPT !.now = 0, !.trusted = {}, !.todo = {}, !.spawned = 0]
    /\ notice' = "none"
    /\ UNCHANGED << machineVars, fleet, stopping, binaryVersion, pendingRollout,
                    anchorSwaps, trips, guessed >>

----
Init ==
    /\ now = 1
    /\ procs = << >>
    /\ nextPid = 1
    /\ sess = [r \in Repos |-> [s \in Sessions |-> NoSession]]
    /\ registry \in [Repos -> Offered \cup {NoSettings}]
    /\ trusted = {r \in Repos : registry[r] # NoSettings}
    /\ present = Repos
    /\ binary = 1
    /\ phase = "down"
    /\ pass = [entries |-> [r \in Repos |-> NoSettings], now |-> 0,
               trusted |-> {}, todo |-> {}, spawned |-> 0]
    /\ fleet = [r \in Repos |-> NewEntity(NoSettings)]
    /\ stopping = NoStop
    /\ binaryVersion = 0
    /\ pendingRollout = 0
    /\ notice = "none"
    /\ anchorSwaps = [r \in Repos |-> 0]
    /\ trips = [r \in Repos |-> << >>]
    /\ guessed = {}

MachineStep ==
    /\ MachineNext
    /\ notice' = "none"
    /\ UNCHANGED << phase, pass, fleet, stopping, binaryVersion, pendingRollout,
                    anchorSwaps, trips, guessed >>

DaemonNext ==
    \/ Start
    \/ Stop
    \/ \E readable, torn \in BOOLEAN : BeginPass(readable, torn)
    \/ \E r \in Repos :
          \/ ReconcileWaits(r)
          \/ ReconcileSpawns(r)
          \/ ConvergeSkips(r)
          \/ \E read \in Readings(r) :
                \/ RetireRepo(r, read)
                \/ \E probed \in 0..MaxVersion : ConvergeRepo(r, probed, read)
    \/ EndReconcile
    \/ \E version \in 0..MaxVersion : BeginTick(version)
    \/ SkipTick
    \/ EndTick
    \/ Killed
    \/ StopReturns
    \/ StopFails
    \/ NightlyUpdates
    \/ NightlyFails
    \/ EndPass
    \/ PassFails

Next == DaemonNext \/ MachineStep

Spec == Init /\ [][Next]_vars

(* The loop runs: `Restart=on-failure` brings the daemon back, nothing in a  *)
(* pass waits on another process for ever (every wait has a timeout), and    *)
(* the tick falls due again and again, however many passes skip it.  A       *)
(* process that was started connects, one that was signalled goes, and the   *)
(* clock moves.  Nothing is assumed of sessions, releases, deaths or users.  *)
LoopStep ==
    \/ Start
    \/ BeginPass(TRUE, FALSE)
    \/ \E r \in Repos :
          \/ ReconcileWaits(r)
          \/ ReconcileSpawns(r)
          \/ ConvergeSkips(r)
          \/ \E read \in Readings(r) :
                \/ RetireRepo(r, read)
                \/ \E probed \in 0..MaxVersion : ConvergeRepo(r, probed, read)
    \/ EndReconcile
    \/ SkipTick
    \/ EndTick
    \/ Killed
    \/ StopReturns
    \/ EndPass

Fairness ==
    /\ WF_vars(LoopStep)
    /\ SF_vars(\E version \in 1..MaxVersion : BeginTick(version))
    /\ WF_vars(MachineStep /\ Advance)
    /\ WF_vars(MachineStep /\ \E pid \in DOMAIN procs : Connect(pid))

FairSpec == Spec /\ Fairness

----
(* What must hold. *)

\* Ending this process costs no turn and no session.
SafeToStop(pid) ==
    /\ \A s \in SessionsUnder(pid) : sess[procs[pid].repo][s].quiet
    /\ SessionsUnder(pid) = {} \/ EnvironmentSurvives(pid)

\* The sessions that the read behind the stop under way returned.
ReadByStop == {s \in Sessions : stopping.seen[s] # NoSession}

\* The stop under way hits the only process of its repo, and the sessions it was
\* decided on are as they were read.
AsDecided ==
    /\ Stopping
    /\ ProcessesOf(stopping.repo) = {stopping.pid}
    /\ \A s \in ReadByStop :
          s \in LiveSessions(stopping.repo) /\ sess[stopping.repo][s] = stopping.seen[s]

\* The two gates of docs/restart-safety.md, against the machine itself, while the
\* sessions a stop was decided on have not moved: it costs none of them its turn,
\* and where any session was read it costs no session at all, not even one that
\* opened since or whose metadata could not be read.  A session that the read
\* missed may lose its turn, and when it was alone, itself.
StopIsSafe ==
    AsDecided =>
        /\ \A s \in ReadByStop : sess[stopping.repo][s].quiet
        /\ ReadByStop # {} => EnvironmentSurvives(stopping.pid)

\* strands_sessions asks whether stopping a supervisor would lose sessions: what
\* a drift restart interrupts, the supervisor it is replaced by picks up.
ReplacementKeepsSessions ==
    AsDecided /\ stopping.why = "drift" /\ ReadByStop # {}
        => LaunchedAnchored(RcArgs(fleet[stopping.repo].settings))

\* "It replaces the supervisor once": no second supervisor is swapped out for a
\* lost anchor alone before a drift check has seen an anchor again.
AnchorReplacedOnce == \A r \in Repos : anchorSwaps[r] <= 1

\* "One per registered repo": while the daemon runs, every remote-control
\* process is the supervisor of its directory's entity, so there is at most one.
EverySupervisorOwned ==
    phase # "down" =>
        \A pid \in DOMAIN procs : LivePid(pid) => fleet[procs[pid].repo].supervisor.pid = pid

\* What an onlooker sees of the machine: the processes, and which of the live ones
\* could not be ended for free.
Lives ==
    [pid \in DOMAIN procs |-> [repo |-> procs[pid].repo, state |-> procs[pid].state]]

Costly == {pid \in DOMAIN procs : LivePid(pid) /\ ~SafeToStop(pid)}

Fleet == INSTANCE SupervisedFleet
    WITH Pids   <- 1..MaxPid,
         lives  <- Lives,
         costly <- Costly,
         ending <- stopping.pid,
         Legible <- "tornmeta" \notin Events,
         up     <- phase # "down"

\* Whatever the records, the phases and the restarts of the daemon, the machine
\* sees a supervisor start only where there is none, a stop asked for only when it
\* is free (where every session's metadata can be read), and no process ended but
\* by a stop or by itself.
ImplementsFleet == Fleet!Spec

\* After the breaker trips, no supervisor is started until the backoff is over:
\* the one that runs was started that long after every trip.
BackoffHonoured ==
    \A r \in Repos : Running(fleet[r].supervisor) =>
        \A i \in DOMAIN trips[r] :
            fleet[r].supervisor.spawnedAt >= trips[r][i] + Backoff

\* The breaker counts crashes and nothing else: each death is booked once, a trip
\* uses its deaths up, and a supervisor the daemon stopped is never booked.
CrashesAreDeaths ==
    \A r \in Repos :
        CrashLimit * Len(trips[r]) + Len(fleet[r].crashes.events)
            <= Cardinality({pid \in DOMAIN procs :
                                procs[pid].repo = r /\ procs[pid].state = "died"})

\* A repo whose supervisor may be stopped at no cost, for good: the daemon is up,
\* nothing is mid-turn, and an anchor holds whatever sessions there are.
StopAllowed(r) ==
    /\ phase # "down"
    /\ AllQuiet(r, LiveSessions(r))
    /\ LiveSessions(r) = {} \/ \E pid \in ProcessesOf(r) : EnvironmentSurvives(pid)

\* Nothing stands in the way of a supervisor here: the gates of plan_supervision.
SpawnAllowed(r) ==
    /\ Registered(r) /\ r \in present /\ r \in trusted
    /\ r \in Git \/ registry[r].spawn # "worktree"
    /\ now >= fleet[r].crashes.backoffUntil
    /\ nextPid <= MaxPid

\* Convergence: once a registered repo may be supervised and its supervisor
\* stopped, it ends up with a live supervisor of the version on disk and of the
\* arguments its entity wants, and keeps it.
Converges ==
    \A r \in Repos :
        <>[](SpawnAllowed(r) /\ StopAllowed(r))
            => <>[](/\ Alive(fleet[r].supervisor)
                    /\ fleet[r].supervisor.launchedVersion = binary
                    /\ fleet[r].supervisor.launchedArgs = RcArgs(fleet[r].settings))

\* "Still gets retired instead of leaking forever": an unregistered directory
\* whose sessions are done loses its supervisor, daemon restarts included.
Retires ==
    \A r \in Repos :
        <>[](~Registered(r) /\ StopAllowed(r)) => <>[](ProcessesOf(r) = {})

\* A stop that is wanted, by drift or by retirement, and that the gates refuse.
StopRefused(r) ==
    /\ phase # "down"
    /\ Alive(fleet[r].supervisor)
    /\ ~AllQuiet(r, LiveSessions(r))
    /\ \/ ~Registered(r)
       \/ r \in present /\ fleet[r].supervisor.launchedVersion # binary

\* The bounded clock has room for the threshold after this deferral began.
DueInTime(r) == fleet[r].stopDeferredSince + StopDeferAlert <= MaxTime

Counting(r) == fleet[r].stopDeferredSince # 0

\* A stop refused for good is reported: its clock starts, is not restarted by
\* the refusals that follow, and the alert comes once the threshold has passed.
DeferralReported ==
    \A r \in Repos :
        (\/ <>[](StopRefused(r) /\ DueInTime(r))
         \/ <>(Counting(r) /\ DueInTime(r) /\ []StopRefused(r)))
            => <>[](fleet[r].stopAlerted)

\* The rollout is only announced when no running supervisor is older than it,
\* though a launched_version is a label: the daemon's last look at the binary at
\* a spawn, a probe for an adoptee.  Only an adoptee whose label had to be taken
\* from a session, of this process or another, may be older than it says.
RolloutAlertTruthful ==
    [][notice' = "fleet updated" =>
          \A r \in Repos \ guessed :
              Alive(fleet[r].supervisor)
                  => procs[fleet[r].supervisor.pid].version >= pendingRollout]_vars

\* "a completed fleet-wide version rollout": every registered repo has a
\* supervisor of the new version when the rollout is announced.
RolloutAlertCoversFleet ==
    [][notice' = "fleet updated" =>
          \A r \in Repos :
              EntryOf(r) => fleet[r].supervisor.launchedVersion = pendingRollout]_vars

====
