# groundcrew in TLA+

groundcrew keeps one `claude remote-control` supervisor running in each
registered directory, restarts it when it drifts from what the directory should
run, and never stops it at the cost of a turn or a session. This directory
holds the specification of that program: modules translated from
`src/src/groundcrew/`, TLC configurations that check them on small fleets, and
proofs that TLAPS checks for every fleet.

`PROJECT.json` is the index: components, runs, mutants, the source lines each
definition stands for, findings, hazards, theorems.

## 1. Inventory

| Component | State | Operations | Correct when |
|---|---|---|---|
| supervised repo entity (`supervise.py`, `SupervisedRepo`) | settings, supervisor record, crash tracker, deferral clock and latch, anchor retry, pull bookkeeping, warnings | `plan_supervision`, `plan_drift`, `plan_retirement`, `plan_freshness`, `on_pull`, `on_hook_result` | deaths are booked once, backoff holds, a stop is only ever decided when it is free, a deferral is reported once |
| daemon loop (`daemon.py`) | the fleet, binary version, pending rollout, due times | `run`, `reconcile`, `retire_unregistered`, `tick`, `converge`, `check_rollout_complete`, `nightly`, `freshen` | every process has an owner, a fleet converges, a rollout is announced truthfully |
| process control and adoption (`supervise.py`) | none of its own | `spawn`, `terminate`, `match_orphans` | a pid is only signalled while it is the recorded process; a restart finds every process again |
| observation (`claude_state.py`) | none: it reads the machine | `live_sessions`, `session_quiet`, `trusted_paths`, `process_is` | what it answers is safe to decide on. It is for torn trust, which reads as none; it is not for the sessions: one whose metadata cannot be read is passed over (`claude_state.py:127-128`), and that is the unsafe answer for the stop gates, the anchor check and the pull |
| claude CLI and the operating system (outside the repository) | processes, sessions, environments, the binary | start, connect, die, update | as `docs/restart-safety.md` records |
| registry commands (`cli.py`) and file (`config.py`) | `repos.toml`, trust in `~/.claude.json` | `add`, `remove`, `load_registry`, `save_registry`, `atomic_write`, `seed_trust` | a reader sees whole commands, trust precedes registration, no half file is read |
| git freshness (`gitops.py`, `freshen` in `daemon.py`, the pull decisions in `supervise.py`) | a checkout; the entity's pull bookkeeping | `freshen`, `plan_freshness`, `pull`, `on_pull`, `run_hook`, `on_hook_result` | a session is disturbed once at most, one hook per move, one alert per streak, staleness is explained, all where `freshen` returns |
| migration (`migrate.py`) | `config.toml`, its backup, `repos.toml` | `migrate_config` | a crash between writes loses nothing, and the next run finishes the work |
| configuration, status and sessions output, worktree cleanup, discovery, nightly schedule, skills, service units | nothing the daemon decides on | | left to unit tests |

How they interact. The daemon is one thread. Each pass it reads `repos.toml`,
walks the entries (reconcile), walks the entities without an entry (retirement)
and, once an hour, walks the entries again (tick). It asks an entity for a
decision, giving it values it has just read from the machine, and carries the
decision out: it spawns, terminates, alerts. The commands, the user, the
sessions and claude itself share the files and the process table with it and
never wait for it. A freshness pull is a chain of git commands over a checkout
that its user and its sessions keep using. The commands and the daemon write
files by renaming a temporary file over them, without locks.

What is hard. `terminate` takes up to seventy seconds after the read it was
decided on. The daemon can crash anywhere and forgets its fleet while its
children run on. A supervisor record says what was asked for, not what became of
it: the anchor may be gone, the version label may be older than the process, or
be a session's. Three reasons to restart, two gates and a brake interact over
hours. What a pull read of a branch may be stale when the next git command runs.
An invocation can be killed between any two of its writes. `PROJECT.json` lists
forty such hazards at their lines.

## 2. Modules

| Module | What it is |
|---|---|
| `SupervisedRepo` | The entity. The class is a functional core, so its decisions are constant operators from an entity and an observation to `[sr, decision]`: `PlanSupervision`, `PlanRetirement`, `PlanDrift`, and what they call. |
| `Machine` | Processes, sessions, binary, registry, trust, directories; one action for each thing that happens there without the daemon. Extends `SupervisedRepo`. |
| `Daemon` | The loop. One action per repo of each phase; `Next` interleaves it with the machine. Extends `Machine`. Properties are stated at its end. |
| `SupervisedFleet` | The abstract specification of the daemon: what an onlooker sees of the machine. Processes start, end by a stop or by themselves, and cost something to end or do not; no records, versions or phases. `Daemon` implements it. |
| `Freshness` | The freshness pull of one repo: plan, inspection, the git command, the second look, the hook are five steps, an exception ends any of the later four, and the user, the sessions, origin, the network and a daemon restart move between them. Stands on its own. |
| `Settings` | Registry entries and how one is laid over another. |
| `AtomicRegistry` | The abstract specification: what readers of the files may see. |
| `RegistryFile` | `add`, `remove`, the migration that every invocation runs first, and `atomic_write` as three steps, with a crash between any two. Implements `AtomicRegistry`. |
| `TmpFile` | `atomic_write` when several invocations write one file, down to inodes. |
| `MCConvergence`, `MCFleet`, `MCLifecycle`, `MCFreshness`, `MCRegistry` | Instances: the sets, the settings and, where it is sound, the symmetry. |
| `SupervisedRepoProofs` | Lemmas about the operators: types, bounds of the crash deque, what a stop decision implies. |
| `DaemonProofs` | The inductive invariant and its theorems: types, and that stops are safe. |
| `LifetimeProofs` | What becomes of processes: booked crashes are deaths, every process has an owner, and the refinement of `SupervisedFleet`. |
| `ReplacementProofs` | Version labels and the rollout; the one replacement a lost anchor is worth. |
| `BackoffProofs` | The breaker's invariant and its theorem, on top of `DaemonProofs`. |
| `FreshnessProofs` | The pull's invariant and its theorems. |
| `RegistryFileProofs` | The files' invariant, its theorems, and the refinement. |
| `TmpFileProofs` | A single writer keeps `atomic_write`'s promise. |

### State and code

| In the model | In the code |
|---|---|
| `phase`, `pass` | where `run` is; the registry, the clock and the trust snapshot of this pass; the repos its loop has not reached; `spawned` against `MAX_SPAWNS_PER_PASS` |
| `fleet[r]` | `Daemon.fleet`, with `NoSettings` for a directory it has not seen |
| `stopping` | the `terminate()` in progress, with the sessions as they were read when it was decided |
| `binaryVersion`, `pendingRollout` | the fields of the same names |
| `notice` | the alert the last step sent |
| `procs`, `sess` | the process table, and the session files with the engine each runs under |
| `anchorSwaps`, `trips`, `guessed` | history only: no guard reads them |

`None` is 0 in a pid, a version or a time; the clock starts at 1. The pid of
the model is the pair (pid, create time), which the code compares everywhere
but in `terminate`.

`terminate` is three steps, because the machine moves while it waits: the
decision (`ConvergeRepo` or `RetireRepo` sets `stopping`), the end of the
process (`Killed`, or `Die`, or a process that survives SIGKILL), and the
return (`StopReturns`, `StopFails`). Everything else the daemon does for one
repo in one phase is one step: it reads the machine once and writes its own
memory.

What a phase sees of the sessions is `Readings(r)`: all of them, or with the
event `"tornmeta"` any part of them, since `live_sessions` passes over a
metadata file it cannot read. `Census` and `AllQuiet`, on which the gates, the
anchor check and the deferral are decided, are made of that reading, and
`stopping` keeps it.

`VersionProbed` is what `converge` takes for an adoptee's version: the one of
its executable, or where that tells nothing (event `"noversion"`) the one of any
session the tick began with, which need not belong to this process. `guessed`
remembers the repos whose label came from such a session and is not the
process's own.

`PassFails` is the exception that `run` logs and goes on after: a pass ends
between any two repos, and the next one repeats what it had already done.
`ConvergeSkips` covers the exception `tick` catches for one repo.

`Stop` covers the daemon's exit and its crash; it may fall between any two
steps, in the middle of a terminate too. `Start` adopts: it picks any one of a
directory's processes, where the code takes the order of the process table. A
directory that is gone has no `.git`, so an unregistered one is not adopted
(`Adoptable`).

In `Freshness`, `local` is the default branch as the number of origin's commits
in it and whether it has commits of its own, `head` the branch checked out,
`pull` what the pull under way has read and got, `sr` the entity's bookkeeping.
`RunGit` is the one command the pull chose, with every outcome the checkout and
the network allow at the moment it runs; a slow network may move the branch and
still report a failure. Before it `Freshen` reads the sessions, perhaps not all
of them (`pull.unread`). `FreshenRaises` is the exception `tick` logs for a
repo: nothing in `freshen` or `pull` catches that git cannot be run or that its
output cannot be decoded, so one may end a pull at any of its commands, the
branch moved or not, with the warnings cleared and `on_pull` not called.

In `RegistryFile`, `now[f]` is what a reader finds in file `f` and `tmp[f]` what
its temporary file holds; `command` is the invocation, `stage` whether it still
migrates, `todo` the files it has decided to write. `Invoke` and `Proceed` are
the two reads with their decisions, `OpenTmp`, `WriteTmp` and `Rename` one
`atomic_write`. `Waiting` ends with the write of the registry; under
`AtomicRegistry` an invocation is `asked` until then. `SessionForgets` is a live
session that writes `~/.claude.json` back without the trust it had not seen.

### Abstractions

- A release is a number and versions are only compared. An argv keeps the two
  flags a decision reads. A session has a cwd (root or worktree), turns, quiet
  and an owner; transcripts and titles are out.
- Directories are disjoint. Paths are numbers in the order `save_registry`
  sorts them. Retirement visits in any order, since it follows the order in
  which entities were created.
- The hour between ticks and the nightly slot are not clocks: any pass may
  tick, and any pass may run the nightly.
- claude's part comes from `docs/restart-safety.md`: one environment per
  process; an in-dir session created once, at startup; sessions that outlive
  their process only through a session in the repo root; a successor launched
  with `--no-create-session-in-dir` registers a new environment.
- A registry entry states two settings, which is enough to tell laying over from
  replacing. A table of a directory that is not registered is dropped, as in the
  code. Which texts the migration can rewrite is a boolean, `plain`.
- Invocations of `RegistryFile` follow each other. Concurrent `add`s lose each
  other's entries, since nothing locks the read and the write: no text of the
  repository promises otherwise, and an entry is added again by running the
  command again. `Machine` takes `add` and `remove` as one step.
- `Events` names the optional events an instance explores. The proofs hold for
  any set of them.

## 3. Runs

Properties (definitions at the end of `Daemon`):

- `StopIsSafe`: while the sessions a stop was decided on are as they were read,
  it costs none of them its turn; and where any was read the environment
  survives it, so that it costs no session at all, not even one that opened
  since or that the read missed. What a read may miss and a stop then costs is
  stated and no more: the turn of a session whose metadata file was torn, and
  the session itself when no other was read. The code does not promise more. It
  is judged on the processes and environments of the machine, not on the
  supervisor's record.
- `AnchorReplacedOnce`: no second supervisor is swapped for a lost anchor alone
  before a drift check has seen an anchor again. The entity remembers the one
  retry in memory, so this is said of one daemon's life: its run has no daemon
  restarts.
- `EverySupervisorOwned`: while the daemon runs, each remote-control process is
  the supervisor of its directory's entity; so there is never a second one.
- `BackoffHonoured`: a running supervisor was started at least the backoff
  after every trip of the breaker in this daemon's life (a new daemon starts
  with an empty tracker, as in the code).
- `CrashesAreDeaths`: booked crashes never exceed deaths, a trip using up as
  many as its limit; a supervisor the daemon stopped is never booked.
- `RolloutAlertTruthful`: the rollout is announced only when no live supervisor
  is of an older release, though labels are read apart from the processes they
  describe. It excludes the repos of `guessed`: a label taken from a session may
  claim more than the process runs.
- `ImplementsFleet`: the daemon implements `SupervisedFleet`. Each process maps
  to its directory and how it ended (`Lives`), the ones that cannot be ended for
  free to `costly`, the pid of the `terminate` in progress to `ending`, a daemon
  that is not down to `up`. It says in one formula what the properties above say
  of records: a start where another process lives, a stop asked for at a cost,
  and an end that is neither a stop nor a death are no steps of it. The cost
  counts where the instance has no torn metadata (`Legible`): `liveness` checks
  it with sessions, `convergence` with torn metadata and without the cost.
- `Converges`, `Retires`, `DeferralReported`: liveness, below.

Of `Freshness`:

- `RewrittenOnce`: sessions are read once, at the beginning, and git rewrites
  files later, so a session that went to work in between finds its files
  rewritten. That happens to it once at most for as long as it stays at work,
  across pulls, exceptions and daemon restarts, unless a later read misses it. A
  command that failed after it had moved files, or that merged into another
  branch, counts too.
- `HookFollowsMove`: a move of the checkout is followed by its hook, unless the
  command that made it failed (it timed out after it had moved the branch) or an
  exception ended the `freshen`: either way the hook is lost for good, which the
  code does and the property records.
- `StaleExplained`: a `freshen` that returned and leaves the default branch
  behind origin leaves a warning, whatever changed meanwhile but the branch that
  is checked out. One that an exception ended leaves none.
- `OneAlertPerStreak`: alerts are counted against a streak of FAILED outcomes
  kept apart from the entity's own counter.
- `KeepsUp`, `OutageReported`: liveness.

Of `RegistryFile`:

- `RegistryIsAtomic`: the files implement `AtomicRegistry`.
- `RegisteredIsTrusted`: a registered directory is trusted unless a session
  wrote its trust away.
- `TablesKept`: a legacy table is in `config.toml`, or backed up and in effect.
- `Migrates`: liveness.

| Run | Instance | Shows |
|---|---|---|
| `convergence` | 1 repo, 2 sessions (symmetric), 2 releases, 3 processes, clock to 3; deaths, failed resumes, torn session metadata, processes that survive SIGKILL | the two gates, the anchor retry, ownership and the refinement when only drift stops anything |
| `fleet` | 2 repos, no sessions, ramp of 1, 3 processes, clock to 3; deaths, add, remove | the breaker through removal and re-adding, the ramp, ownership, the refinement |
| `lifecycle` | 1 repo, 1 session, 2 releases, 3 processes, clock to 2; deaths, remove, daemon restarts, unreadable versions and session metadata, exceptions | adoption, retirement through the same gates, labels of adoptees, the rollout |
| `faults` | 1 repo outside git, both spawn modes; a directory that comes and goes, torn trust, unreadable registry, failing spawns, processes started by hand, exceptions; clock to 2, a backoff of 1 | the breaker books deaths and nothing else and its backoff holds whatever fails |
| `liveness` | 1 repo, 1 session, 2 releases, 3 processes; remove, daemon restarts, metadata that can be read; `FairSpec` | convergence, retirement, the deferral alert, the refinement across daemon restarts |
| `freshness` | one checkout with one session, one commit to come, one restart, a threshold of 2; `FairSpec` | everything said of `Freshness` |
| `registry` | 2 directories, one of them outside git; three sets of legacy tables, two registries, three flags; one crash; `FairSpec` | everything said of `RegistryFile` |
| `retire_leak`, `unadopted`, `replacement`, `rollout`, `torn_registry` | one finding each | violated |

The passing runs have between thirty-six thousand and 1.8 million distinct
states. `lifecycle` and `faults` include exceptions that end a pass or a repo's
drift check; `liveness` does not, since an exception that comes back in every
pass does starve the repos behind it. `lifecycle` has no `add`, which `fleet`
and `faults` explore; a second life of one directory adds nothing to labels.

Bounds. `CrashLimit` 2 lets a breaker trip with three processes and a clock of
three leave its backoff; `faults` has a clock of two and a backoff of one for
the same. Three processes are a supervisor, its replacement and the
replacement's own, which is what the anchor retry needs. Two releases make a
rollout. Two sessions tell an anchor from a session it carries. `MaxTime`,
`MaxPid` and `MaxVersion` are the bounds in the guards of `Advance`, `Starts`
and `Release`; where a bound stops the system (no pid left to spawn),
`ReconcileWaits` takes the step a failed spawn takes. Deadlock is checked in
every run. With `MaxTime` small the alert threshold and the anchor grace are
small too, so that both sides of each comparison are reached.

In `freshness`, one commit and one local commit make every relation of a branch
to origin's; a second session could only repeat what the first does, since the
gate asks whether there is one at work. The failure counter stays at 2, the
threshold. In `registry`, two directories tell an entry that is touched from one
that is not, with and without git; one crash lands between any two file
operations of a migration or a command, and later invocations meet what it left.

Fairness. Only the daemon and the operating system are fair. The loop is weakly
fair: the service unit restarts the daemon on failure, and every wait in a pass
has a timeout. The tick is strongly fair: it falls due again and again,
however many passes skip it, and the version is read in some of them. The
clock advances, and a process that was started connects. Nothing is assumed of
sessions, users, releases or deaths, so the liveness properties carry their
conditions: `Converges` asks that a repo may, from some point on, be supervised
and stopped at no cost; `Retires` that an unregistered one may be stopped;
`DeferralReported` that a stop is refused for good with enough clock left for
the threshold. In `Freshness` the daemon's steps are fair: each git command and
the hook have a timeout, `tick` catches what a repo's `freshen` raises
(`FreshenRaises` is a step of the daemon), and the restarts are bounded. Nothing
is assumed of the user, the sessions, origin or the network; `KeepsUp` and
`OutageReported` carry their conditions, among them that from some point on no
exception ends the pull: one in every tick keeps a checkout back for ever, and
is never counted as a failure. In
`RegistryFile` a running invocation goes on, since it waits for nobody; nobody
has to run one, so `Migrates` asks that groundcrew is run again and again. An
invocation that runs over tables it cannot rewrite changes nothing, so `Invoke`
excludes it.

## 4. What the runs found

- `retire_unregistered` drops the supervisor whatever `terminate` answers
  (`daemon.py:282`), so a process that survives SIGKILL runs on unowned, and a
  re-add starts a second one beside it. `converge` keeps its supervisor in the
  same case. Run `retire_leak`.
- `match_orphans` adopts an unregistered directory only when it is a git
  repository under the projects root (`supervise.py:230`), so a directory
  outside git that is removed while the daemon is down keeps its supervisor for
  ever. Run `unadopted`.
- `strands_sessions` looks at the outgoing supervisor only
  (`supervise.py:435`). When the drift is `create_session_in_dir` turning
  false, the gate passes on the old argv, and the replacement abandons the
  environment the gate protected. Run `replacement`.
- `check_rollout_complete` skips repos without a supervisor
  (`daemon.py:409`), so a repo waiting in the spawn ramp or in backoff does not
  hold the fleet-wide alert back. Run `rollout`.
- `atomic_write` uses one temporary name per file (`config.py:354`). Of two
  invocations that write a file at once, the second truncates what the first is
  about to rename, and readers find an empty or a mixed file; its docstring says
  they never do. An empty `repos.toml` is valid and names no directory. Run
  `torn_registry`; `OneWriterNeverTears` is what remains true.

Three more behaviours contradict no text, so the properties step around them and
say so: a session with a torn metadata file is no session to the gates
(`ReadByStop`, `pull.unread`), a label may be a session's (`guessed`), and an
exception in a pull loses its hook, its warning and its place in the failure
streak (`"raised"`).

## 5. What is proved

Three assumptions for the daemon: the timing constants are naturals with
`CrashLimit` at least one (`TimingAssumption`), the sets are what their names
say and `Sessions` is finite (`MachineAssumption`), the ramp is a natural and
the defaults are settings (`DaemonAssumption`). No bound on repos, sessions,
time, processes or releases is used as a number. Every event is allowed, except
in the three theorems below that say so: `ProcessesOwned` and `FleetImplemented`
assume `Tame`, `AnchorSwappedOnce` that the daemon is not restarted. Torn
metadata is an event like the others, allowed in all of them.

- `TypeCorrect`: `Spec => []TypeOK`. It carries the two resource bounds: the
  crash deque stays under its limit, and a pass under its ramp.
- `StopsAreSafe`: `Spec => []StopIsSafe`.
- `SafetyHolds`: `Spec => []SafetyInv`, the inductive invariant behind both.
- `BackoffHolds`: `Spec => []BackoffHonoured`, from `BackoffInv` and the types.
- `CrashesCounted`: `Spec => []CrashesAreDeaths`, from `LifeHolds`.
- `ProcessesOwned`: `Spec => []EverySupervisorOwned`, under `Tame`.
- `FleetImplemented`: `Spec => ImplementsFleet`, under `Tame`.
- `RolloutIsTrue`: `Spec => RolloutAlertTruthful`, from `LabelsHold`; both speak
  of the repos outside `guessed`.
- `AnchorSwappedOnce`: `Spec => []AnchorReplacedOnce` without restarts.
- `AlertsOnce`, `HooksFollow`, `StalenessExplained`, `RewrittenAtMostOnce`: the
  four safety properties of `Freshness`, with `FreshnessTyped`.
- `TrustPrecedes`, `NoTableLost`, `RegistryTyped`: the invariants of
  `RegistryFile`.
- `RegistryAtomic`: `RegistryFile` implements `AtomicRegistry`.
- `OneWriterNeverTears`: one writer, wherever it stops, is never seen half-way.

The specifications of pulls and files assume of their constants: the counters
are naturals, the threshold positive and within the counter's bound, the
sessions finite (`FreshnessAssumption`); the sets are what their names say
(`RegistryAssumption`). `OneWriterNeverTears` states its assumption itself.

`StopIsSafe` is not inductive. A decision reads the entity's record, while the
property speaks of the process; and the decision is a step earlier than the
stop it is about. `SafetyInv` adds what links them:

- `VisitsEntries`: the repos reconcile and tick still have to visit have an
  entry, so an entity created on the way has settings.
- `OwnersKnown`: a session's owner is a process that was started in that
  session's own directory, so engines of one repo never answer for another.
- `SupervisorsKnown`: a supervisor record names a process of its own directory,
  with the argv the process really has; that is what makes the anchor gate,
  which reads the record, say something about the environment.
- `StopDecided`: while a stop is under way and the sessions that were read are
  as they were read, the read passed both gates against that process.

The argument for each action is one step of `NextKeeps`, which cites one lemma
per action; the lemmas of `SupervisedRepoProofs` say what a decision leaves of
an entity (its settings, its supervisor) and what a `terminate` or `restart`
implies about the census. `GatesSuffice` then turns a census that passed the
gates into quiet sessions and an environment that survives, when the repo has
that process only; with a complete reading that is `SafeToStop`. What is
used of a reading is that it is a part of the live sessions (`ReadingsFacts`).

`BackoffHonoured` is not inductive either: it compares a start with a trip that
may lie many passes back, on either side of a removal. `BackoffInv` adds that
each trip plus the backoff is at most the tracker's `backoffUntil`
(`TripsHoldBack`), that no trip lies ahead of the pass that books the next one
(`TripsPast`), that the clock of a pass, which both the booking and the gate
read, never runs ahead of the clock a start is stamped with (`PassNotAhead`),
and that an entity is only made anew where nothing has tripped
(`TripsForgottenWithEntity`): that is where the breaker's history survives
removal and re-adding. TLC checked `BackoffInv` on the instances of `fleet`,
`lifecycle` and `faults` before it was proved.

`CrashesAreDeaths` counts events of a deque against processes. `LifeInv` makes
the count local: the events and trips of a directory are covered by those of its
dead processes that are not its current supervisor (`BookingsCovered`), because
that one is booked when it is let go of. Two facts about stops carry it: while a
stop is under way the entity keeps the supervisor that is being stopped
(`StopHitsSupervisor`), and a supervisor whose process was stopped is released
before reconcile looks (`StoppedIsReleased`); so what reconcile finds dead has
died. `SupervisorSettled` and `NoTripsDown` tie supervisors to settings and
empty the history with the daemon's memory.

`EverySupervisorOwned` is false in general: that is what `retire_leak` shows.
Three things leave a process without an owner, and `Tame` excludes just these:
one started by hand; one that outlives the SIGKILL of a retirement (needs
`remove` and `unkillable` together); one of a removed directory that a restarted
daemon does not look for (needs `remove` and `restart` together, and a directory
outside git, outside the projects root, or gone at that moment, which needs the
event `"directory"`; `GoneNowhere` says that without it directories stay). The
instances of `fleet`, `lifecycle`, `liveness` and `convergence` satisfy `Tame`.
`OwnInv` adds that a directory has one process (`Alone`), that the first daemon
finds none (`NoneBefore`), and what holds where nothing is removed
(`NothingRemoved`): entries stay registered, supervisors belong to entries, and
nobody is retired, so every stop is for drift.

`FleetImplemented` takes its guards from these. That nothing lives where a
supervisor is started is `SpawnsWhereNoneIs`, from `OwnInv`. That a stop is free
when it is asked for, where metadata can be read, is `StopIsSafe` of the state
the decision leads to, where
the sessions are still those that were read and `Alone` makes the stop hit the
only process. A process's end takes nothing from the others (`EndsSeen`), since
sessions are owned. Every other step stutters or only moves sessions.

`RolloutAlertTruthful` compares labels with processes. `LabelInv` says that the
daemon's version and every process's are at most the binary's (`BinaryKnown`),
and that the label of a live supervisor outside `guessed` is at most its
process's version (`LabelsHonest`): a spawn labels a process with a version read
earlier than its binary, a probe of the executable with its own, and a probe
that had to fall back on a session puts the repo into `guessed` unless the two
agree. A spawn takes it out again. The announcement needs no other condition.

`AnchorReplacedOnce` rests on one pid the entity writes down before the stop.
`AnchorInv` says of it: it is the pid of a process that exists, so no later
supervisor can have it; while one replacement is spent (`SwapSpent`), either the
supervisor is another, or this one survived its stop and has drifted otherwise
as well (`OtherDrift`), so that what stops it again is not the anchor alone; a
stop for the anchor alone is under way only while none is spent
(`StopForAnchor`). The entity forgets with the daemon, so the theorem assumes
`"restart" \notin Events`, as its run does.

TLC checked `LifeInv`, `OwnInv`, `LabelInv` and `AnchorInv` on the instances of
the runs, under their conditions, before they were proved.

The invariant of `Freshness` (`IInv` in `FreshnessProofs`) says what is known at
each step of a pull: that the sessions whose files were rewritten are at work
still (`disturbed`), so that a pull is decided on beside one only when the read
missed it; that the branch only moves forward from the tip that was read
(`Planned`); what the command leaves to be done and to be said (`Left`); and
that the entity's counter and latch are the streak and its alert (`Booked`).

The invariant of `RegistryFile` (`IInv` in `RegistryFileProofs`) follows a plan
through its writes. `Prepared`: what is renamed next is what was decided.
`Migrating`: whichever of its writes are done, the migration under way is the
one of the tables as they are; laying tables over the registry twice is laying
them once (`WithTablesFacts`), so an interrupted migration can start over.
`Commanding`: the command was decided on the registry as it still is, which is
where serial invocations are needed. `TrustFirst`: trust is there before an
entry is. `Accounted`: the tables are untouched, or gone and accounted for. The
refinement then has one lemma per action: the rename of `repos.toml` is
`LayTables`, `Add` or `Remove`, that of `config.toml` is `DropTables`, and every
other step stutters or gives up.

Model-checked only: liveness, that is `Converges`, `Retires`,
`DeferralReported`, `KeepsUp`, `OutageReported` and `Migrates`. Liveness under
fairness and ENABLED are outside the proof system, and so is induction over
data, which is why nothing is proved of how many events `Recent` leaves in an
arbitrary deque beyond what one step of it does (`RecentShorter`,
`RecordCrashWorth`). Every invariant and action property that a passing run
checks is stated by a theorem.

## 6. Not modelled, and the plan

Not modelled, on purpose: configuration parsing and validation, rendering of
status, sessions and logs, discovery, the calendar arithmetic of the nightly
slot, the skills installer and the service units. They keep no state a decision
depends on. Worktree cleanup (`cmd_clean`) is a straight line of prompts; its
one hazard, a listing that is out of date when it is answered, is in the list.
Concurrent invocations are modelled only at the level of one file
(`TmpFile`). Hand edits of `repos.toml` are not; `migrate.py:191-193` names the
one window in which the migration would overwrite one. The due times of tick
and nightly are a nondeterministic choice in each pass. The reuse of a pid by
the kernel, and registered directories inside one another, are outside the
model.

Next, in this order:

1. An abstract specification of a pull (a checkout moves forward or stays, and
   what it owes a move is done or said) that `Freshness` implements.
2. Ownership without `Tame`: that a process without an owner is always one of
   the three kinds `Tame` excludes, and how long it stays one.
3. `AnchorReplacedOnce` per run of the daemon with restarts allowed, which needs
   the count to be of one run.
