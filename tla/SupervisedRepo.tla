---- MODULE SupervisedRepo ----
(* The supervised repo entity: decisions over values, bookkeeping as the    *)
(* only mutation (supervise.py, ADR 0004).                                  *)
(*                                                                          *)
(* The class is a functional core, so it is modelled by constant operators: *)
(* each decision method becomes an operator from the entity and what the    *)
(* shell observed to a record [sr, decision] holding the entity it leaves   *)
(* behind and the value it returns.  The shell that calls them is Daemon.   *)
(*                                                                          *)
(* Python's None is a value of the field's own type that no real value      *)
(* takes: pid 0, version 0, and time 0, which stop_deferred_since already   *)
(* uses as its own "no clock" (every clock here starts at 1).               *)
EXTENDS Integers, Sequences, FiniteSets

CONSTANTS
    CrashWindow,      \* CRASH_WINDOW_SECONDS
    CrashLimit,       \* CRASH_LIMIT
    Backoff,          \* BACKOFF_SECONDS
    StopDeferAlert,   \* STOP_DEFER_ALERT_SECONDS
    AnchorGrace       \* ANCHOR_GRACE_SECONDS

ASSUME TimingAssumption ==
    /\ CrashWindow \in Nat
    /\ CrashLimit \in Nat \ {0}
    /\ Backoff \in Nat
    /\ StopDeferAlert \in Nat
    /\ AnchorGrace \in Nat

----
(* Settings and argv.  Only the two settings the decisions read are kept;   *)
(* capacity and permission_mode reach the argv the same way.                *)

Settings == [spawn : {"worktree", "same-dir"}, createSessionInDir : BOOLEAN]

\* The entity has no settings before the daemon first sees its directory.
NoSettings == [spawn |-> "none", createSessionInDir |-> FALSE]

NoInDirSession == "--no-create-session-in-dir"

RcArgs(settings) ==
    << "remote-control", "--spawn", settings.spawn,
       IF settings.createSessionInDir THEN "--create-session-in-dir"
                                      ELSE NoInDirSession >>

\* A remote-control process somebody started by hand, without any flag.
BareArgs == << "remote-control" >>

LaunchedAnchored(args) == \A i \in DOMAIN args : args[i] # NoInDirSession

Argvs == {RcArgs(s) : s \in Settings} \cup {BareArgs}

----
(* The entity. *)

Supervisors ==
    [pid : Nat, launchedVersion : Nat, launchedArgs : Argvs, spawnedAt : Nat]

NoSupervisor ==
    [pid |-> 0, launchedVersion |-> 0, launchedArgs |-> BareArgs, spawnedAt |-> 0]

Running(sup) == sup.pid # 0

\* Events kept are always fewer than trip the breaker: a trip clears them.
CrashTrackers ==
    [events : {events \in Seq(Nat) : Len(events) < CrashLimit}, backoffUntil : Nat]

\* The warning kinds of the two producers modelled here.
SupervisionWarnings == {"untrusted", "missing", "no_git"}
DriftWarnings == {"drift", "anchor"}

Entities ==
    [settings : Settings \cup {NoSettings},
     supervisor : Supervisors,
     crashes : CrashTrackers,
     stopDeferredSince : Nat,
     stopAlerted : BOOLEAN,
     anchorReplaced : Nat,
     warnings : SUBSET (SupervisionWarnings \cup DriftWarnings)]

NewEntity(settings) ==
    [settings |-> settings,
     supervisor |-> NoSupervisor,
     crashes |-> [events |-> << >>, backoffUntil |-> 0],
     stopDeferredSince |-> 0,
     stopAlerted |-> FALSE,
     anchorReplaced |-> 0,
     warnings |-> {}]

\* One read of a repo's sessions (SessionCensus).
Censuses == [total : Nat, working : Nat, anchored : BOOLEAN]

----
(* CrashTracker. *)

\* popleft while the head is older than the window: the deque is in time
\* order, so what goes is exactly the events that are too old.
Recent(events, now) ==
    LET stale == {i \in DOMAIN events : now - events[i] > CrashWindow}
    IN  SubSeq(events, Cardinality(stale) + 1, Len(events))

RecordCrash_NoClear(crashes, now) ==
    LET events == Recent(Append(crashes.events, now), now)
    IN  [tripped |-> Len(events) >= CrashLimit,
         crashes |-> [events |-> events,
                      backoffUntil |-> IF Len(events) >= CrashLimit
                                       THEN now + Backoff ELSE crashes.backoffUntil]]

RecordCrash(crashes, now) ==
    LET events == Recent(Append(crashes.events, now), now)
    IN  IF Len(events) >= CrashLimit
        THEN [tripped |-> TRUE,
              crashes |-> [events |-> << >>, backoffUntil |-> now + Backoff]]
        ELSE [tripped |-> FALSE,
              crashes |-> [crashes EXCEPT !.events = events]]

InBackoff_EndsEarly(crashes, now) == now + 1 < crashes.backoffUntil

InBackoff(crashes, now) == now < crashes.backoffUntil

----
(* What a stop would cost. *)

StrandsSessions_ByArgv(sr, census) ==
    /\ Running(sr.supervisor)
    /\ census.total > 0
    /\ ~LaunchedAnchored(sr.supervisor.launchedArgs)

StrandsSessions(sr, census) ==
    /\ Running(sr.supervisor)
    /\ census.total > 0
    /\ ~(LaunchedAnchored(sr.supervisor.launchedArgs) /\ census.anchored)

AnchorLost(sup, census, now) ==
    /\ LaunchedAnchored(sup.launchedArgs)
    /\ ~census.anchored
    /\ now - sup.spawnedAt >= AnchorGrace

RetrySpent_SameProcess(sr) ==
    /\ sr.anchorReplaced # 0
    /\ sr.anchorReplaced = sr.supervisor.pid

RetrySpent(sr) ==
    /\ sr.anchorReplaced # 0
    /\ sr.anchorReplaced # sr.supervisor.pid

StuckAlert_Restarts(sr, now) ==
    [sr |-> [sr EXCEPT !.stopDeferredSince = now], fire |-> FALSE]

\* The alert for a stop deferred past the threshold; `fire` says it is raised.
StuckAlert(sr, now) ==
    LET since == IF sr.stopDeferredSince = 0 THEN now ELSE sr.stopDeferredSince
        fire  == ~sr.stopAlerted /\ now - since >= StopDeferAlert
    IN  [sr   |-> [sr EXCEPT !.stopDeferredSince = since,
                             !.stopAlerted = @ \/ fire],
         fire |-> fire]

ClockReset(sr) == [sr EXCEPT !.stopDeferredSince = 0, !.stopAlerted = FALSE]

Warn(sr, kind) == [sr EXCEPT !.warnings = @ \cup {kind}]

----
(* plan_supervision: should the shell spawn a supervisor here? *)

SpawnGate(sr, trusted, git) ==
    CASE ~trusted ->
            [sr |-> Warn(sr, "untrusted"), decision |-> "wait"]
      [] trusted /\ ~git /\ sr.settings.spawn = "worktree" ->
            [sr |-> Warn(sr, "no_git"), decision |-> "wait"]
      [] OTHER ->
            [sr |-> sr, decision |-> "spawn"]

PlanSupervision(sr0, now, present, trusted, git, alive) ==
    LET sr   == [sr0 EXCEPT !.warnings = @ \ SupervisionWarnings]
        died == Running(sr.supervisor) /\ ~alive
        book == RecordCrash(sr.crashes, now)
        gone == IF died
                THEN [sr EXCEPT !.supervisor = NoSupervisor, !.crashes = book.crashes]
                ELSE sr
    IN  CASE ~present ->
                [sr |-> Warn(sr, "missing"), decision |-> "wait"]
          [] present /\ Running(sr.supervisor) /\ alive ->
                [sr |-> sr, decision |-> "wait"]
          [] present /\ died /\ book.tripped ->
                [sr |-> gone, decision |-> "alert"]
          [] OTHER ->
                IF InBackoff(gone.crashes, now)
                THEN [sr |-> gone, decision |-> "wait"]
                ELSE SpawnGate(gone, trusted, git)

----
(* plan_retirement: the same two gates as drift. *)

PlanRetirement_QuietOnly(sr, alive, quiet, census, now) ==
    CASE ~Running(sr.supervisor) -> [sr |-> sr, decision |-> "wait"]
      [] Running(sr.supervisor) /\ ~alive ->
            [sr |-> ClockReset(sr), decision |-> "forget"]
      [] Running(sr.supervisor) /\ alive /\ ~quiet ->
            [sr |-> sr, decision |-> "wait"]
      [] OTHER -> [sr |-> ClockReset(sr), decision |-> "terminate"]

PlanRetirement_NoSessionsOnly(sr, alive, quiet, census, now) ==
    IF Running(sr.supervisor) /\ alive /\ quiet /\ census.total = 0
    THEN [sr |-> ClockReset(sr), decision |-> "terminate"]
    ELSE [sr |-> sr, decision |-> "wait"]

PlanRetirement(sr, alive, quiet, census, now) ==
    CASE ~Running(sr.supervisor) ->
            [sr |-> sr, decision |-> "wait"]
      [] Running(sr.supervisor) /\ ~alive ->
            [sr |-> ClockReset(sr), decision |-> "forget"]
      [] Running(sr.supervisor) /\ alive /\ (~quiet \/ StrandsSessions(sr, census)) ->
            LET stuck == StuckAlert(sr, now)
            IN  [sr |-> stuck.sr, decision |-> IF stuck.fire THEN "alert" ELSE "wait"]
      [] OTHER ->
            [sr |-> ClockReset(sr), decision |-> "terminate"]

----
(* plan_drift: is the supervisor still the one this repo wants? *)

\* A restart held back: the warning names the costliest objection, and the
\* deferral clock runs.
Deferred(sr, warning, now) ==
    LET stuck == StuckAlert(Warn(sr, warning), now)
    IN  [sr |-> stuck.sr, decision |-> "defer",
         alert |-> IF stuck.fire THEN "stuck" ELSE "none"]

\* What the shell probes is recorded on the supervisor, and an anchor that is
\* seen re-arms the one restart a lost anchor gets.
Observed(sr, probed, census) ==
    [sr EXCEPT !.warnings = @ \ DriftWarnings,
               !.supervisor.launchedVersion = IF @ = 0 THEN probed ELSE @,
               !.anchorReplaced = IF census.anchored THEN 0 ELSE @]

DriftReasons_NoVersion(sr, binaryVersion, census, now) ==
    {reason \in {"args", "anchor"} :
        \/ reason = "args" /\ sr.supervisor.launchedArgs # RcArgs(sr.settings)
        \/ reason = "anchor" /\ AnchorLost(sr.supervisor, census, now)}

DriftReasons(sr, binaryVersion, census, now) ==
    {reason \in {"version", "args", "anchor"} :
        \/ reason = "version" /\ sr.supervisor.launchedVersion # binaryVersion
        \/ reason = "args" /\ sr.supervisor.launchedArgs # RcArgs(sr.settings)
        \/ reason = "anchor" /\ AnchorLost(sr.supervisor, census, now)}

PlanDrift(sr0, binaryVersion, probed, quiet, census, now) ==
    LET sr      == Observed(sr0, probed, census)
        reasons == DriftReasons(sr, binaryVersion, census, now)
        restart == [ClockReset(sr) EXCEPT
                        !.anchorReplaced = IF "anchor" \in reasons
                                           THEN sr.supervisor.pid ELSE @]
    IN  CASE ~Running(sr0.supervisor) \/ binaryVersion = 0 ->
                [sr |-> [sr0 EXCEPT !.warnings = @ \ DriftWarnings],
                 decision |-> "converged", alert |-> "none"]
          [] OTHER ->
                IF reasons = {}
                THEN [sr |-> ClockReset(sr), decision |-> "converged", alert |-> "none"]
                ELSE IF reasons = {"anchor"} /\ RetrySpent(sr)
                THEN Deferred(sr, "anchor", now)
                ELSE IF StrandsSessions(sr, census) \/ ~quiet
                THEN Deferred(sr, "drift", now)
                ELSE [sr |-> restart, decision |-> "restart",
                      alert |-> IF census.working > 0 THEN "interrupted" ELSE "none"]

====
