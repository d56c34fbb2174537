---- MODULE SupervisedRepoProofs ----
(* Facts about the entity's decisions, for every value of the constants:    *)
(* what they return, what they leave alone, and what a decision to stop     *)
(* implies about the sessions it was taken on.                              *)
EXTENDS SupervisedRepo, TLAPS, FiniteSetTheorems, SequenceTheorems

(* Dropping the events that are too old leaves a sequence of times. *)
LEMMA RecentType ==
    ASSUME NEW events \in Seq(Nat), NEW now \in Nat
    PROVE  Recent(events, now) \in Seq(Nat)
  <1> DEFINE stale == {i \in DOMAIN events : now - events[i] > CrashWindow}
  <1>1. Len(events) \in Nat /\ DOMAIN events = 1..Len(events)
    OBVIOUS
  <1>2. IsFiniteSet(1..Len(events))
    BY <1>1, FS_Interval
  <1>3. IsFiniteSet(stale)
    BY <1>1, <1>2, FS_Subset
  <1>4. Cardinality(stale) \in Nat
    BY <1>3, FS_CardinalityType
  <1>5. SubSeq(events, Cardinality(stale) + 1, Len(events)) \in Seq(Nat)
    <2> DEFINE first == Cardinality(stale) + 1
    <2>1. first \in Nat /\ first >= 1
      BY <1>4
    <2>2. \A i \in first..Len(events) : i \in 1..Len(events) /\ events[i] \in Nat
      BY <1>1, <2>1
    <2>3. SubSeq(events, first, Len(events)) \in Seq(Nat)
      <3> HIDE DEF first
      <3>1. first \in Int /\ Len(events) \in Int
        BY <1>1, <2>1
      <3> QED
        BY <3>1, <2>2, SubSeqProperties
    <2> QED
      BY <2>3
  <1> QED
    BY <1>5 DEF Recent

(* The breaker keeps fewer events than trip it. *)
LEMMA RecordCrashType ==
    ASSUME NEW crashes \in CrashTrackers, NEW now \in Nat
    PROVE  RecordCrash(crashes, now).crashes \in CrashTrackers
  <1> DEFINE events == Recent(Append(crashes.events, now), now)
  <1>1. crashes.events \in Seq(Nat) /\ crashes.backoffUntil \in Nat
    BY DEF CrashTrackers
  <1>2. Append(crashes.events, now) \in Seq(Nat)
    BY <1>1
  <1>3. events \in Seq(Nat)
    BY <1>2, RecentType
  <1>4. Len(events) \in Nat /\ CrashLimit \in Nat \ {0} /\ Backoff \in Nat
    BY <1>3, TimingAssumption
  <1>5. CASE Len(events) >= CrashLimit
    <2>1. << >> \in Seq(Nat) /\ Len(<< >>) < CrashLimit
      BY <1>4
    <2>2. RecordCrash(crashes, now).crashes
            = [events |-> << >>, backoffUntil |-> now + Backoff]
      BY <1>5 DEF RecordCrash
    <2> QED
      BY <2>1, <2>2, <1>4 DEF CrashTrackers
  <1>6. CASE ~(Len(events) >= CrashLimit)
    <2>1. RecordCrash(crashes, now).crashes = [crashes EXCEPT !.events = events]
      BY <1>6 DEF RecordCrash
    <2>2. events \in {es \in Seq(Nat) : Len(es) < CrashLimit}
      BY <1>3, <1>4, <1>6
    <2> QED
      BY <2>1, <2>2 DEF CrashTrackers
  <1> QED
    BY <1>5, <1>6

(* Only a trip moves the end of the backoff. *)
LEMMA RecordCrashBackoff ==
    ASSUME NEW crashes \in CrashTrackers, NEW now \in Nat
    PROVE  /\ RecordCrash(crashes, now).tripped \in BOOLEAN
           /\ RecordCrash(crashes, now).tripped =>
                  RecordCrash(crashes, now).crashes.backoffUntil = now + Backoff
           /\ ~RecordCrash(crashes, now).tripped =>
                  RecordCrash(crashes, now).crashes.backoffUntil = crashes.backoffUntil
  BY DEF RecordCrash, CrashTrackers

----
(* The bookkeeping that every decision shares keeps an entity an entity, and *)
(* touches neither its settings nor its supervisor.                          *)

LEMMA NewEntityType ==
    ASSUME NEW settings \in Settings \cup {NoSettings}
    PROVE  NewEntity(settings) \in Entities
  <1>1. NoSupervisor \in Supervisors
    BY DEF NoSupervisor, Supervisors, Argvs
  <1>2. [events |-> << >>, backoffUntil |-> 0] \in CrashTrackers
    BY TimingAssumption DEF CrashTrackers
  <1> QED
    BY <1>1, <1>2 DEF NewEntity, Entities

LEMMA WarnType ==
    ASSUME NEW sr \in Entities, NEW kind \in SupervisionWarnings \cup DriftWarnings
    PROVE  /\ Warn(sr, kind) \in Entities
           /\ Warn(sr, kind) = [sr EXCEPT !.warnings = sr.warnings \cup {kind}]
           /\ Warn(sr, kind).supervisor = sr.supervisor
           /\ Warn(sr, kind).settings = sr.settings
           /\ Warn(sr, kind).crashes = sr.crashes
  BY DEF Warn, Entities

LEMMA ClockResetType ==
    ASSUME NEW sr \in Entities
    PROVE  /\ ClockReset(sr) \in Entities
           /\ ClockReset(sr).supervisor = sr.supervisor
           /\ ClockReset(sr).settings = sr.settings
           /\ ClockReset(sr).crashes = sr.crashes
  BY DEF ClockReset, Entities

LEMMA StuckAlertType ==
    ASSUME NEW sr \in Entities, NEW now \in Nat
    PROVE  /\ StuckAlert(sr, now).fire \in BOOLEAN
           /\ StuckAlert(sr, now).sr \in Entities
           /\ StuckAlert(sr, now).sr.supervisor = sr.supervisor
           /\ StuckAlert(sr, now).sr.settings = sr.settings
           /\ StuckAlert(sr, now).sr.crashes = sr.crashes
  <1> DEFINE since == IF sr.stopDeferredSince = 0 THEN now ELSE sr.stopDeferredSince
             fire == ~sr.stopAlerted /\ now - since >= StopDeferAlert
  <1>1. since \in Nat /\ fire \in BOOLEAN
    BY DEF Entities
  <1>2. (sr.stopAlerted \/ fire) \in BOOLEAN
    OBVIOUS
  <1>3. /\ StuckAlert(sr, now).sr = [sr EXCEPT !.stopDeferredSince = since,
                                             !.stopAlerted = sr.stopAlerted \/ fire]
        /\ StuckAlert(sr, now).fire = fire
    BY DEF StuckAlert, Entities
  <1> HIDE DEF since, fire
  <1> QED
    BY <1>1, <1>2, <1>3 DEF Entities

\* The same supervisor, up to the version on its label.
SameRecord(a, b) ==
    /\ a.pid = b.pid
    /\ a.launchedArgs = b.launchedArgs
    /\ a.spawnedAt = b.spawnedAt


LEMMA ObservedType ==
    ASSUME NEW sr \in Entities, NEW probed \in Nat, NEW census \in Censuses
    PROVE  /\ Observed(sr, probed, census) \in Entities
           /\ Observed(sr, probed, census).settings = sr.settings
           /\ Observed(sr, probed, census).crashes = sr.crashes
           /\ SameRecord(Observed(sr, probed, census).supervisor, sr.supervisor)
  BY DEF Observed, Entities, Supervisors, Censuses, SameRecord

----
(* The decisions. *)

(* What a decision of plan_supervision says of the entity it was asked of: a *)
(* spawn is only decided outside the backoff, with no supervisor left; the   *)
(* breaker's alert releases the supervisor and starts a backoff.             *)
SupervisionOutcome(sr, now, plan) ==
    /\ plan.sr \in Entities
    /\ plan.sr.settings = sr.settings
    /\ plan.sr.supervisor \in {sr.supervisor, NoSupervisor}
    /\ plan.decision = "spawn" =>
           plan.sr.supervisor = NoSupervisor \/ ~Running(plan.sr.supervisor)
    /\ plan.decision = "spawn" => ~InBackoff(plan.sr.crashes, now)
    /\ plan.decision = "alert" =>
           /\ plan.sr.supervisor = NoSupervisor
           /\ plan.sr.crashes.backoffUntil = now + Backoff
    /\ plan.decision # "alert" =>
           plan.sr.crashes.backoffUntil = sr.crashes.backoffUntil

LEMMA PlanSupervisionFacts ==
    ASSUME NEW sr \in Entities, NEW now \in Nat,
           NEW present \in BOOLEAN, NEW trusted \in BOOLEAN,
           NEW git \in BOOLEAN, NEW alive \in BOOLEAN
    PROVE  SupervisionOutcome(sr, now,
               PlanSupervision(sr, now, present, trusted, git, alive))
  <1> DEFINE plan == PlanSupervision(sr, now, present, trusted, git, alive)
             sr1  == [sr EXCEPT !.warnings = @ \ SupervisionWarnings]
             died == Running(sr1.supervisor) /\ ~alive
             book == RecordCrash(sr1.crashes, now)
             gone == IF died
                     THEN [sr1 EXCEPT !.supervisor = NoSupervisor, !.crashes = book.crashes]
                     ELSE sr1
  <1> SUFFICES SupervisionOutcome(sr, now, plan)
    OBVIOUS
  <1> USE DEF SupervisionOutcome
  <1>1. /\ sr1 \in Entities
        /\ sr1.supervisor = sr.supervisor
        /\ sr1.settings = sr.settings
        /\ sr1.crashes = sr.crashes
    BY DEF Entities
  <1>2. /\ book.crashes \in CrashTrackers
        /\ book.tripped => book.crashes.backoffUntil = now + Backoff
        /\ ~book.tripped => book.crashes.backoffUntil = sr.crashes.backoffUntil
    <2>1. sr1.crashes \in CrashTrackers
      BY <1>1 DEF Entities
    <2> QED
      BY <2>1, <1>1, RecordCrashType, RecordCrashBackoff
  <1>3. NoSupervisor \in Supervisors
    BY DEF NoSupervisor, Supervisors, Argvs
  <1>4. /\ gone \in Entities
        /\ gone.settings = sr.settings
        /\ died => gone.supervisor = NoSupervisor /\ gone.crashes = book.crashes
        /\ ~died => gone = sr1
    <2> HIDE DEF book, sr1
    <2> QED
      BY <1>1, <1>2, <1>3 DEF Entities
  <1>5. CASE ~present
    <2>1. plan = [sr |-> Warn(sr1, "missing"), decision |-> "wait"]
      BY <1>5 DEF PlanSupervision
    <2> HIDE DEF plan, sr1
    <2> QED
      BY <2>1, <1>1, WarnType DEF SupervisionWarnings, plan
  <1>6. CASE present /\ Running(sr1.supervisor) /\ alive
    <2>1. plan = [sr |-> sr1, decision |-> "wait"]
      BY <1>6 DEF PlanSupervision
    <2> HIDE DEF plan, sr1
    <2> QED
      BY <2>1, <1>1 DEF plan
  <1>7. CASE present /\ died /\ book.tripped
    <2>1. plan = [sr |-> gone, decision |-> "alert"]
      BY <1>7 DEF PlanSupervision
    <2> HIDE DEF plan, sr1, gone, book
    <2> QED
      BY <2>1, <1>1, <1>2, <1>4, <1>7 DEF plan
  <1>8. CASE present /\ ~(Running(sr1.supervisor) /\ alive) /\ ~(died /\ book.tripped)
    <2>1. plan = IF InBackoff(gone.crashes, now)
                 THEN [sr |-> gone, decision |-> "wait"]
                 ELSE SpawnGate(gone, trusted, git)
      BY <1>8 DEF PlanSupervision
    <2>2. /\ gone.crashes.backoffUntil = sr.crashes.backoffUntil
          /\ gone.supervisor \in {sr.supervisor, NoSupervisor}
          /\ gone.supervisor = NoSupervisor \/ ~Running(gone.supervisor)
      <3> HIDE DEF sr1, gone, book
      <3> QED
        BY <1>1, <1>2, <1>4, <1>8
    <2> HIDE DEF plan, sr1, gone, book
    <2>3. CASE InBackoff(gone.crashes, now)
      BY <2>1, <2>2, <2>3, <1>4 DEF plan
    <2>4. CASE ~InBackoff(gone.crashes, now)
      <3>1. plan = SpawnGate(gone, trusted, git)
        BY <2>1, <2>4
      <3>2. plan \in {[sr |-> Warn(gone, "untrusted"), decision |-> "wait"],
                      [sr |-> Warn(gone, "no_git"), decision |-> "wait"],
                      [sr |-> gone, decision |-> "spawn"]}
        BY <3>1 DEF SpawnGate
      <3> QED
        BY <3>2, <2>2, <2>4, <1>4, WarnType DEF SupervisionWarnings, plan
    <2> QED
      BY <2>3, <2>4
  <1> QED
    BY <1>5, <1>6, <1>7, <1>8

(* Retirement is decided by the two gates and leaves the supervisor in place. *)
LEMMA PlanRetirementFacts ==
    ASSUME NEW sr \in Entities, NEW alive \in BOOLEAN, NEW quiet \in BOOLEAN,
           NEW census \in Censuses, NEW now \in Nat
    PROVE  LET plan == PlanRetirement(sr, alive, quiet, census, now)
           IN  /\ plan.sr \in Entities
               /\ plan.sr.supervisor = sr.supervisor
               /\ plan.sr.settings = sr.settings
               /\ plan.sr.crashes = sr.crashes
               /\ plan.decision = "terminate" =>
                      /\ Running(sr.supervisor) /\ alive /\ quiet
                      /\ ~StrandsSessions(sr, census)
  <1> DEFINE plan == PlanRetirement(sr, alive, quiet, census, now)
  <1>1. CASE ~Running(sr.supervisor)
    <2>1. plan = [sr |-> sr, decision |-> "wait"]
      BY <1>1 DEF PlanRetirement
    <2> QED
      BY <2>1
  <1>2. CASE Running(sr.supervisor) /\ ~alive
    <2>1. plan = [sr |-> ClockReset(sr), decision |-> "forget"]
      BY <1>2 DEF PlanRetirement
    <2> HIDE DEF plan
    <2> QED
      BY <2>1, ClockResetType DEF plan
  <1>3. CASE Running(sr.supervisor) /\ alive /\ (~quiet \/ StrandsSessions(sr, census))
    <2>1. plan = [sr |-> StuckAlert(sr, now).sr,
                  decision |-> IF StuckAlert(sr, now).fire THEN "alert" ELSE "wait"]
      BY <1>3 DEF PlanRetirement
    <2> HIDE DEF plan
    <2> QED
      BY <2>1, StuckAlertType DEF plan
  <1>4. CASE Running(sr.supervisor) /\ alive /\ quiet /\ ~StrandsSessions(sr, census)
    <2>1. plan = [sr |-> ClockReset(sr), decision |-> "terminate"]
      BY <1>4 DEF PlanRetirement
    <2> HIDE DEF plan
    <2> QED
      BY <2>1, <1>4, ClockResetType DEF plan
  <1> QED
    BY <1>1, <1>2, <1>3, <1>4

LEMMA DeferredFacts ==
    ASSUME NEW sr \in Entities, NEW kind \in DriftWarnings, NEW now \in Nat
    PROVE  /\ Deferred(sr, kind, now).sr \in Entities
           /\ Deferred(sr, kind, now).sr.supervisor = sr.supervisor
           /\ Deferred(sr, kind, now).sr.settings = sr.settings
           /\ Deferred(sr, kind, now).sr.crashes = sr.crashes
           /\ Deferred(sr, kind, now).decision = "defer"
           /\ Deferred(sr, kind, now).alert \in {"none", "stuck"}
  <1>1. /\ Warn(sr, kind) \in Entities
        /\ Warn(sr, kind).supervisor = sr.supervisor
        /\ Warn(sr, kind).settings = sr.settings
        /\ Warn(sr, kind).crashes = sr.crashes
    BY WarnType
  <1> QED
    BY <1>1, StuckAlertType DEF Deferred

(* So is a drift restart; of the supervisor only the probed version changes. *)
LEMMA PlanDriftFacts ==
    ASSUME NEW sr \in Entities, NEW version \in Nat, NEW probed \in Nat,
           NEW quiet \in BOOLEAN, NEW census \in Censuses, NEW now \in Nat
    PROVE  LET plan == PlanDrift(sr, version, probed, quiet, census, now)
           IN  /\ plan.sr \in Entities
               /\ plan.sr.settings = sr.settings
               /\ plan.sr.crashes = sr.crashes
               /\ SameRecord(plan.sr.supervisor, sr.supervisor)
               /\ plan.decision = "defer" => plan.alert \in {"none", "stuck"}
               /\ plan.decision = "restart" =>
                      /\ plan.alert \in {"none", "interrupted"}
                      /\ Running(sr.supervisor)
                      /\ quiet
                      /\ ~StrandsSessions(sr, census)
  <1> DEFINE plan    == PlanDrift(sr, version, probed, quiet, census, now)
             seen    == Observed(sr, probed, census)
             reasons == DriftReasons(seen, version, census, now)
             idle    == [sr EXCEPT !.warnings = @ \ DriftWarnings]
             restart == [ClockReset(seen) EXCEPT
                            !.anchorReplaced = IF "anchor" \in reasons
                                               THEN seen.supervisor.pid ELSE @]
  <1>1. /\ seen \in Entities
        /\ seen.settings = sr.settings
        /\ seen.crashes = sr.crashes
        /\ SameRecord(seen.supervisor, sr.supervisor)
    BY ObservedType
  <1>2. /\ idle \in Entities
        /\ idle.settings = sr.settings
        /\ idle.crashes = sr.crashes
        /\ SameRecord(idle.supervisor, sr.supervisor)
    BY DEF Entities, Supervisors, SameRecord
  <1>3. /\ restart \in Entities
        /\ restart.settings = sr.settings
        /\ restart.crashes = sr.crashes
        /\ restart.supervisor = seen.supervisor
    <2> HIDE DEF seen, reasons
    <2>1. /\ ClockReset(seen) \in Entities
          /\ ClockReset(seen).settings = sr.settings
          /\ ClockReset(seen).crashes = sr.crashes
          /\ ClockReset(seen).supervisor = seen.supervisor
      BY <1>1, ClockResetType
    <2>2. seen.supervisor.pid \in Nat
      BY <1>1 DEF Entities, Supervisors
    <2> QED
      BY <2>1, <2>2 DEF Entities
  <1>4. StrandsSessions(seen, census) = StrandsSessions(sr, census)
    <2> HIDE DEF seen
    <2>1. /\ seen.supervisor.pid = sr.supervisor.pid
          /\ seen.supervisor.launchedArgs = sr.supervisor.launchedArgs
      BY <1>1 DEF SameRecord
    <2> QED
      BY <2>1 DEF StrandsSessions, Running
  <1>5. CASE ~Running(sr.supervisor) \/ version = 0
    <2>1. plan = [sr |-> idle, decision |-> "converged", alert |-> "none"]
      BY <1>5 DEF PlanDrift
    <2> HIDE DEF plan, idle
    <2> QED
      BY <2>1, <1>2 DEF plan
  <1>6. CASE Running(sr.supervisor) /\ version # 0 /\ reasons = {}
    <2>1. plan = [sr |-> ClockReset(seen), decision |-> "converged", alert |-> "none"]
      BY <1>6 DEF PlanDrift
    <2> HIDE DEF plan, seen
    <2> QED
      BY <2>1, <1>1, ClockResetType DEF plan
  <1>7. CASE /\ Running(sr.supervisor) /\ version # 0 /\ reasons # {}
             /\ \/ reasons = {"anchor"} /\ RetrySpent(seen)
                \/ StrandsSessions(seen, census)
                \/ ~quiet
    <2>1. plan = Deferred(seen, "anchor", now) \/ plan = Deferred(seen, "drift", now)
      BY <1>7 DEF PlanDrift
    <2> HIDE DEF plan, seen
    <2>2. /\ plan.sr \in Entities
          /\ plan.sr.supervisor = seen.supervisor
          /\ plan.sr.settings = seen.settings
          /\ plan.sr.crashes = seen.crashes
          /\ plan.decision = "defer"
          /\ plan.alert \in {"none", "stuck"}
      BY <2>1, <1>1, DeferredFacts DEF DriftWarnings
    <2> QED
      BY <2>2, <1>1 DEF plan
  <1>8. CASE /\ Running(sr.supervisor) /\ version # 0 /\ reasons # {}
             /\ ~(reasons = {"anchor"} /\ RetrySpent(seen))
             /\ ~StrandsSessions(seen, census) /\ quiet
    <2>1. plan = [sr |-> restart, decision |-> "restart",
                  alert |-> IF census.working > 0 THEN "interrupted" ELSE "none"]
      BY <1>8 DEF PlanDrift
    <2> HIDE DEF plan, seen, restart
    <2> QED
      BY <2>1, <1>1, <1>3, <1>4, <1>8 DEF plan
  <1> QED
    BY <1>5, <1>6, <1>7, <1>8

----
(* What the breaker counts. *)

(* Dropping the events that are too old adds none. *)
LEMMA RecentShorter ==
    ASSUME NEW events \in Seq(Nat), NEW now \in Nat
    PROVE  Len(Recent(events, now)) <= Len(events)
  <1> DEFINE stale == {i \in DOMAIN events : now - events[i] > CrashWindow}
             first == Cardinality(stale) + 1
  <1>1. Len(events) \in Nat /\ DOMAIN events = 1..Len(events)
    OBVIOUS
  <1>2. IsFiniteSet(stale)
    <2>1. IsFiniteSet(1..Len(events))
      BY <1>1, FS_Interval
    <2> QED
      BY <1>1, <2>1, FS_Subset
  <1>3. first \in Nat /\ first >= 1
    BY <1>2, FS_CardinalityType
  <1>4. \A i \in first..Len(events) : events[i] \in Nat
    BY <1>1, <1>3
  <1>5. Recent(events, now) = SubSeq(events, first, Len(events))
    BY DEF Recent
  <1> HIDE DEF first
  <1>6. Len(SubSeq(events, first, Len(events)))
            = IF first <= Len(events) THEN Len(events) - first + 1 ELSE 0
    BY <1>1, <1>3, <1>4, SubSeqProperties
  <1> QED
    BY <1>1, <1>3, <1>5, <1>6

(* A crash is worth one event, and a trip uses up as many as the limit. *)
LEMMA RecordCrashWorth ==
    ASSUME NEW crashes \in CrashTrackers, NEW now \in Nat
    PROVE  /\ RecordCrash(crashes, now).tripped =>
                  /\ Len(RecordCrash(crashes, now).crashes.events) = 0
                  /\ CrashLimit <= Len(crashes.events) + 1
           /\ ~RecordCrash(crashes, now).tripped =>
                  Len(RecordCrash(crashes, now).crashes.events) <= Len(crashes.events) + 1
  <1> DEFINE events == Recent(Append(crashes.events, now), now)
  <1>1. crashes.events \in Seq(Nat)
    BY DEF CrashTrackers
  <1>2. /\ Append(crashes.events, now) \in Seq(Nat)
        /\ Len(Append(crashes.events, now)) = Len(crashes.events) + 1
    BY <1>1
  <1>3. Len(events) <= Len(crashes.events) + 1 /\ Len(events) \in Nat
    <2> DEFINE longer == Append(crashes.events, now)
    <2>1. longer \in Seq(Nat) /\ Len(longer) = Len(crashes.events) + 1
      BY <1>2
    <2> HIDE DEF longer
    <2>2. Recent(longer, now) \in Seq(Nat) /\ Len(Recent(longer, now)) <= Len(longer)
      BY <2>1, RecentShorter, RecentType
    <2> QED
      BY <2>1, <2>2 DEF longer
  <1>4. CrashLimit \in Nat /\ Len(crashes.events) \in Nat
    BY <1>1, TimingAssumption
  <1>5. /\ RecordCrash(crashes, now).tripped <=> Len(events) >= CrashLimit
        /\ RecordCrash(crashes, now).crashes =
              IF Len(events) >= CrashLimit
              THEN [events |-> << >>, backoffUntil |-> now + Backoff]
              ELSE [crashes EXCEPT !.events = events]
    BY DEF RecordCrash
  <1> HIDE DEF events
  <1>6. ~(Len(events) >= CrashLimit) => RecordCrash(crashes, now).crashes.events = events
    BY <1>5 DEF CrashTrackers
  <1>7. Len(events) >= CrashLimit => RecordCrash(crashes, now).crashes.events = << >>
    BY <1>5
  <1> QED
    BY <1>3, <1>4, <1>5, <1>6, <1>7

(* What plan_supervision does to the bookkeeping: a live supervisor is left  *)
(* alone, and a supervisor is only let go of as one crash booked.            *)
Booking(sr, now, alive, plan) ==
    /\ plan.sr.anchorReplaced = sr.anchorReplaced
    /\ Running(sr.supervisor) /\ alive => plan.decision = "wait"
    /\ \/ /\ plan.sr.supervisor = sr.supervisor
          /\ plan.sr.crashes = sr.crashes
          /\ plan.decision # "alert"
       \/ /\ Running(sr.supervisor) /\ ~alive
          /\ plan.sr.supervisor = NoSupervisor
          /\ plan.sr.crashes = RecordCrash(sr.crashes, now).crashes
          /\ plan.decision = "alert" <=> RecordCrash(sr.crashes, now).tripped

LEMMA PlanSupervisionBooks ==
    ASSUME NEW sr \in Entities, NEW now \in Nat,
           NEW present \in BOOLEAN, NEW trusted \in BOOLEAN,
           NEW git \in BOOLEAN, NEW alive \in BOOLEAN
    PROVE  Booking(sr, now, alive, PlanSupervision(sr, now, present, trusted, git, alive))
  <1> DEFINE plan == PlanSupervision(sr, now, present, trusted, git, alive)
             sr1  == [sr EXCEPT !.warnings = @ \ SupervisionWarnings]
             died == Running(sr1.supervisor) /\ ~alive
             book == RecordCrash(sr1.crashes, now)
             gone == IF died
                     THEN [sr1 EXCEPT !.supervisor = NoSupervisor, !.crashes = book.crashes]
                     ELSE sr1
  <1>1. /\ sr1 \in Entities
        /\ sr1.supervisor = sr.supervisor
        /\ sr1.crashes = sr.crashes
        /\ sr1.anchorReplaced = sr.anchorReplaced
    BY DEF Entities
  <1>2. book = RecordCrash(sr.crashes, now) /\ book.crashes \in CrashTrackers
    <2>1. sr.crashes \in CrashTrackers
      BY DEF Entities
    <2> QED
      BY <1>1, <2>1, RecordCrashType
  <1>3. NoSupervisor \in Supervisors
    BY DEF NoSupervisor, Supervisors, Argvs
  <1>4. /\ gone \in Entities
        /\ gone.anchorReplaced = sr.anchorReplaced
        /\ died => gone.supervisor = NoSupervisor /\ gone.crashes = book.crashes
        /\ ~died => gone.supervisor = sr.supervisor /\ gone.crashes = sr.crashes
    <2> HIDE DEF book, sr1
    <2> QED
      BY <1>1, <1>2, <1>3 DEF Entities
  <1>5. ASSUME NEW e \in {sr1, gone},
               NEW kind \in SupervisionWarnings \cup DriftWarnings
        PROVE  /\ Warn(e, kind).supervisor = e.supervisor
               /\ Warn(e, kind).crashes = e.crashes
               /\ Warn(e, kind).anchorReplaced = e.anchorReplaced
    <2>1. e \in Entities
      BY <1>1, <1>4
    <2> HIDE DEF sr1, gone
    <2> QED
      BY <2>1 DEF Warn, Entities
  <1>6. \/ plan = [sr |-> Warn(sr1, "missing"), decision |-> "wait"]
        \/ plan = [sr |-> sr1, decision |-> "wait"]
        \/ died /\ book.tripped /\ plan = [sr |-> gone, decision |-> "alert"]
        \/ ~(Running(sr1.supervisor) /\ alive) /\ ~(died /\ book.tripped) /\
           plan \in {[sr |-> gone, decision |-> "wait"],
                     [sr |-> Warn(gone, "untrusted"), decision |-> "wait"],
                     [sr |-> Warn(gone, "no_git"), decision |-> "wait"],
                     [sr |-> gone, decision |-> "spawn"]}
    <2>1. CASE ~present
      BY <2>1 DEF PlanSupervision
    <2>2. CASE present /\ Running(sr1.supervisor) /\ alive
      BY <2>2 DEF PlanSupervision
    <2>3. CASE present /\ died /\ book.tripped
      BY <2>3 DEF PlanSupervision
    <2>4. CASE present /\ ~(Running(sr1.supervisor) /\ alive) /\ ~(died /\ book.tripped)
      <3>1. plan = IF InBackoff(gone.crashes, now)
                   THEN [sr |-> gone, decision |-> "wait"]
                   ELSE SpawnGate(gone, trusted, git)
        BY <2>4 DEF PlanSupervision
      <3> HIDE DEF plan, sr1, gone, book
      <3>2. SpawnGate(gone, trusted, git) \in
                {[sr |-> Warn(gone, "untrusted"), decision |-> "wait"],
                 [sr |-> Warn(gone, "no_git"), decision |-> "wait"],
                 [sr |-> gone, decision |-> "spawn"]}
        BY DEF SpawnGate
      <3> QED
        BY <2>4, <3>1, <3>2
    <2> QED
      BY <2>1, <2>2, <2>3, <2>4
  <1> HIDE DEF plan, sr1, gone, book
  <1>7. "missing" \in SupervisionWarnings /\ "untrusted" \in SupervisionWarnings
        /\ "no_git" \in SupervisionWarnings
    BY DEF SupervisionWarnings
  <1>8. Booking(sr, now, alive, plan)
    BY <1>1, <1>2, <1>4, <1>5, <1>6, <1>7 DEF Booking
  <1> QED
    BY <1>8 DEF plan

(* plan_retirement forgets a supervisor only when it is not alive. *)
LEMMA PlanRetirementForgets ==
    ASSUME NEW sr \in Entities, NEW alive \in BOOLEAN, NEW quiet \in BOOLEAN,
           NEW census \in Censuses, NEW now \in Nat
    PROVE  /\ PlanRetirement(sr, alive, quiet, census, now).decision = "forget" => ~alive
           /\ PlanRetirement(sr, alive, quiet, census, now).sr.anchorReplaced
                  = sr.anchorReplaced
  <1> DEFINE plan == PlanRetirement(sr, alive, quiet, census, now)
  <1>1. /\ ClockReset(sr).anchorReplaced = sr.anchorReplaced
        /\ StuckAlert(sr, now).sr.anchorReplaced = sr.anchorReplaced
    BY DEF ClockReset, StuckAlert, Entities
  <1>2. \/ plan = [sr |-> sr, decision |-> "wait"]
        \/ ~alive /\ plan = [sr |-> ClockReset(sr), decision |-> "forget"]
        \/ plan = [sr |-> StuckAlert(sr, now).sr,
                   decision |-> IF StuckAlert(sr, now).fire THEN "alert" ELSE "wait"]
        \/ plan = [sr |-> ClockReset(sr), decision |-> "terminate"]
    BY DEF PlanRetirement
  <1> HIDE DEF plan
  <1>3. plan.decision = "forget" => ~alive
    BY <1>2
  <1>4. plan.sr.anchorReplaced = sr.anchorReplaced
    BY <1>1, <1>2
  <1> QED
    BY <1>3, <1>4 DEF plan

====
