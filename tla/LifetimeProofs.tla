---- MODULE LifetimeProofs ----
(* What becomes of the processes, for every value of the constants: every   *)
(* crash the breaker counts is a process that died by itself; and, under    *)
(* the conditions that make it so, every remote-control process is the      *)
(* supervisor of its directory's entity, and the daemon implements          *)
(* SupervisedFleet.                                                         *)
EXTENDS DaemonProofs

----
(* Processes age in one direction. *)

\* A process keeps its directory, ends once, and as long as it lives keeps the
\* version it was started from.
ProcsAge ==
    \A pid \in DOMAIN procs :
        /\ pid \in DOMAIN procs'
        /\ procs'[pid].repo = procs[pid].repo
        /\ procs[pid].state # "live" => procs'[pid].state = procs[pid].state
        /\ procs'[pid].state = "live" => procs'[pid].version = procs[pid].version

\* No process is stopped by this step, and none is started.
NoneStopped ==
    \A pid \in DOMAIN procs : procs'[pid].state = "stopped" => procs[pid].state = "stopped"

NoneStarted == DOMAIN procs' = DOMAIN procs

LEMMA ProcsStand ==
    ASSUME UNCHANGED procs PROVE ProcsAge /\ NoneStopped /\ NoneStarted
  BY DEF ProcsAge, NoneStopped, NoneStarted

LEMMA EndsAge ==
    ASSUME TypeOK, NEW pid \in DOMAIN procs, LivePid(pid),
           NEW how \in {"died", "stopped"}, Ends(pid, how)
    PROVE  /\ ProcsAge /\ NoneStarted
           /\ \A q \in DOMAIN procs : q # pid => procs'[q] = procs[q]
           /\ procs'[pid].state = how
  <1>1. /\ procs \in [1..(nextPid - 1) -> Processes]
        /\ procs' = [procs EXCEPT ![pid].state = how, ![pid].starting = FALSE,
                                  ![pid].version = 0, ![pid].created = 0]
    BY DEF TypeOK, MachineTypeOK, Ends
  <1>2. procs[pid] \in Processes
    BY <1>1
  <1>3. /\ \A q \in DOMAIN procs : q # pid => procs'[q] = procs[q]
        /\ procs'[pid].state = how /\ procs'[pid].repo = procs[pid].repo
        /\ DOMAIN procs' = DOMAIN procs
    BY <1>1, <1>2 DEF Processes
  <1> QED
    BY <1>3 DEF ProcsAge, NoneStarted, LivePid

LEMMA ConnectAges ==
    ASSUME TypeOK, NEW pid \in DOMAIN procs, Connect(pid)
    PROVE  ProcsAge /\ NoneStopped /\ NoneStarted
  <1>1. /\ procs \in [1..(nextPid - 1) -> Processes]
        /\ procs' = [procs EXCEPT ![pid].starting = FALSE]
    BY DEF TypeOK, MachineTypeOK, Connect
  <1>2. procs[pid] \in Processes
    BY <1>1
  <1> QED
    BY <1>1, <1>2 DEF Processes, ProcsAge, NoneStopped, NoneStarted

LEMMA StartsAge ==
    ASSUME TypeOK, NEW r \in Repos, NEW version, NEW args, Starts(r, version, args)
    PROVE  /\ ProcsAge /\ NoneStopped
           /\ \A pid \in DOMAIN procs : procs'[pid] = procs[pid]
           /\ nextPid \notin DOMAIN procs
           /\ DOMAIN procs' = DOMAIN procs \cup {nextPid}
           /\ procs'[nextPid].state = "live"
           /\ procs'[nextPid].repo = r
           /\ procs'[nextPid].version = version
  <1>1. nextPid \in Nat \ {0} /\ DOMAIN procs = 1..(nextPid - 1)
    BY MachineAssumption DEF TypeOK, MachineTypeOK
  <1>2. /\ DOMAIN procs' = 1..nextPid
        /\ procs'[nextPid] = [state |-> "live", repo |-> r, version |-> version,
                              args |-> args, created |-> now, starting |-> TRUE]
        /\ \A pid \in 1..nextPid : pid # nextPid => procs'[pid] = procs[pid]
    BY <1>1 DEF Starts
  <1>3. \A pid \in DOMAIN procs : pid \in 1..nextPid /\ pid # nextPid
    BY <1>1
  <1>4. DOMAIN procs' = DOMAIN procs \cup {nextPid} /\ nextPid \notin DOMAIN procs
    BY <1>1, <1>2
  <1>5. \A pid \in DOMAIN procs : pid \in DOMAIN procs' /\ procs'[pid] = procs[pid]
    BY <1>2, <1>3
  <1>6. ProcsAge /\ NoneStopped
    BY <1>5 DEF ProcsAge, NoneStopped
  <1>7. /\ procs'[nextPid].state = "live"
        /\ procs'[nextPid].repo = r
        /\ procs'[nextPid].version = version
    BY <1>2
  <1> QED
    BY <1>4, <1>5, <1>6, <1>7

\* The machine stops nobody, and only a hand starts a process behind the
\* daemon's back.
LEMMA MachineAges ==
    ASSUME TypeOK, MachineNext
    PROVE  ProcsAge /\ NoneStopped /\ ("hand" \notin Events => NoneStarted)
  <1>1. CASE UNCHANGED procs
    BY <1>1, ProcsStand
  <1>2. ASSUME NEW pid \in DOMAIN procs, Die(pid)
        PROVE  ProcsAge /\ NoneStopped /\ NoneStarted
    BY <1>2, EndsAge DEF Die, NoneStopped
  <1>3. ASSUME NEW pid \in DOMAIN procs, Connect(pid)
        PROVE  ProcsAge /\ NoneStopped /\ NoneStarted
    BY <1>3, ConnectAges
  <1>4. ASSUME NEW r \in Repos, StartByHand(r)
        PROVE  ProcsAge /\ NoneStopped /\ "hand" \in Events
    BY <1>4, StartsAge DEF StartByHand
  <1>5. \/ UNCHANGED procs
        \/ \E pid \in DOMAIN procs : Die(pid) \/ Connect(pid)
        \/ \E r \in Repos : StartByHand(r)
    BY DEF MachineNext, Advance, Release, OpenSession, CmdRemove, DirectoryMoves,
           CmdAdd, TakeTurn, GoQuiet, EndSession
  <1> QED
    BY <1>1, <1>2, <1>3, <1>4, <1>5

----
(* The inductive invariant of the bookings.                                 *)
(*                                                                          *)
(* That a booked crash is a death takes two facts about stops: while a stop *)
(* is under way the entity keeps the supervisor that is being stopped, and  *)
(* a supervisor whose process was stopped is never left for reconcile to    *)
(* find.  The count leaves out the process of the current supervisor, which *)
(* is booked when the supervisor is let go of.                              *)

DiedOf(processes, r) ==
    {pid \in DOMAIN processes : processes[pid].repo = r /\ processes[pid].state = "died"}

\* What the breaker has counted of a repo's crashes.
Booked(times, crashes) == CrashLimit * Len(times) + Len(crashes.events)

StopHitsSupervisor ==
    Stopping => /\ phase # "down"
                /\ fleet[stopping.repo].supervisor.pid = stopping.pid

StoppedIsReleased ==
    \A r \in Repos :
        Running(fleet[r].supervisor) /\ procs[fleet[r].supervisor.pid].state = "stopped"
            => stopping.pid = fleet[r].supervisor.pid

\* Only an entity that has its settings has a supervisor.
SupervisorSettled ==
    \A r \in Repos : Running(fleet[r].supervisor) => fleet[r].settings # NoSettings

BookingsCovered(r) ==
    Booked(trips[r], fleet[r].crashes)
        <= Cardinality(DiedOf(procs, r) \ {fleet[r].supervisor.pid})

NoTripsDown == phase = "down" => \A r \in Repos : trips[r] = << >>

LifeInv ==
    /\ NoTripsDown
    /\ StopHitsSupervisor
    /\ StoppedIsReleased
    /\ SupervisorSettled
    /\ \A r \in Repos : BookingsCovered(r)

----
(* Counting. *)

LEMMA DiedFinite ==
    ASSUME NEW next \in Nat \ {0}, NEW processes \in [1..(next - 1) -> Processes],
           NEW r, NEW pid
    PROVE  /\ IsFiniteSet(DiedOf(processes, r))
           /\ IsFiniteSet(DiedOf(processes, r) \ {pid})
           /\ Cardinality(DiedOf(processes, r)) \in Nat
           /\ Cardinality(DiedOf(processes, r) \ {pid}) \in Nat
  <1>1. IsFiniteSet(1..(next - 1))
    BY FS_Interval
  <1>2. DiedOf(processes, r) \subseteq 1..(next - 1)
    BY DEF DiedOf
  <1>3. IsFiniteSet(DiedOf(processes, r))
    BY <1>1, <1>2, FS_Subset
  <1>4. IsFiniteSet(DiedOf(processes, r) \ {pid})
    BY <1>3, FS_Subset
  <1> QED
    BY <1>3, <1>4, FS_CardinalityType

LEMMA DiedFiniteHere ==
    ASSUME TypeOK, NEW r, NEW pid
    PROVE  /\ IsFiniteSet(DiedOf(procs, r))
           /\ IsFiniteSet(DiedOf(procs, r) \ {pid})
           /\ Cardinality(DiedOf(procs, r)) \in Nat
           /\ Cardinality(DiedOf(procs, r) \ {pid}) \in Nat
  <1>1. /\ nextPid \in 1..(MaxPid + 1)
        /\ procs \in [1..(nextPid - 1) -> Processes]
    BY DEF TypeOK, MachineTypeOK
  <1>2. nextPid \in Nat \ {0}
    BY <1>1, MachineAssumption
  <1> QED
    BY <1>1, <1>2, DiedFinite

LEMMA DiedFiniteNext ==
    ASSUME TypeOK', NEW r, NEW pid
    PROVE  /\ IsFiniteSet(DiedOf(procs', r))
           /\ IsFiniteSet(DiedOf(procs', r) \ {pid})
           /\ Cardinality(DiedOf(procs', r)) \in Nat
           /\ Cardinality(DiedOf(procs', r) \ {pid}) \in Nat
  <1>1. /\ nextPid' \in 1..(MaxPid + 1)
        /\ procs' \in [1..(nextPid' - 1) -> Processes]
    BY DEF TypeOK, MachineTypeOK
  <1>2. nextPid' \in Nat \ {0}
    BY <1>1, MachineAssumption
  <1> QED
    BY <1>1, <1>2, DiedFinite

LEMMA DiedStand ==
    ASSUME ProcsAge, NEW r PROVE DiedOf(procs, r) \subseteq DiedOf(procs', r)
  BY DEF ProcsAge, DiedOf

LEMMA BookedType ==
    ASSUME NEW times \in Seq(Nat), NEW crashes \in CrashTrackers
    PROVE  /\ Len(times) \in Nat
           /\ Len(crashes.events) \in Nat
           /\ CrashLimit \in Nat
           /\ Booked(times, crashes) \in Nat
  <1>1. crashes.events \in Seq(Nat)
    BY DEF CrashTrackers
  <1>2. Len(times) \in Nat /\ Len(crashes.events) \in Nat /\ CrashLimit \in Nat
    BY <1>1, TimingAssumption
  <1>3. \A m, n \in Nat : m * n \in Nat
    OBVIOUS
  <1> DEFINE spent == CrashLimit * Len(times)
             kept == Len(crashes.events)
  <1>4. spent \in Nat
    BY <1>2, <1>3
  <1>5. Booked(times, crashes) = spent + kept
    BY DEF Booked
  <1> HIDE DEF spent, kept
  <1> QED
    BY <1>2, <1>4, <1>5 DEF kept

\* A trip is worth the deaths it clears.
LEMMA OneMoreTrip ==
    ASSUME NEW times \in Seq(Nat), NEW crashes \in CrashTrackers, NEW time \in Nat
    PROVE  LET book == RecordCrash(crashes, time)
           IN  Booked(IF book.tripped THEN Append(times, time) ELSE times, book.crashes)
                   <= Booked(times, crashes) + 1
  <1> DEFINE book == RecordCrash(crashes, time)
             after == book.crashes
             longer == Append(times, time)
  <1>1. after \in CrashTrackers
    BY RecordCrashType
  <1>2. longer \in Seq(Nat) /\ Len(longer) = Len(times) + 1
    OBVIOUS
  <1>3. /\ Len(times) \in Nat /\ Len(crashes.events) \in Nat /\ CrashLimit \in Nat
        /\ Len(after.events) \in Nat
    BY <1>1, BookedType
  <1>4. /\ book.tripped => Len(after.events) = 0 /\ CrashLimit <= Len(crashes.events) + 1
        /\ ~book.tripped => Len(after.events) <= Len(crashes.events) + 1
    BY RecordCrashWorth
  <1> HIDE DEF book, after, longer
  <1>5. \A m, n \in Nat : m * (n + 1) = m * n + m /\ m * n \in Nat
    OBVIOUS
  <1> DEFINE spent == CrashLimit * Len(times)
             kept == Len(crashes.events)
             left == Len(after.events)
  <1>6. CrashLimit * Len(longer) = spent + CrashLimit /\ spent \in Nat
    BY <1>2, <1>3, <1>5
  <1>7. /\ Booked(times, crashes) = spent + kept
        /\ Booked(times, after) = spent + left
        /\ Booked(longer, after) = spent + CrashLimit + left
    BY <1>6 DEF Booked
  <1> HIDE DEF spent, kept, left
  <1>8. kept \in Nat /\ left \in Nat /\ CrashLimit \in Nat /\ spent \in Nat
    BY <1>3, <1>6 DEF kept, left
  <1>9. CASE book.tripped
    <2>1. left = 0 /\ CrashLimit <= kept + 1
      BY <1>4, <1>9 DEF left, kept
    <2>2. Booked(longer, after) <= Booked(times, crashes) + 1
      BY <1>7, <1>8, <2>1
    <2> QED
      BY <1>9, <2>2 DEF after, book, longer
  <1>10. CASE ~book.tripped
    <2>1. left <= kept + 1
      BY <1>4, <1>10 DEF left, kept
    <2>2. Booked(times, after) <= Booked(times, crashes) + 1
      BY <1>7, <1>8, <2>1
    <2> QED
      BY <1>10, <2>2 DEF after, book
  <1> QED
    BY <1>9, <1>10

\* Nothing new is booked, and no death is left out that was counted.
LEMMA NothingBooked ==
    ASSUME TypeOK, TypeOK', ProcsAge, NEW r \in Repos, BookingsCovered(r),
           Booked(trips'[r], fleet'[r].crashes) <= Booked(trips[r], fleet[r].crashes),
           \/ fleet'[r].supervisor.pid = fleet[r].supervisor.pid
           \/ fleet'[r].supervisor.pid \notin DiedOf(procs', r)
    PROVE  BookingsCovered(r)'
  <1> DEFINE was == DiedOf(procs, r) \ {fleet[r].supervisor.pid}
             is  == DiedOf(procs', r) \ {fleet'[r].supervisor.pid}
  <1>1. was \subseteq is
    BY DiedStand
  <1>2. /\ IsFiniteSet(is) /\ Cardinality(is) \in Nat
        /\ IsFiniteSet(was) /\ Cardinality(was) \in Nat
    BY DiedFiniteHere, DiedFiniteNext
  <1>3. /\ Booked(trips[r], fleet[r].crashes) \in Nat
        /\ Booked(trips'[r], fleet'[r].crashes) \in Nat
    <2>1. /\ trips[r] \in Seq(Nat) /\ fleet[r].crashes \in CrashTrackers
          /\ trips'[r] \in Seq(Nat) /\ fleet'[r].crashes \in CrashTrackers
      BY DEF TypeOK, Entities
    <2> QED
      BY <2>1, BookedType
  <1>4. Booked(trips[r], fleet[r].crashes) <= Cardinality(was)
    BY DEF BookingsCovered
  <1>5. Cardinality(was) <= Cardinality(is)
    BY <1>1, <1>2, FS_Subset
  <1> HIDE DEF was
  <1>6. Booked(trips'[r], fleet'[r].crashes) <= Cardinality(is)
    BY <1>2, <1>3, <1>4, <1>5
  <1> QED
    BY <1>6 DEF BookingsCovered

----
(* The shapes of a step. *)

\* No entity and no stop changes; a process that is stopped by this step is the
\* one the stop under way is about.
LEMMA SameFleetLives ==
    ASSUME SafetyInv, TypeOK', LifeInv, ProcsAge,
           UNCHANGED << fleet, stopping, trips >>,
           phase # "down" => phase' # "down",
           \A pid \in DOMAIN procs : procs'[pid].state = "stopped" =>
               procs[pid].state = "stopped" \/ pid = stopping.pid
    PROVE  LifeInv'
  <1>1. StopHitsSupervisor'
    BY DEF LifeInv, StopHitsSupervisor, Stopping
  <1>2. StoppedIsReleased'
    <2> SUFFICES ASSUME NEW r \in Repos, Running(fleet[r].supervisor),
                        procs'[fleet[r].supervisor.pid].state = "stopped"
                 PROVE  stopping.pid = fleet[r].supervisor.pid
      BY DEF StoppedIsReleased
    <2>1. fleet[r].supervisor.pid \in DOMAIN procs
      BY DEF SafetyInv, SupervisorsKnown
    <2> QED
      BY <2>1 DEF LifeInv, StoppedIsReleased
  <1>3. SupervisorSettled'
    BY DEF LifeInv, SupervisorSettled
  <1>4. ASSUME NEW r \in Repos PROVE BookingsCovered(r)'
    <2>1. /\ trips[r] \in Seq(Nat) /\ fleet[r].crashes \in CrashTrackers
      BY DEF SafetyInv, TypeOK, Entities
    <2>2. Booked(trips[r], fleet[r].crashes) \in Nat
      BY <2>1, BookedType
    <2>3. Booked(trips'[r], fleet'[r].crashes) <= Booked(trips[r], fleet[r].crashes)
      BY <2>2
    <2> QED
      BY <2>3, NothingBooked DEF SafetyInv, LifeInv
  <1>5. NoTripsDown'
    BY DEF LifeInv, NoTripsDown
  <1> QED
    BY <1>1, <1>2, <1>3, <1>4, <1>5 DEF LifeInv

\* One entity changes, with no stop under way: its supervisor stays, is let go
\* of or is a live process, and a stop that begins hits that supervisor.
LEMMA OneEntityLives ==
    ASSUME SafetyInv, TypeOK', LifeInv, ProcsAge, NoneStopped, ~Stopping,
           phase # "down", phase' = phase,
           NEW r \in Repos, NEW sr,
           fleet' = [fleet EXCEPT ![r] = sr],
           Running(sr.supervisor) => sr.settings # NoSettings,
           \/ sr.supervisor.pid \in {0, fleet[r].supervisor.pid}
           \/ procs'[sr.supervisor.pid].state = "live",
           stopping' = NoStop
              \/ (stopping'.repo = r /\ stopping'.pid = sr.supervisor.pid),
           \A q \in Repos : q # r => trips'[q] = trips[q],
           BookingsCovered(r)'
    PROVE  LifeInv'
  <1>1. /\ fleet \in [Repos -> Entities]
        /\ fleet'[r] = sr
        /\ \A q \in Repos : q # r => fleet'[q] = fleet[q]
    BY DEF SafetyInv, TypeOK
  <1>2. \A q \in Repos : Running(fleet[q].supervisor) =>
            /\ fleet[q].supervisor.pid \in DOMAIN procs
            /\ procs[fleet[q].supervisor.pid].state # "stopped"
    BY DEF SafetyInv, SupervisorsKnown, LifeInv, StoppedIsReleased, Stopping, Running
  <1>3. StopHitsSupervisor'
    BY <1>1 DEF StopHitsSupervisor, Stopping, NoStop
  <1>4. StoppedIsReleased'
    <2> SUFFICES ASSUME NEW q \in Repos, Running(fleet'[q].supervisor),
                        procs'[fleet'[q].supervisor.pid].state = "stopped"
                 PROVE  FALSE
      BY DEF StoppedIsReleased
    <2>1. fleet'[q].supervisor.pid = fleet[q].supervisor.pid
      BY <1>1 DEF Running
    <2> QED
      BY <1>2, <2>1 DEF NoneStopped, Running
  <1>5. SupervisorSettled'
    BY <1>1 DEF LifeInv, SupervisorSettled
  <1>6. ASSUME NEW q \in Repos, q # r PROVE BookingsCovered(q)'
    <2>1. fleet'[q] = fleet[q] /\ trips'[q] = trips[q]
      BY <1>1, <1>6
    <2>2. /\ trips[q] \in Seq(Nat) /\ fleet[q].crashes \in CrashTrackers
      BY DEF SafetyInv, TypeOK, Entities
    <2>3. Booked(trips'[q], fleet'[q].crashes) <= Booked(trips[q], fleet[q].crashes)
      BY <2>1, <2>2, BookedType
    <2> QED
      BY <2>1, <2>3, NothingBooked DEF SafetyInv, LifeInv
  <1>7. NoTripsDown'
    BY DEF NoTripsDown
  <1> QED
    BY <1>3, <1>4, <1>5, <1>6, <1>7 DEF LifeInv

\* No entity is supervised or has crashed, and nothing is being stopped.
LEMMA FreshFleetLives ==
    ASSUME TypeOK', ~Stopping', \A r \in Repos : trips'[r] = << >>,
           \A r \in Repos :
              /\ fleet'[r].crashes.events = << >>
              /\ Running(fleet'[r].supervisor) =>
                    /\ fleet'[r].settings # NoSettings
                    /\ procs'[fleet'[r].supervisor.pid].state = "live"
    PROVE  LifeInv'
  <1>1. ASSUME NEW r \in Repos PROVE BookingsCovered(r)'
    <2>1. Booked(trips'[r], fleet'[r].crashes) = 0
      <3>1. Booked(trips'[r], fleet'[r].crashes) = CrashLimit * Len(<< >>) + Len(<< >>)
        BY DEF Booked
      <3>2. \A m \in Nat : m * 0 + 0 = 0
        OBVIOUS
      <3>3. CrashLimit \in Nat /\ Len(<< >>) = 0
        BY TimingAssumption
      <3> QED
        BY <3>1, <3>2, <3>3
    <2>2. Cardinality(DiedOf(procs', r) \ {fleet'[r].supervisor.pid}) \in Nat
      BY DiedFiniteNext
    <2> QED
      BY <2>1, <2>2 DEF BookingsCovered
  <1>2. StopHitsSupervisor' /\ StoppedIsReleased' /\ SupervisorSettled' /\ NoTripsDown'
    BY DEF StopHitsSupervisor, StoppedIsReleased, SupervisorSettled, NoTripsDown
  <1> QED
    BY <1>1, <1>2 DEF LifeInv

----
(* The steps of the daemon. *)

\* Taking up an entry loses no supervisor, and books nothing.
LEMMA EntityOfLives ==
    ASSUME SafetyInv, LifeInv, NEW r \in Repos, EntryOf(r)
    PROVE  /\ EntityOf(r) \in Entities
           /\ EntityOf(r).settings # NoSettings
           /\ EntityOf(r).supervisor.pid = fleet[r].supervisor.pid
           /\ Booked(trips[r], EntityOf(r).crashes) <= Booked(trips[r], fleet[r].crashes)
  <1>1. /\ EntityOf(r) \in Entities
        /\ fleet[r] \in Entities
        /\ trips[r] \in Seq(Nat)
    BY EntityOfType DEF SafetyInv, TypeOK
  <1>2. fleet[r].crashes \in CrashTrackers
    BY <1>1 DEF Entities
  <1>3. CASE fleet[r].settings = NoSettings
    <2>1. EntityOf(r) = NewEntity(pass.entries[r])
      BY <1>3 DEF EntityOf
    <2>2. /\ EntityOf(r).settings # NoSettings
          /\ EntityOf(r).supervisor.pid = 0
          /\ EntityOf(r).crashes.events = << >>
      BY <2>1 DEF NewEntity, NoSupervisor, EntryOf
    <2>3. fleet[r].supervisor.pid = 0
      BY <1>3 DEF LifeInv, SupervisorSettled, Running
    <2> DEFINE spent == CrashLimit * Len(trips[r])
               kept == Len(fleet[r].crashes.events)
    <2>4. /\ Booked(trips[r], EntityOf(r).crashes) = spent + 0
          /\ Booked(trips[r], fleet[r].crashes) = spent + kept
      BY <2>2 DEF Booked
    <2>5. spent \in Nat /\ kept \in Nat
      <3>1. \A m, n \in Nat : m * n \in Nat
        OBVIOUS
      <3> QED
        BY <1>1, <1>2, <3>1, BookedType
    <2> HIDE DEF spent, kept
    <2> QED
      BY <1>1, <2>2, <2>3, <2>4, <2>5
  <1>4. CASE fleet[r].settings # NoSettings
    <2>1. EntityOf(r) = fleet[r]
      BY <1>4 DEF EntityOf
    <2> QED
      BY <1>1, <1>2, <1>4, <2>1, BookedType
  <1> QED
    BY <1>3, <1>4

\* What plan_supervision does, called as reconcile calls it.
LEMMA SupervisionPlanBooks ==
    ASSUME SafetyInv, NEW r \in Repos
    PROVE  Booking(EntityOf(r), pass.now, Alive(EntityOf(r).supervisor), SupervisionPlan(r))
  <1> DEFINE here == r \in present
             trust == r \in pass.trusted
             git == r \in Git
             alive == Alive(EntityOf(r).supervisor)
             sr == EntityOf(r)
             time == pass.now
  <1>1. time \in Nat
    BY DEF SafetyInv, TypeOK, Passes
  <1>2. /\ here \in BOOLEAN /\ trust \in BOOLEAN
        /\ git \in BOOLEAN /\ alive \in BOOLEAN
    BY DEF Alive, LivePid
  <1>3. SupervisionPlan(r) = PlanSupervision(sr, time, here, trust, git, alive)
    BY DEF SupervisionPlan
  <1>4. sr \in Entities
    BY EntityOfType
  <1> HIDE DEF here, trust, git, alive, sr, time
  <1>5. Booking(sr, time, alive, PlanSupervision(sr, time, here, trust, git, alive))
    BY <1>1, <1>2, <1>4, PlanSupervisionBooks
  <1> QED
    BY <1>3, <1>5 DEF sr, time, alive

\* A supervisor found dead between two stops died by itself.
LEMMA FoundDeadDied ==
    ASSUME SafetyInv, LifeInv, ~Stopping, NEW r \in Repos,
           Running(fleet[r].supervisor), ~Alive(fleet[r].supervisor)
    PROVE  fleet[r].supervisor.pid \in DiedOf(procs, r)
  <1> DEFINE pid == fleet[r].supervisor.pid
  <1>1. pid \in DOMAIN procs /\ procs[pid].repo = r
    BY DEF SafetyInv, SupervisorsKnown
  <1>2. procs[pid].state \in {"live", "died", "stopped"}
    BY <1>1 DEF SafetyInv, TypeOK, MachineTypeOK, Processes
  <1>3. procs[pid].state # "live"
    BY <1>1 DEF Alive, LivePid
  <1>4. procs[pid].state # "stopped"
    BY DEF LifeInv, StoppedIsReleased, Stopping, Running
  <1> QED
    BY <1>1, <1>2, <1>3, <1>4 DEF DiedOf

\* One visit books one crash at most, and only where the supervisor that died is
\* let go of.
LEMMA PlanCovered ==
    ASSUME SafetyInv, LifeInv, ~Stopping, NEW r \in Repos, EntryOf(r)
    PROVE  LET plan == SupervisionPlan(r)
           IN  Booked(IF plan.decision = "alert" THEN Append(trips[r], pass.now)
                                                 ELSE trips[r], plan.sr.crashes)
                   <= Cardinality(DiedOf(procs, r) \ {plan.sr.supervisor.pid})
  <1> DEFINE plan == SupervisionPlan(r)
             was == EntityOf(r)
             pid == fleet[r].supervisor.pid
             times == trips[r]
             longer == Append(times, pass.now)
             book == RecordCrash(was.crashes, pass.now)
             after == IF plan.decision = "alert" THEN longer ELSE times
  <1>1. /\ was \in Entities /\ was.supervisor.pid = pid
        /\ Booked(times, was.crashes) <= Booked(times, fleet[r].crashes)
    BY EntityOfLives
  <1>2. Booking(was, pass.now, Alive(was.supervisor), plan)
    BY SupervisionPlanBooks
  <1>3. plan.sr \in Entities
    BY SupervisionPlanFacts
  <1>4. /\ times \in Seq(Nat) /\ longer \in Seq(Nat) /\ pass.now \in Nat
        /\ was.crashes \in CrashTrackers /\ fleet[r].crashes \in CrashTrackers
        /\ plan.sr.crashes \in CrashTrackers
    BY <1>1, <1>3 DEF SafetyInv, TypeOK, Passes, Entities
  <1>5. Booked(times, fleet[r].crashes) <= Cardinality(DiedOf(procs, r) \ {pid})
    BY DEF LifeInv, BookingsCovered
  <1> HIDE DEF plan, was, times
  <1>6. /\ Booked(times, fleet[r].crashes) \in Nat
        /\ Booked(times, was.crashes) \in Nat
        /\ Booked(after, plan.sr.crashes) \in Nat
    <2>1. after \in Seq(Nat)
      BY <1>4
    <2> QED
      BY <1>4, <2>1, BookedType
  <1>7. CASE /\ plan.sr.supervisor = was.supervisor
             /\ plan.sr.crashes = was.crashes
             /\ plan.decision # "alert"
    <2>1. plan.sr.supervisor.pid = pid /\ after = times
      BY <1>1, <1>7
    <2>2. Cardinality(DiedOf(procs, r) \ {pid}) \in Nat
      BY DiedFiniteHere DEF SafetyInv
    <2>3. Booked(after, plan.sr.crashes) <= Cardinality(DiedOf(procs, r) \ {pid})
      BY <1>1, <1>5, <1>6, <1>7, <2>1, <2>2
    <2> QED
      BY <2>1, <2>3 DEF plan, times
  <1>8. CASE /\ Running(was.supervisor) /\ ~Alive(was.supervisor)
             /\ plan.sr.supervisor = NoSupervisor
             /\ plan.sr.crashes = book.crashes
             /\ plan.decision = "alert" <=> book.tripped
    <2>1. pid \in DiedOf(procs, r)
      BY <1>1, <1>8, FoundDeadDied DEF Running, Alive
    <2>2. Booked(after, plan.sr.crashes) <= Booked(times, was.crashes) + 1
      <3>1. Booked(IF book.tripped THEN longer ELSE times, book.crashes)
                <= Booked(times, was.crashes) + 1
        BY <1>4, OneMoreTrip
      <3> QED
        BY <1>8, <3>1
    <2>3. /\ Cardinality(DiedOf(procs, r) \ {pid}) = Cardinality(DiedOf(procs, r)) - 1
          /\ Cardinality(DiedOf(procs, r)) \in Nat
      BY <2>1, DiedFiniteHere, FS_RemoveElement DEF SafetyInv
    <2>4. Booked(after, plan.sr.crashes) <= Cardinality(DiedOf(procs, r))
      <3> HIDE DEF after
      <3> QED
        BY <1>1, <1>5, <1>6, <2>2, <2>3
    <2>5. DiedOf(procs, r) \ {plan.sr.supervisor.pid} = DiedOf(procs, r)
      <3>1. 0 \notin DiedOf(procs, r)
        BY DEF DiedOf, SafetyInv, TypeOK, MachineTypeOK
      <3> QED
        BY <1>8, <3>1 DEF NoSupervisor
    <2> QED
      BY <2>4, <2>5 DEF plan, times
  <1> QED
    BY <1>2, <1>7, <1>8 DEF Booking

LEMMA ReconcileWaitsLives ==
    ASSUME SafetyInv, TypeOK', LifeInv, NEW r \in Repos, ReconcileWaits(r)
    PROVE  LifeInv'
  <1> DEFINE plan == SupervisionPlan(r)
             sr == plan.sr
             after == IF plan.decision = "alert" THEN Append(trips[r], pass.now) ELSE trips[r]
  <1>1. /\ UNCHANGED << procs, stopping, phase >>
        /\ phase = "reconcile" /\ ~Stopping /\ r \in pass.todo
        /\ fleet' = [fleet EXCEPT ![r] = sr]
        /\ trips' = IF plan.decision = "alert"
                    THEN [trips EXCEPT ![r] = Append(trips[r], pass.now)] ELSE trips
    BY DEF ReconcileWaits, machineVars, Turn, MayVisit
  <1>2. ProcsAge /\ NoneStopped
    BY <1>1, ProcsStand
  <1>3. EntryOf(r)
    BY <1>1 DEF SafetyInv, VisitsEntries
  <1>4. EntityOf(r).settings # NoSettings /\ EntityOf(r).supervisor.pid = fleet[r].supervisor.pid
    BY <1>3, EntityOfLives
  <1>5. /\ sr.settings = EntityOf(r).settings
        /\ sr.supervisor \in {NoSupervisor, fleet[r].supervisor}
    BY SupervisionPlanFacts
  <1>6. Booked(after, sr.crashes) <= Cardinality(DiedOf(procs, r) \ {sr.supervisor.pid})
    BY <1>1, <1>3, PlanCovered
  <1>7. /\ fleet'[r] = sr /\ trips'[r] = after
        /\ \A q \in Repos : q # r => trips'[q] = trips[q]
    BY <1>1 DEF SafetyInv, TypeOK
  <1>8. BookingsCovered(r)'
    BY <1>1, <1>6, <1>7 DEF BookingsCovered
  <1>9. sr.supervisor.pid \in {0, fleet[r].supervisor.pid}
    BY <1>5 DEF NoSupervisor
  <1>10. stopping' = NoStop
    BY <1>1 DEF SafetyInv, TypeOK, Stopping, Stops
  <1> HIDE DEF sr
  <1> QED
    BY <1>1, <1>2, <1>4, <1>5, <1>7, <1>8, <1>9, <1>10, OneEntityLives

LEMMA ReconcileSpawnsLives ==
    ASSUME SafetyInv, TypeOK', LifeInv, NEW r \in Repos, ReconcileSpawns(r)
    PROVE  LifeInv'
  <1> DEFINE plan == SupervisionPlan(r)
             sup == Spawned(nextPid, plan.sr.settings)
             sr == [plan.sr EXCEPT !.supervisor = sup]
  <1>1. /\ UNCHANGED << stopping, phase, trips >>
        /\ phase = "reconcile" /\ ~Stopping /\ r \in pass.todo
        /\ plan.decision = "spawn"
        /\ Starts(r, binary, RcArgs(plan.sr.settings))
        /\ fleet' = [fleet EXCEPT ![r] = sr]
    BY DEF ReconcileSpawns, Turn, MayVisit
  <1>2. /\ ProcsAge /\ NoneStopped
        /\ procs'[nextPid].state = "live"
    BY <1>1, StartsAge DEF SafetyInv
  <1>3. EntryOf(r)
    BY <1>1 DEF SafetyInv, VisitsEntries
  <1>4. EntityOf(r).settings # NoSettings
    BY <1>3, EntityOfLives
  <1>5. plan.sr \in Entities /\ plan.sr.settings = EntityOf(r).settings
    BY SupervisionPlanFacts
  <1>6. Booked(trips[r], plan.sr.crashes)
            <= Cardinality(DiedOf(procs, r) \ {plan.sr.supervisor.pid})
    <2>1. plan.decision # "alert"
      BY <1>1
    <2>2. Booked(IF plan.decision = "alert" THEN Append(trips[r], pass.now)
                                            ELSE trips[r], plan.sr.crashes)
              <= Cardinality(DiedOf(procs, r) \ {plan.sr.supervisor.pid})
      BY <1>1, <1>3, PlanCovered
    <2> QED
      BY <2>1, <2>2
  <1>7. sup.pid = nextPid
    BY DEF Spawned
  <1> HIDE DEF plan, sup
  <1>8. /\ sr.supervisor.pid = nextPid
        /\ sr.settings = plan.sr.settings
        /\ sr.crashes = plan.sr.crashes
    BY <1>5, <1>7 DEF Entities
  <1>9. fleet'[r] = sr
    BY <1>1 DEF SafetyInv, TypeOK
  <1> HIDE DEF sr
  <1>10. BookingsCovered(r)'
    <2> DEFINE was == DiedOf(procs, r) \ {plan.sr.supervisor.pid}
               is == DiedOf(procs', r) \ {nextPid}
    <2>1. was \subseteq is
      BY <1>2, DiedStand DEF DiedOf
    <2>2. /\ IsFiniteSet(is) /\ Cardinality(is) \in Nat
          /\ IsFiniteSet(was) /\ Cardinality(was) \in Nat
      BY DiedFiniteHere, DiedFiniteNext DEF SafetyInv
    <2>3. Cardinality(was) <= Cardinality(is)
      BY <2>1, <2>2, FS_Subset
    <2>4. Booked(trips[r], plan.sr.crashes) \in Nat
      BY <1>5, BookedType DEF SafetyInv, TypeOK, Entities
    <2> HIDE DEF was
    <2>5. Booked(trips[r], plan.sr.crashes) <= Cardinality(was)
      BY <1>6 DEF was
    <2>6. Booked(trips[r], plan.sr.crashes) <= Cardinality(is)
      BY <2>2, <2>3, <2>4, <2>5
    <2> QED
      BY <1>1, <1>8, <1>9, <2>6 DEF BookingsCovered
  <1>11. stopping' = NoStop
    BY <1>1 DEF SafetyInv, TypeOK, Stopping, Stops
  <1> QED
    BY <1>1, <1>2, <1>4, <1>5, <1>8, <1>10, <1>11, OneEntityLives

\* What becomes of an entity that a stop may be decided for.
LEMMA StopDecisionLives ==
    ASSUME SafetyInv, TypeOK', LifeInv, ~Stopping, phase # "down", phase' = phase,
           UNCHANGED << procs, trips >>, NEW r \in Repos, NEW sr \in Entities,
           fleet' = [fleet EXCEPT ![r] = sr],
           sr.settings = fleet[r].settings, sr.crashes = fleet[r].crashes,
           sr.supervisor.pid \in {0, fleet[r].supervisor.pid},
           stopping' = NoStop
              \/ (stopping'.repo = r /\ stopping'.pid = sr.supervisor.pid)
    PROVE  LifeInv'
  <1>1. ProcsAge /\ NoneStopped
    BY ProcsStand
  <1>2. fleet'[r] = sr
    BY DEF SafetyInv, TypeOK
  <1>3. Running(sr.supervisor) => sr.settings # NoSettings
    BY DEF LifeInv, SupervisorSettled, Running
  <1>4. Booked(trips'[r], fleet'[r].crashes) <= Booked(trips[r], fleet[r].crashes)
    <2>1. trips[r] \in Seq(Nat) /\ sr.crashes \in CrashTrackers
      BY DEF SafetyInv, TypeOK, Entities
    <2>2. Booked(trips[r], sr.crashes) \in Nat
      BY <2>1, BookedType
    <2> QED
      BY <1>2, <2>2
  <1>5. 0 \notin DiedOf(procs', r)
    BY DEF DiedOf, SafetyInv, TypeOK, MachineTypeOK
  <1>6. BookingsCovered(r)'
    <2>1. \/ fleet'[r].supervisor.pid = fleet[r].supervisor.pid
          \/ fleet'[r].supervisor.pid \notin DiedOf(procs', r)
      BY <1>2, <1>5
    <2> QED
      BY <1>1, <1>4, <2>1, NothingBooked DEF SafetyInv, LifeInv
  <1> QED
    BY <1>1, <1>3, <1>6, OneEntityLives

LEMMA RetireRepoLives ==
    ASSUME SafetyInv, TypeOK', LifeInv, NEW r \in Repos,
           NEW read \in Readings(r), RetireRepo(r, read)
    PROVE  LifeInv'
  <1> DEFINE plan == RetirementPlan(r, read)
             live == Alive(fleet[r].supervisor)
             quiet == live /\ AllQuiet(r, read)
             none == [total |-> 0, working |-> 0, anchored |-> FALSE]
             census == IF live THEN Census(r, read) ELSE none
             sr == IF plan.decision = "forget"
                   THEN [plan.sr EXCEPT !.supervisor = NoSupervisor] ELSE plan.sr
  <1>1. /\ UNCHANGED << procs, phase, trips >>
        /\ phase = "retire" /\ ~Stopping
        /\ fleet' = [fleet EXCEPT ![r] = sr]
        /\ stopping' = IF plan.decision = "terminate"
                       THEN [repo |-> r, why |-> "retirement",
                             pid |-> fleet[r].supervisor.pid, reasons |-> {},
                             alert |-> "none", seen |-> SessionView(r, read)]
                       ELSE NoStop
    BY DEF RetireRepo, machineVars, MayVisit
  <1>2. fleet[r] \in Entities /\ pass.now \in Nat
    BY DEF SafetyInv, TypeOK, Passes
  <1>3. census \in Censuses /\ live \in BOOLEAN /\ quiet \in BOOLEAN
    BY CensusFacts DEF SafetyInv, Censuses, Alive, LivePid
  <1>4. plan = PlanRetirement(fleet[r], live, quiet, census, pass.now)
    BY DEF RetirementPlan
  <1> HIDE DEF plan, live, quiet, census
  <1>5. /\ plan.sr \in Entities
        /\ plan.sr.supervisor = fleet[r].supervisor
        /\ plan.sr.settings = fleet[r].settings
        /\ plan.sr.crashes = fleet[r].crashes
    BY <1>2, <1>3, <1>4, PlanRetirementFacts
  <1>6. /\ sr \in Entities
        /\ sr.settings = fleet[r].settings
        /\ sr.crashes = fleet[r].crashes
        /\ sr.supervisor.pid \in {0, fleet[r].supervisor.pid}
        /\ plan.decision = "terminate" => sr.supervisor.pid = fleet[r].supervisor.pid
    BY <1>5, NoSupervisorType DEF Entities, NoSupervisor
  <1> HIDE DEF sr
  <1>7. stopping' = NoStop \/ (stopping'.repo = r /\ stopping'.pid = sr.supervisor.pid)
    BY <1>1, <1>6
  <1> QED
    BY <1>1, <1>6, <1>7, StopDecisionLives

LEMMA ConvergeRepoLives ==
    ASSUME SafetyInv, TypeOK', LifeInv, NEW r \in Repos, NEW probed \in 0..MaxVersion,
           NEW read \in Readings(r), ConvergeRepo(r, probed, read)
    PROVE  LifeInv'
  <1> DEFINE quiet == AllQuiet(r, read)
             census == Census(r, read)
             was == fleet[r]
             plan == PlanDrift(was, binaryVersion, probed, quiet, census, now)
             sr == plan.sr
  <1>1. /\ UNCHANGED << procs, phase, trips >>
        /\ phase = "tick" /\ ~Stopping
        /\ fleet' = [fleet EXCEPT ![r] = sr]
        /\ stopping' = NoStop
              \/ (stopping'.repo = r /\ stopping'.pid = was.supervisor.pid)
    BY DEF ConvergeRepo, machineVars, Turn, MayVisit
  <1>2. /\ was \in Entities /\ now \in Nat /\ probed \in Nat /\ binaryVersion \in Nat
    BY MachineAssumption DEF SafetyInv, TypeOK, MachineTypeOK
  <1>3. census \in Censuses /\ quiet \in BOOLEAN
    BY CensusFacts DEF SafetyInv
  <1> HIDE DEF quiet, census, was
  <1>4. /\ sr \in Entities /\ sr.settings = was.settings /\ sr.crashes = was.crashes
        /\ SameRecord(sr.supervisor, was.supervisor)
    BY <1>2, <1>3, PlanDriftFacts
  <1> HIDE DEF plan, sr
  <1>5. sr.supervisor.pid = was.supervisor.pid
    BY <1>4 DEF SameRecord
  <1> QED
    BY <1>1, <1>4, <1>5, StopDecisionLives DEF was

LEMMA ReturnLives ==
    ASSUME SafetyInv, TypeOK', LifeInv, StopReturns \/ StopFails
    PROVE  LifeInv'
  <1> DEFINE r == stopping.repo
             sr == [fleet[r] EXCEPT !.supervisor = NoSupervisor]
  <1>1. /\ UNCHANGED << procs, phase, trips >>
        /\ Stopping /\ stopping' = NoStop
        /\ fleet' \in {fleet, [fleet EXCEPT ![r].supervisor = NoSupervisor]}
        /\ fleet' = fleet => LivePid(stopping.pid)
    <2>1. CASE StopReturns
      <3>1. fleet' # fleet
        <4>1. fleet'[r].supervisor = NoSupervisor /\ fleet[r].supervisor.pid # 0
          BY <2>1 DEF StopReturns, SafetyInv, TypeOK, Entities, LifeInv, StopHitsSupervisor,
                      Stopping, Stops, NoStop
        <4> QED
          BY <4>1 DEF NoSupervisor
      <3> QED
        BY <2>1, <3>1 DEF StopReturns, machineVars
    <2>2. CASE StopFails
      BY <2>2 DEF StopFails, machineVars
    <2> QED
      BY <2>1, <2>2
  <1>2. stopping \in Stops /\ r \in Repos
    BY <1>1 DEF SafetyInv, TypeOK, Stopping, NoStop, Stops
  <1>3. /\ phase # "down" /\ fleet[r].supervisor.pid = stopping.pid
        /\ fleet[r] \in Entities /\ fleet \in [Repos -> Entities]
    BY <1>1, <1>2 DEF LifeInv, StopHitsSupervisor, SafetyInv, TypeOK
  <1>4. sr \in Entities /\ sr.supervisor = NoSupervisor /\ sr.crashes = fleet[r].crashes
    BY <1>3, NoSupervisorType DEF Entities
  <1>5. fleet' \in {fleet, [fleet EXCEPT ![r] = sr]}
    BY <1>1, <1>3
  <1> HIDE DEF r, sr
  <1>6. ProcsAge /\ NoneStopped
    BY <1>1, ProcsStand
  <1>7. \A q \in Repos : /\ fleet'[q].supervisor \in {fleet[q].supervisor, NoSupervisor}
                         /\ fleet'[q].crashes = fleet[q].crashes
                         /\ fleet'[q].settings = fleet[q].settings
    BY <1>2, <1>3, <1>4, <1>5 DEF r, sr, Entities
  <1>8. StopHitsSupervisor' /\ NoTripsDown' /\ SupervisorSettled'
    BY <1>1, <1>3, <1>7, NoSupervisorType
       DEF StopHitsSupervisor, Stopping, NoStop, NoTripsDown, LifeInv, SupervisorSettled
  <1>9. StoppedIsReleased'
    <2> SUFFICES ASSUME NEW q \in Repos, Running(fleet'[q].supervisor),
                        procs[fleet'[q].supervisor.pid].state = "stopped"
                 PROVE  FALSE
      BY <1>1 DEF StoppedIsReleased
    <2>1. fleet'[q].supervisor = fleet[q].supervisor
      BY <1>7, NoSupervisorType
    <2>2. stopping.pid = fleet[q].supervisor.pid
      BY <2>1 DEF LifeInv, StoppedIsReleased
    <2>3. q = r
      BY <1>3, <2>1, <2>2 DEF SafetyInv, StopDecided, SupervisorsKnown, Stopping, Running, r
    <2>4. fleet' = fleet
      <3>1. fleet' # [fleet EXCEPT ![r] = sr]
        BY <1>2, <1>3, <1>4, <2>3, NoSupervisorType
      <3> QED
        BY <1>5, <3>1
    <2>5. procs[stopping.pid].state = "live"
      BY <1>1, <2>4 DEF LivePid
    <2> QED
      BY <2>1, <2>2, <2>5
  <1>10. ASSUME NEW q \in Repos PROVE BookingsCovered(q)'
    <2>1. /\ trips[q] \in Seq(Nat) /\ fleet[q].crashes \in CrashTrackers
      BY DEF SafetyInv, TypeOK, Entities
    <2>2. Booked(trips'[q], fleet'[q].crashes) <= Booked(trips[q], fleet[q].crashes)
      BY <1>1, <1>7, <2>1, BookedType
    <2>3. 0 \notin DiedOf(procs', q)
      BY <1>1 DEF DiedOf, SafetyInv, TypeOK, MachineTypeOK
    <2>4. \/ fleet'[q].supervisor.pid = fleet[q].supervisor.pid
          \/ fleet'[q].supervisor.pid \notin DiedOf(procs', q)
      BY <1>7, <2>3 DEF NoSupervisor
    <2> QED
      BY <1>6, <2>2, <2>4, NothingBooked DEF SafetyInv, LifeInv
  <1> QED
    BY <1>8, <1>9, <1>10 DEF LifeInv

\* A starting daemon takes over live processes, and has booked nothing.
LEMMA StartLives ==
    ASSUME SafetyInv, TypeOK', LifeInv, Start
    PROVE  LifeInv'
  <1>1. PICK adopted \in [Repos -> 0..(nextPid - 1)] :
            /\ Adoption(adopted)
            /\ fleet' = [r \in Repos |->
                  IF adopted[r] = 0
                  THEN NewEntity(NoSettings)
                  ELSE [NewEntity(IF Registered(r) THEN registry[r] ELSE Defaults)
                            EXCEPT !.supervisor = Adopted(adopted[r])]]
    BY DEF Start
  <1>2. /\ UNCHANGED << procs, stopping, trips >>
        /\ phase = "down" /\ phase' = "idle"
    BY DEF Start, machineVars
  <1>3. ~Stopping' /\ \A r \in Repos : trips'[r] = << >>
    BY <1>2 DEF LifeInv, StopHitsSupervisor, NoTripsDown, Stopping
  <1>4. ASSUME NEW r \in Repos
        PROVE  /\ fleet'[r].crashes.events = << >>
               /\ Running(fleet'[r].supervisor) =>
                     /\ fleet'[r].settings # NoSettings
                     /\ procs'[fleet'[r].supervisor.pid].state = "live"
    <2>1. CASE adopted[r] = 0
      BY <1>1, <2>1, NoSupervisorType DEF NewEntity
    <2>2. CASE adopted[r] # 0
      <3> DEFINE wanted == IF Registered(r) THEN registry[r] ELSE Defaults
                 new == NewEntity(wanted)
      <3>1. adopted[r] \in ProcessesOf(r)
        BY <1>1, <2>2 DEF Adoption
      <3>2. wanted # NoSettings
        BY DaemonAssumption DEF Registered, Settings, NoSettings
      <3>3. new.settings = wanted /\ new.crashes.events = << >>
        BY DEF NewEntity
      <3>4. fleet'[r] = [new EXCEPT !.supervisor = Adopted(adopted[r])]
        BY <1>1, <2>2
      <3>5. /\ fleet'[r].settings = new.settings /\ fleet'[r].crashes = new.crashes
            /\ fleet'[r].supervisor = Adopted(adopted[r])
        BY <3>4 DEF NewEntity
      <3>6. Adopted(adopted[r]).pid = adopted[r] /\ procs[adopted[r]].state = "live"
        BY <3>1 DEF Adopted, ProcessesOf, LivePid
      <3> HIDE DEF new, wanted
      <3> QED
        BY <1>2, <3>2, <3>3, <3>5, <3>6
    <2> QED
      BY <2>1, <2>2
  <1> QED
    BY <1>2, <1>3, <1>4, FreshFleetLives

LEMMA StopLives ==
    ASSUME SafetyInv, TypeOK', LifeInv, Stop
    PROVE  LifeInv'
  <1>1. /\ fleet' = [r \in Repos |-> NewEntity(NoSettings)]
        /\ stopping' = NoStop /\ trips' = [r \in Repos |-> << >>]
    BY DEF Stop
  <1>2. \A r \in Repos : /\ fleet'[r].crashes.events = << >>
                         /\ ~Running(fleet'[r].supervisor)
    BY <1>1, NoSupervisorType DEF NewEntity
  <1>3. ~Stopping' /\ \A r \in Repos : trips'[r] = << >>
    BY <1>1 DEF Stopping, NoStop
  <1> QED
    BY <1>2, <1>3, FreshFleetLives

\* The steps that only move the loop on.
LEMMA LoopLives ==
    ASSUME SafetyInv, TypeOK', LifeInv,
           \/ EndReconcile \/ SkipTick \/ EndTick \/ EndPass \/ NightlyUpdates \/ NightlyFails
           \/ PassFails
           \/ \E readable, torn \in BOOLEAN : BeginPass(readable, torn)
           \/ \E version \in 0..MaxVersion : BeginTick(version)
           \/ \E r \in Repos : ConvergeSkips(r)
    PROVE  LifeInv'
  <1>1. UNCHANGED << procs, fleet, stopping, trips >> /\ (phase # "down" => phase' # "down")
    BY DEF EndReconcile, SkipTick, EndTick, EndPass, NightlyUpdates, NightlyFails, PassFails,
           BeginPass, BeginTick, ConvergeSkips, machineVars
  <1> QED
    BY <1>1, ProcsStand, SameFleetLives

LEMMA KilledLives ==
    ASSUME SafetyInv, TypeOK', LifeInv, Killed
    PROVE  LifeInv'
  <1>1. /\ UNCHANGED << phase, fleet, stopping, trips >>
        /\ LivePid(stopping.pid) /\ Ends(stopping.pid, "stopped")
    BY DEF Killed
  <1>2. stopping.pid \in DOMAIN procs
    BY <1>1 DEF LivePid
  <1>3. /\ ProcsAge
        /\ \A q \in DOMAIN procs : q # stopping.pid => procs'[q] = procs[q]
    BY <1>1, <1>2, EndsAge DEF SafetyInv
  <1> QED
    BY <1>1, <1>3, SameFleetLives

LEMMA InitLives == ASSUME Init PROVE LifeInv
  <1>1. /\ fleet = [r \in Repos |-> NewEntity(NoSettings)]
        /\ stopping = NoStop /\ trips = [r \in Repos |-> << >>] /\ TypeOK
    BY InitHolds DEF Init, SafetyInv
  <1>2. \A r \in Repos : /\ fleet[r].crashes.events = << >>
                         /\ ~Running(fleet[r].supervisor)
    BY <1>1, NoSupervisorType DEF NewEntity
  <1>3. NoTripsDown /\ StopHitsSupervisor /\ StoppedIsReleased /\ SupervisorSettled
    BY <1>1, <1>2
       DEF NoTripsDown, StopHitsSupervisor, Stopping, NoStop, StoppedIsReleased,
           SupervisorSettled
  <1>4. ASSUME NEW r \in Repos PROVE BookingsCovered(r)
    <2>1. Booked(trips[r], fleet[r].crashes) = CrashLimit * Len(<< >>) + Len(<< >>)
      BY <1>1, <1>2 DEF Booked
    <2>2. \A m \in Nat : m * 0 + 0 = 0
      OBVIOUS
    <2>3. CrashLimit \in Nat /\ Len(<< >>) = 0
      BY TimingAssumption
    <2>4. Booked(trips[r], fleet[r].crashes) = 0
      BY <2>1, <2>2, <2>3
    <2>5. Cardinality(DiedOf(procs, r) \ {fleet[r].supervisor.pid}) \in Nat
      BY <1>1, DiedFiniteHere
    <2> QED
      BY <2>4, <2>5 DEF BookingsCovered
  <1> QED
    BY <1>3, <1>4 DEF LifeInv

LEMMA NextLives ==
    ASSUME SafetyInv, LifeInv, [Next]_vars PROVE LifeInv'
  <1>1. TypeOK'
    BY NextKeeps DEF SafetyInv
  <1>2. CASE UNCHANGED vars
    <2>1. UNCHANGED << procs, phase, fleet, stopping, trips >>
      BY <1>2 DEF vars
    <2> QED
      BY <1>1, <2>1, ProcsStand, SameFleetLives
  <1>3. CASE MachineStep
    <2>1. UNCHANGED << phase, fleet, stopping, trips >> /\ MachineNext
      BY <1>3 DEF MachineStep
    <2>2. ProcsAge /\ NoneStopped
      BY <2>1, MachineAges DEF SafetyInv
    <2> QED
      BY <1>1, <2>1, <2>2, SameFleetLives DEF NoneStopped
  <1>4. CASE DaemonNext
    <2>1. CASE Start
      BY <1>1, <2>1, StartLives
    <2>2. CASE Stop
      BY <1>1, <2>2, StopLives
    <2>3. ASSUME NEW r \in Repos, ReconcileWaits(r) PROVE LifeInv'
      BY <1>1, <2>3, ReconcileWaitsLives
    <2>4. ASSUME NEW r \in Repos, ReconcileSpawns(r) PROVE LifeInv'
      BY <1>1, <2>4, ReconcileSpawnsLives
    <2>5. ASSUME NEW r \in Repos, NEW read \in Readings(r), RetireRepo(r, read)
          PROVE  LifeInv'
      BY <1>1, <2>5, RetireRepoLives
    <2>6. ASSUME NEW r \in Repos, NEW read \in Readings(r),
                 NEW probed \in 0..MaxVersion, ConvergeRepo(r, probed, read)
          PROVE  LifeInv'
      BY <1>1, <2>6, ConvergeRepoLives
    <2>7. CASE Killed
      BY <1>1, <2>7, KilledLives
    <2>8. CASE StopReturns \/ StopFails
      BY <1>1, <2>8, ReturnLives
    <2>9. CASE \/ EndReconcile \/ SkipTick \/ EndTick \/ EndPass \/ NightlyUpdates
               \/ NightlyFails \/ PassFails
               \/ \E readable, torn \in BOOLEAN : BeginPass(readable, torn)
               \/ \E version \in 0..MaxVersion : BeginTick(version)
               \/ \E r \in Repos : ConvergeSkips(r)
      BY <1>1, <2>9, LoopLives
    <2> QED
      BY <1>4, <2>1, <2>2, <2>3, <2>4, <2>5, <2>6, <2>7, <2>8, <2>9 DEF DaemonNext
  <1> QED
    BY <1>2, <1>3, <1>4 DEF Next

LEMMA BookingsAreDeaths ==
    ASSUME SafetyInv, LifeInv PROVE CrashesAreDeaths
  <1> SUFFICES ASSUME NEW r \in Repos
               PROVE  Booked(trips[r], fleet[r].crashes) <= Cardinality(DiedOf(procs, r))
    BY DEF CrashesAreDeaths, Booked, DiedOf
  <1> DEFINE pid == fleet[r].supervisor.pid
  <1>1. /\ trips[r] \in Seq(Nat) /\ fleet[r].crashes \in CrashTrackers
    BY DEF SafetyInv, TypeOK, Entities
  <1>2. Booked(trips[r], fleet[r].crashes) \in Nat
    BY <1>1, BookedType
  <1>3. Booked(trips[r], fleet[r].crashes) <= Cardinality(DiedOf(procs, r) \ {pid})
    BY DEF LifeInv, BookingsCovered
  <1>4. /\ IsFiniteSet(DiedOf(procs, r))
        /\ Cardinality(DiedOf(procs, r)) \in Nat
        /\ Cardinality(DiedOf(procs, r) \ {pid}) \in Nat
    BY DiedFiniteHere DEF SafetyInv
  <1>5. Cardinality(DiedOf(procs, r) \ {pid}) <= Cardinality(DiedOf(procs, r))
    BY <1>4, FS_Subset
  <1> QED
    BY <1>2, <1>3, <1>4, <1>5

(* What a stop hits is the supervisor its entity holds, a stopped supervisor *)
(* is let go of before reconcile looks, and the crashes booked are covered   *)
(* by deaths.                                                                *)
THEOREM LifeHolds == Spec => []LifeInv
  BY InitLives, NextLives, SafetyHolds, PTL DEF Spec

(* Whatever dies, is stopped, adopted or restarted, in whatever order: a     *)
(* directory's breaker never counts a crash that was not the death of one of *)
(* its processes, nor one death twice, trips included.                       *)
THEOREM CrashesCounted == Spec => []CrashesAreDeaths
  <1>1. SafetyInv /\ LifeInv => CrashesAreDeaths
    BY BookingsAreDeaths
  <1> QED
    BY <1>1, SafetyHolds, LifeHolds, PTL

----
(* Every process has an owner.                                              *)
(*                                                                          *)
(* Three things make a process that is the supervisor of no entity, and the *)
(* runs show each: one started by hand, which a daemon that is already up   *)
(* never adopts; one that outlives the SIGKILL of a retirement, which is    *)
(* forgotten all the same; and one of a removed directory that is outside   *)
(* the projects root, is no git repository or is gone, which a restarted    *)
(* daemon does not look for.  Without them every process is owned.          *)

Tame ==
    /\ "hand" \notin Events
    /\ "remove" \in Events => "unkillable" \notin Events
    /\ "remove" \in Events /\ "restart" \in Events =>
          /\ Repos \subseteq UnderRoot \cap Git
          /\ "directory" \notin Events

\* Directories stay where they are, unless they may go.
NothingGone == "directory" \notin Events => present = Repos

LEMMA GoneNowhere == Spec => []NothingGone
  <1>1. Init => NothingGone
    BY DEF Init, NothingGone
  <1>2. NothingGone /\ [Next]_vars => NothingGone'
    <2> SUFFICES ASSUME [Next]_vars, "directory" \notin Events PROVE present' = present
      BY DEF NothingGone
    <2>1. CASE UNCHANGED vars
      BY <2>1 DEF vars
    <2>2. CASE MachineStep
      BY <2>2 DEF MachineStep, MachineNext, Advance, Release, OpenSession, CmdRemove,
                  DirectoryMoves, CmdAdd, TakeTurn, GoQuiet, EndSession, Die, Connect,
                  StartByHand
    <2>3. ASSUME NEW r \in Repos,
                 \/ ReconcileWaits(r) \/ ReconcileSpawns(r) \/ ConvergeSkips(r)
                 \/ \E read \in Readings(r) :
                       \/ RetireRepo(r, read)
                       \/ \E probed \in 0..MaxVersion : ConvergeRepo(r, probed, read)
          PROVE  present' = present
      BY <2>3 DEF ReconcileWaits, ReconcileSpawns, ConvergeSkips, RetireRepo, ConvergeRepo,
                  machineVars
    <2>4. CASE \/ Start \/ Stop \/ EndReconcile \/ SkipTick \/ EndTick \/ Killed \/ StopReturns
               \/ StopFails \/ NightlyUpdates \/ NightlyFails \/ EndPass \/ PassFails
               \/ \E readable, torn \in BOOLEAN : BeginPass(readable, torn)
               \/ \E version \in 0..MaxVersion : BeginTick(version)
      BY <2>4 DEF Start, Stop, EndReconcile, SkipTick, EndTick, Killed, StopReturns, StopFails,
                  NightlyUpdates, NightlyFails, EndPass, PassFails, BeginPass, BeginTick,
                  machineVars
    <2> QED
      BY <2>1, <2>2, <2>3, <2>4 DEF Next, DaemonNext
  <1> QED
    BY <1>1, <1>2, PTL DEF Spec

\* One process per directory.
Alone ==
    \A p, q \in DOMAIN procs :
        LivePid(p) /\ LivePid(q) /\ procs[p].repo = procs[q].repo => p = q

\* The first daemon finds nothing to adopt.
NoneBefore ==
    phase = "down" /\ "restart" \notin Events => \A pid \in DOMAIN procs : ~LivePid(pid)

\* As long as nothing leaves the registry, nothing is ever retired, and every
\* process belongs to an entry.
NothingRemoved ==
    "remove" \notin Events =>
        /\ \A r \in Repos : EntryOf(r) => Registered(r)
        /\ \A r \in Repos : Running(fleet[r].supervisor) => EntryOf(r)
        /\ \A pid \in DOMAIN procs : Registered(procs[pid].repo)
        /\ phase = "retire" => pass.todo = {}
        /\ Stopping => stopping.why = "drift"

OwnInv ==
    /\ Alone
    /\ NoneBefore
    /\ NothingRemoved
    /\ EverySupervisorOwned

----
(* Where nothing is removed. *)

LEMMA RegistryGrows ==
    ASSUME SafetyInv, "remove" \notin Events, MachineNext
    PROVE  \A r \in Repos : Registered(r) => Registered(r)'
  <1>1. registry \in [Repos -> Settings \cup {NoSettings}]
    BY DEF SafetyInv, TypeOK, MachineTypeOK
  <1>2. ASSUME NEW r \in Repos, NEW settings \in Offered, CmdAdd(r, settings)
        PROVE  \A q \in Repos : Registered(q) => Registered(q)'
    <2>1. settings # NoSettings
      BY MachineAssumption DEF Settings, NoSettings
    <2> QED
      BY <1>1, <1>2, <2>1 DEF CmdAdd, Registered
  <1>3. UNCHANGED registry \/ \E r \in Repos, settings \in Offered : CmdAdd(r, settings)
    BY DEF MachineNext, Advance, Release, OpenSession, CmdRemove, DirectoryMoves,
           TakeTurn, GoQuiet, EndSession, Die, Connect, StartByHand
  <1> QED
    BY <1>2, <1>3 DEF Registered

\* What a step may do without retiring anybody.
LEMMA StillRegistered ==
    ASSUME SafetyInv, TypeOK', NothingRemoved,
           "remove" \notin Events =>
               /\ \A r \in Repos : Registered(r) => Registered(r)'
               /\ \A r \in Repos : EntryOf(r)' => EntryOf(r) \/ Registered(r)'
               /\ \A r \in Repos : Running(fleet'[r].supervisor) =>
                      EntryOf(r)' \/ (Running(fleet[r].supervisor) /\ (EntryOf(r) => EntryOf(r)'))
               /\ \A pid \in DOMAIN procs' :
                      \/ pid \in DOMAIN procs /\ procs'[pid].repo = procs[pid].repo
                      \/ registry'[procs'[pid].repo] # NoSettings
               /\ phase' = "retire" =>
                      pass'.todo = {} \/ (phase = "retire" /\ pass'.todo \subseteq pass.todo)
               /\ Stopping' => stopping'.why = "drift" \/ stopping' = stopping
    PROVE  NothingRemoved'
  <1> SUFFICES ASSUME "remove" \notin Events
               PROVE  /\ \A r \in Repos : EntryOf(r)' => Registered(r)'
                      /\ \A r \in Repos : Running(fleet'[r].supervisor) => EntryOf(r)'
                      /\ \A pid \in DOMAIN procs' : registry'[procs'[pid].repo] # NoSettings
                      /\ phase' = "retire" => pass'.todo = {}
                      /\ Stopping' => stopping'.why = "drift"
    BY DEF NothingRemoved, EntryOf, Registered, Stopping
  <1>1. /\ \A r \in Repos : EntryOf(r) => Registered(r)
        /\ \A r \in Repos : Running(fleet[r].supervisor) => EntryOf(r)
        /\ \A pid \in DOMAIN procs : Registered(procs[pid].repo)
        /\ phase = "retire" => pass.todo = {}
        /\ Stopping => stopping.why = "drift"
    BY DEF NothingRemoved
  <1>2. \A pid \in DOMAIN procs : procs[pid].repo \in Repos
    BY DEF SafetyInv, TypeOK, MachineTypeOK, Processes
  <1>3. \A r \in Repos : EntryOf(r)' => Registered(r)'
    BY <1>1
  <1>4. \A r \in Repos : Running(fleet'[r].supervisor) => EntryOf(r)'
    BY <1>1
  <1>5. \A pid \in DOMAIN procs' : registry'[procs'[pid].repo] # NoSettings
    <2> SUFFICES ASSUME NEW pid \in DOMAIN procs', pid \in DOMAIN procs,
                        procs'[pid].repo = procs[pid].repo
                 PROVE  registry'[procs'[pid].repo] # NoSettings
      OBVIOUS
    <2>1. procs[pid].repo \in Repos /\ Registered(procs[pid].repo)
      BY <1>1, <1>2
    <2> QED
      BY <2>1 DEF Registered
  <1>6. phase' = "retire" => pass'.todo = {}
    BY <1>1
  <1>7. Stopping' => stopping'.why = "drift"
    BY <1>1 DEF Stopping
  <1> QED
    BY <1>3, <1>4, <1>5, <1>6, <1>7

\* A step of the daemon that starts nothing and reads no registry.
LEMMA EntriesStand ==
    ASSUME SafetyInv, TypeOK', NothingRemoved, UNCHANGED << procs, registry >>,
           pass'.entries = pass.entries,
           \A r \in Repos : Running(fleet'[r].supervisor) => Running(fleet[r].supervisor),
           phase' = "retire" =>
               pass'.todo = {} \/ (phase = "retire" /\ pass'.todo \subseteq pass.todo),
           Stopping' => stopping'.why = "drift" \/ stopping' = stopping
    PROVE  NothingRemoved'
  BY StillRegistered DEF EntryOf, Registered

----
(* Processes and owners. *)

\* No process is started, and none loses its owner.
LEMMA OwnersStand ==
    ASSUME SafetyInv, OwnInv, ProcsAge, NoneStarted, NothingRemoved',
           phase' = "down" => phase = "down" \/ "restart" \in Events,
           phase' # "down" => phase # "down",
           \A pid \in DOMAIN procs : phase' # "down" /\ LivePid(pid)' =>
               fleet'[procs[pid].repo].supervisor.pid = fleet[procs[pid].repo].supervisor.pid
    PROVE  OwnInv'
  <1>1. ASSUME NEW pid \in DOMAIN procs', LivePid(pid)'
        PROVE  pid \in DOMAIN procs /\ LivePid(pid) /\ procs'[pid].repo = procs[pid].repo
    BY <1>1 DEF ProcsAge, NoneStarted, LivePid
  <1>2. Alone'
    BY <1>1 DEF OwnInv, Alone
  <1>3. NoneBefore'
    BY <1>1 DEF OwnInv, NoneBefore
  <1>4. EverySupervisorOwned'
    <2> SUFFICES ASSUME phase' # "down", NEW pid \in DOMAIN procs', LivePid(pid)'
                 PROVE  fleet'[procs'[pid].repo].supervisor.pid = pid
      BY DEF EverySupervisorOwned
    <2>1. fleet[procs[pid].repo].supervisor.pid = pid
      BY <1>1 DEF OwnInv, EverySupervisorOwned
    <2> QED
      BY <1>1, <2>1
  <1> QED
    BY <1>2, <1>3, <1>4 DEF OwnInv

LEMMA ReconcileWaitsOwns ==
    ASSUME SafetyInv, TypeOK', LifeInv, OwnInv, NEW r \in Repos, ReconcileWaits(r)
    PROVE  OwnInv'
  <1> DEFINE plan == SupervisionPlan(r)
             was == EntityOf(r)
  <1>1. /\ UNCHANGED << procs, registry, stopping, phase >>
        /\ phase = "reconcile" /\ r \in pass.todo
        /\ fleet' = [fleet EXCEPT ![r] = plan.sr]
        /\ pass' = Visited(r)
    BY DEF ReconcileWaits, machineVars, Turn, MayVisit
  <1>2. EntryOf(r)
    BY <1>1 DEF SafetyInv, VisitsEntries
  <1>3. was.supervisor.pid = fleet[r].supervisor.pid
    BY <1>2, EntityOfLives
  <1>4. Booking(was, pass.now, Alive(was.supervisor), plan)
    BY SupervisionPlanBooks
  <1>5. plan.sr.supervisor \in {NoSupervisor, fleet[r].supervisor}
    BY SupervisionPlanFacts
  <1> HIDE DEF plan, was
  <1>6. \/ plan.sr.supervisor.pid = fleet[r].supervisor.pid
        \/ ~LivePid(fleet[r].supervisor.pid)
    BY <1>3, <1>4 DEF Booking, Alive
  <1>7. fleet'[r] = plan.sr /\ \A q \in Repos : q # r => fleet'[q] = fleet[q]
    BY <1>1 DEF SafetyInv, TypeOK
  <1>8. NothingRemoved'
    <2>1. \A q \in Repos : Running(fleet'[q].supervisor) => Running(fleet[q].supervisor)
      BY <1>5, <1>7, NoSupervisorType
    <2> QED
      BY <1>1, <2>1, VisitedFacts, EntriesStand DEF OwnInv
  <1>9. ASSUME NEW pid \in DOMAIN procs, LivePid(pid)
        PROVE  fleet'[procs[pid].repo].supervisor.pid = fleet[procs[pid].repo].supervisor.pid
    <2>1. procs[pid].repo \in Repos /\ fleet[procs[pid].repo].supervisor.pid = pid
      BY <1>1, <1>9
         DEF OwnInv, EverySupervisorOwned, SafetyInv, TypeOK, MachineTypeOK, Processes
    <2> QED
      BY <1>6, <1>7, <1>9, <2>1
  <1>10. ProcsAge /\ NoneStarted
    BY <1>1, ProcsStand
  <1> QED
    BY <1>1, <1>8, <1>9, <1>10, OwnersStand DEF LivePid

\* A spawn is only decided where no process is left.
\* A supervisor is started where no process lives, whatever the records say.
LEMMA SpawnsWhereNoneIs ==
    ASSUME SafetyInv, LifeInv, EverySupervisorOwned, NEW r \in Repos, ReconcileSpawns(r)
    PROVE  \A pid \in DOMAIN procs : LivePid(pid) => procs[pid].repo # r
  <1> DEFINE plan == SupervisionPlan(r)
             was == EntityOf(r)
  <1>1. /\ phase = "reconcile" /\ r \in pass.todo
        /\ plan.decision = "spawn"
    BY DEF ReconcileSpawns, Turn, MayVisit
  <1>2. EntryOf(r)
    BY <1>1 DEF SafetyInv, VisitsEntries
  <1>3. was.supervisor.pid = fleet[r].supervisor.pid
    BY <1>2, EntityOfLives
  <1>4. Booking(was, pass.now, Alive(was.supervisor), plan)
    BY SupervisionPlanBooks
  <1> HIDE DEF plan, was
  <1>5. ~Running(was.supervisor) \/ ~Alive(was.supervisor)
    BY <1>1, <1>4 DEF Booking
  <1> TAKE pid \in DOMAIN procs
  <1>6. HAVE LivePid(pid)
  <1>7. pid # 0
    BY DEF SafetyInv, TypeOK, MachineTypeOK
  <1>8. fleet[procs[pid].repo].supervisor.pid = pid
    BY <1>1, <1>6 DEF EverySupervisorOwned
  <1> QED
    BY <1>3, <1>5, <1>6, <1>7, <1>8 DEF Running, Alive

LEMMA ReconcileSpawnsOwns ==
    ASSUME SafetyInv, TypeOK', LifeInv, OwnInv, NEW r \in Repos, ReconcileSpawns(r)
    PROVE  OwnInv'
  <1> DEFINE plan == SupervisionPlan(r)
             sup == Spawned(nextPid, plan.sr.settings)
             sr == [plan.sr EXCEPT !.supervisor = sup]
  <1>1. /\ UNCHANGED << registry, stopping, phase >>
        /\ phase = "reconcile" /\ r \in pass.todo
        /\ plan.decision = "spawn"
        /\ Starts(r, binary, RcArgs(plan.sr.settings))
        /\ fleet' = [fleet EXCEPT ![r] = sr]
        /\ pass' = [Visited(r) EXCEPT !.spawned = Visited(r).spawned + 1]
    BY DEF ReconcileSpawns, Turn, MayVisit
  <1>2. /\ ProcsAge
        /\ \A pid \in DOMAIN procs : procs'[pid] = procs[pid]
        /\ nextPid \notin DOMAIN procs
        /\ DOMAIN procs' = DOMAIN procs \cup {nextPid}
        /\ procs'[nextPid].state = "live"
        /\ procs'[nextPid].repo = r
    BY <1>1, StartsAge DEF SafetyInv
  <1>3. EntryOf(r)
    BY <1>1 DEF SafetyInv, VisitsEntries
  <1>4. plan.sr \in Entities
    BY SupervisionPlanFacts
  <1>5. sup.pid = nextPid
    BY DEF Spawned
  <1> HIDE DEF plan, sup
  <1>6. sr.supervisor.pid = nextPid
    BY <1>4, <1>5 DEF Entities
  <1>7. fleet'[r] = sr /\ \A q \in Repos : q # r => fleet'[q] = fleet[q]
    BY <1>1 DEF SafetyInv, TypeOK
  <1> HIDE DEF sr
  <1>8. \A pid \in DOMAIN procs : LivePid(pid) => procs[pid].repo # r
    BY SpawnsWhereNoneIs DEF OwnInv
  <1>9. ASSUME NEW pid \in DOMAIN procs', LivePid(pid)', pid # nextPid
         PROVE  /\ pid \in DOMAIN procs /\ LivePid(pid)
                /\ procs'[pid].repo = procs[pid].repo /\ procs[pid].repo # r
                /\ procs[pid].repo \in Repos
    <2>1. pid \in DOMAIN procs /\ procs'[pid] = procs[pid]
      BY <1>2, <1>9
    <2>2. LivePid(pid)
      BY <1>9, <2>1 DEF LivePid
    <2> QED
      BY <1>8, <2>1, <2>2 DEF SafetyInv, TypeOK, MachineTypeOK, Processes
  <1>10. Alone'
    <2> SUFFICES ASSUME NEW p \in DOMAIN procs', NEW q \in DOMAIN procs',
                        LivePid(p)', LivePid(q)', procs'[p].repo = procs'[q].repo
                 PROVE  p = q
      BY DEF Alone
    <2>1. CASE p = nextPid \/ q = nextPid
      BY <1>2, <1>9, <2>1
    <2>2. CASE p # nextPid /\ q # nextPid
      BY <1>9, <2>2 DEF OwnInv, Alone
    <2> QED
      BY <2>1, <2>2
  <1>11. EverySupervisorOwned'
    <2> SUFFICES ASSUME NEW pid \in DOMAIN procs', LivePid(pid)'
                 PROVE  fleet'[procs'[pid].repo].supervisor.pid = pid
      BY DEF EverySupervisorOwned
    <2>1. CASE pid = nextPid
      BY <1>2, <1>6, <1>7, <2>1
    <2>2. CASE pid # nextPid
      <3>1. fleet[procs[pid].repo].supervisor.pid = pid
        BY <1>1, <1>9, <2>2 DEF OwnInv, EverySupervisorOwned
      <3> QED
        BY <1>7, <1>9, <2>2, <3>1
    <2> QED
      BY <2>1, <2>2
  <1>12. NothingRemoved'
    <2>1. pass'.entries = pass.entries
      BY <1>1, VisitedFacts DEF Passes
    <2>2. \A q \in Repos : Registered(q) <=> Registered(q)'
      BY <1>1 DEF Registered
    <2>3. \A q \in Repos : EntryOf(q) <=> EntryOf(q)'
      BY <2>1 DEF EntryOf
    <2>4. "remove" \notin Events => Registered(r)'
      BY <1>3, <2>2 DEF OwnInv, NothingRemoved
    <2>5. \A q \in Repos : Running(fleet'[q].supervisor) =>
              EntryOf(q)' \/ (Running(fleet[q].supervisor) /\ (EntryOf(q) => EntryOf(q)'))
      BY <1>3, <1>7, <2>3
    <2>6. "remove" \notin Events => \A pid \in DOMAIN procs' :
              \/ pid \in DOMAIN procs /\ procs'[pid].repo = procs[pid].repo
              \/ registry'[procs'[pid].repo] # NoSettings
      <3>1. \A pid \in DOMAIN procs' : pid \in DOMAIN procs \/ pid = nextPid
        BY <1>2
      <3>2. "remove" \notin Events => registry'[procs'[nextPid].repo] # NoSettings
        BY <1>2, <2>4 DEF Registered
      <3> QED
        BY <1>2, <3>1, <3>2
    <2>7. phase' # "retire" /\ stopping' = stopping
      BY <1>1
    <2>8. NothingRemoved
      BY DEF OwnInv
    <2> QED
      BY <2>2, <2>3, <2>5, <2>6, <2>7, <2>8, StillRegistered
  <1>13. NoneBefore'
    BY <1>1 DEF NoneBefore
  <1> QED
    BY <1>10, <1>11, <1>12, <1>13 DEF OwnInv

LEMMA RetireRepoOwns ==
    ASSUME SafetyInv, TypeOK', OwnInv, NEW r \in Repos,
           NEW read \in Readings(r), RetireRepo(r, read)
    PROVE  OwnInv'
  <1> DEFINE plan == RetirementPlan(r, read)
             live == Alive(fleet[r].supervisor)
             quiet == live /\ AllQuiet(r, read)
             none == [total |-> 0, working |-> 0, anchored |-> FALSE]
             census == IF live THEN Census(r, read) ELSE none
             sr == IF plan.decision = "forget"
                   THEN [plan.sr EXCEPT !.supervisor = NoSupervisor] ELSE plan.sr
  <1>1. /\ UNCHANGED << procs, registry, phase >>
        /\ phase = "retire" /\ r \in pass.todo
        /\ fleet' = [fleet EXCEPT ![r] = sr]
        /\ pass' = Visited(r)
    BY DEF RetireRepo, machineVars, MayVisit
  <1>2. fleet[r] \in Entities /\ pass.now \in Nat
    BY DEF SafetyInv, TypeOK, Passes
  <1>3. census \in Censuses /\ live \in BOOLEAN /\ quiet \in BOOLEAN
    BY CensusFacts DEF SafetyInv, Censuses, Alive, LivePid
  <1>4. plan = PlanRetirement(fleet[r], live, quiet, census, pass.now)
    BY DEF RetirementPlan
  <1> HIDE DEF plan, quiet, census
  <1>5. /\ plan.sr \in Entities
        /\ plan.sr.supervisor = fleet[r].supervisor
        /\ plan.decision = "forget" => ~live
    <2> HIDE DEF live
    <2> QED
      BY <1>2, <1>3, <1>4, PlanRetirementFacts, PlanRetirementForgets
  <1>6. sr.supervisor.pid = fleet[r].supervisor.pid \/ ~LivePid(fleet[r].supervisor.pid)
    BY <1>5 DEF Alive
  <1> HIDE DEF sr
  <1>7. fleet'[r] = sr /\ \A q \in Repos : q # r => fleet'[q] = fleet[q]
    BY <1>1 DEF SafetyInv, TypeOK
  <1>8. NothingRemoved'
    <2>1. "remove" \in Events
      BY <1>1 DEF OwnInv, NothingRemoved
    <2> QED
      BY <2>1 DEF NothingRemoved
  <1>9. ASSUME NEW pid \in DOMAIN procs, LivePid(pid)
        PROVE  fleet'[procs[pid].repo].supervisor.pid = fleet[procs[pid].repo].supervisor.pid
    <2>1. procs[pid].repo \in Repos /\ fleet[procs[pid].repo].supervisor.pid = pid
      BY <1>1, <1>9
         DEF OwnInv, EverySupervisorOwned, SafetyInv, TypeOK, MachineTypeOK, Processes
    <2> QED
      BY <1>6, <1>7, <1>9, <2>1
  <1>10. ProcsAge /\ NoneStarted
    BY <1>1, ProcsStand
  <1> QED
    BY <1>1, <1>8, <1>9, <1>10, OwnersStand DEF LivePid

LEMMA ConvergeRepoOwns ==
    ASSUME SafetyInv, TypeOK', OwnInv, NEW r \in Repos, NEW probed \in 0..MaxVersion,
           NEW read \in Readings(r), ConvergeRepo(r, probed, read)
    PROVE  OwnInv'
  <1> DEFINE quiet == AllQuiet(r, read)
             census == Census(r, read)
             was == fleet[r]
             plan == PlanDrift(was, binaryVersion, probed, quiet, census, now)
             sr == plan.sr
  <1>1. /\ UNCHANGED << procs, registry, phase >>
        /\ phase = "tick"
        /\ fleet' = [fleet EXCEPT ![r] = sr]
        /\ pass' = Visited(r)
        /\ Stopping' => stopping'.why = "drift"
    BY DEF ConvergeRepo, machineVars, Turn, MayVisit, Stopping, NoStop
  <1>2. /\ was \in Entities /\ now \in Nat /\ probed \in Nat /\ binaryVersion \in Nat
    BY MachineAssumption DEF SafetyInv, TypeOK, MachineTypeOK
  <1>3. census \in Censuses /\ quiet \in BOOLEAN
    BY CensusFacts DEF SafetyInv
  <1> HIDE DEF quiet, census, was
  <1>4. SameRecord(sr.supervisor, was.supervisor)
    BY <1>2, <1>3, PlanDriftFacts
  <1> HIDE DEF plan, sr
  <1>5. /\ fleet'[r].supervisor.pid = fleet[r].supervisor.pid
        /\ \A q \in Repos : q # r => fleet'[q] = fleet[q]
    BY <1>1, <1>4 DEF SameRecord, was, SafetyInv, TypeOK
  <1>6. NothingRemoved'
    <2>1. \A q \in Repos : Running(fleet'[q].supervisor) => Running(fleet[q].supervisor)
      BY <1>5 DEF Running
    <2> QED
      BY <1>1, <2>1, VisitedFacts, EntriesStand DEF OwnInv
  <1>7. \A pid \in DOMAIN procs :
            fleet'[procs[pid].repo].supervisor.pid = fleet[procs[pid].repo].supervisor.pid
    BY <1>5 DEF SafetyInv, TypeOK, MachineTypeOK, Processes
  <1>8. ProcsAge /\ NoneStarted
    BY <1>1, ProcsStand
  <1> QED
    BY <1>1, <1>6, <1>7, <1>8, OwnersStand

\* A supervisor is released when its process is gone; of the processes that
\* survive, only one that was to be retired is let go of.
LEMMA ReturnOwns ==
    ASSUME Tame, SafetyInv, TypeOK', LifeInv, OwnInv, StopReturns \/ StopFails
    PROVE  OwnInv'
  <1> DEFINE r == stopping.repo
  <1>1. /\ UNCHANGED << procs, registry, phase, pass >>
        /\ Stopping /\ stopping' = NoStop
        /\ \/ fleet' = fleet
           \/ /\ fleet' = [fleet EXCEPT ![r].supervisor = NoSupervisor]
              /\ ~LivePid(stopping.pid)
    <2>1. CASE StopReturns
      BY <2>1 DEF StopReturns, machineVars
    <2>2. CASE StopFails
      <3>1. stopping.why = "drift"
        BY <2>2 DEF StopFails, Tame, OwnInv, NothingRemoved
      <3> QED
        BY <2>2, <3>1 DEF StopFails, machineVars
    <2> QED
      BY <2>1, <2>2
  <1>2. /\ r \in Repos /\ fleet[r].supervisor.pid = stopping.pid /\ phase # "down"
        /\ fleet \in [Repos -> Entities]
    BY <1>1 DEF SafetyInv, TypeOK, Stopping, NoStop, Stops, LifeInv, StopHitsSupervisor
  <1> HIDE DEF r
  <1>3. /\ \A q \in Repos : fleet'[q].supervisor \in {fleet[q].supervisor, NoSupervisor}
        /\ \A q \in Repos : q # r \/ LivePid(stopping.pid) => fleet'[q] = fleet[q]
    BY <1>1, <1>2 DEF Entities
  <1>4. NothingRemoved'
    <2>1. \A q \in Repos : Running(fleet'[q].supervisor) => Running(fleet[q].supervisor)
      BY <1>3, NoSupervisorType
    <2>2. ~Stopping'
      BY <1>1 DEF Stopping, NoStop
    <2> QED
      BY <1>1, <2>1, <2>2, EntriesStand DEF OwnInv
  <1>5. ASSUME NEW pid \in DOMAIN procs, LivePid(pid)
        PROVE  fleet'[procs[pid].repo] = fleet[procs[pid].repo]
    <2>1. procs[pid].repo \in Repos /\ fleet[procs[pid].repo].supervisor.pid = pid
      BY <1>2, <1>5
         DEF OwnInv, EverySupervisorOwned, SafetyInv, TypeOK, MachineTypeOK, Processes
    <2> QED
      BY <1>2, <1>3, <1>5, <2>1
  <1>6. ProcsAge /\ NoneStarted
    BY <1>1, ProcsStand
  <1> QED
    BY <1>1, <1>2, <1>4, <1>5, <1>6, OwnersStand DEF LivePid

\* A starting daemon finds every process there is.
LEMMA StartOwns ==
    ASSUME Tame, NothingGone, SafetyInv, TypeOK', LifeInv, OwnInv, Start
    PROVE  OwnInv'
  <1>1. PICK adopted \in [Repos -> 0..(nextPid - 1)] :
            /\ Adoption(adopted)
            /\ fleet' = [r \in Repos |->
                  IF adopted[r] = 0
                  THEN NewEntity(NoSettings)
                  ELSE [NewEntity(IF Registered(r) THEN registry[r] ELSE Defaults)
                            EXCEPT !.supervisor = Adopted(adopted[r])]]
    BY DEF Start
  <1>2. /\ UNCHANGED << procs, registry, stopping >>
        /\ phase = "down" /\ phase' = "idle"
        /\ pass' = [pass EXCEPT !.entries = registry]
    BY DEF Start, machineVars
  <1>3. pass'.entries = registry
    BY <1>2 DEF SafetyInv, TypeOK, Passes
  <1>4. ASSUME NEW r \in Repos
        PROVE  fleet'[r].supervisor.pid = adopted[r]
    BY <1>1, <1>4 DEF NewEntity, NoSupervisor, Adopted
  <1>5. \A pid \in DOMAIN procs : procs[pid].repo \in Repos /\ pid # 0
    BY DEF SafetyInv, TypeOK, MachineTypeOK, Processes
  <1>6. ASSUME NEW pid \in DOMAIN procs, LivePid(pid)
        PROVE  Adoptable(procs[pid].repo)
    <2>1. CASE "remove" \notin Events
      BY <1>5, <2>1 DEF OwnInv, NothingRemoved, Adoptable
    <2>2. CASE "restart" \notin Events
      BY <1>2, <1>6, <2>2 DEF OwnInv, NoneBefore
    <2>3. CASE "remove" \in Events /\ "restart" \in Events
      BY <1>5, <2>3 DEF Tame, NothingGone, Adoptable
    <2> QED
      BY <2>1, <2>2, <2>3
  <1>7. ASSUME NEW pid \in DOMAIN procs, LivePid(pid)
        PROVE  adopted[procs[pid].repo] = pid
    <2> DEFINE r == procs[pid].repo
    <2>1. r \in Repos /\ pid \in ProcessesOf(r) /\ Adoptable(r)
      BY <1>5, <1>6, <1>7 DEF ProcessesOf
    <2>2. adopted[r] \in ProcessesOf(r)
      BY <1>1, <2>1 DEF Adoption
    <2> QED
      BY <1>7, <2>2 DEF ProcessesOf, OwnInv, Alone
  <1>8. EverySupervisorOwned'
    BY <1>2, <1>4, <1>5, <1>7 DEF EverySupervisorOwned, LivePid
  <1>9. Alone' /\ NoneBefore'
    BY <1>2 DEF OwnInv, Alone, NoneBefore, LivePid
  <1>10. NothingRemoved'
    <2>1. "remove" \notin Events =>
              \A r \in Repos : Running(fleet'[r].supervisor) => Registered(r)
      <3> SUFFICES ASSUME "remove" \notin Events, NEW r \in Repos, adopted[r] # 0
                   PROVE  Registered(r)
        BY <1>4 DEF Running
      <3>1. adopted[r] \in DOMAIN procs /\ procs[adopted[r]].repo = r
        BY <1>1 DEF Adoption, ProcessesOf
      <3> QED
        BY <3>1 DEF OwnInv, NothingRemoved
    <2>2. \A r \in Repos : EntryOf(r)' <=> Registered(r)
      BY <1>3 DEF EntryOf, Registered
    <2>3. \A r \in Repos : Registered(r)' <=> Registered(r)
      BY <1>2 DEF Registered
    <2>4. NothingRemoved /\ phase' # "retire" /\ stopping' = stopping
      BY <1>2 DEF OwnInv
    <2>5. \A pid \in DOMAIN procs' : pid \in DOMAIN procs /\ procs'[pid].repo = procs[pid].repo
      BY <1>2
    <2> QED
      BY <2>1, <2>2, <2>3, <2>4, <2>5, StillRegistered
  <1> QED
    BY <1>8, <1>9, <1>10 DEF OwnInv

LEMMA StopOwns ==
    ASSUME SafetyInv, TypeOK', OwnInv, Stop
    PROVE  OwnInv'
  <1>1. /\ UNCHANGED << procs, registry >>
        /\ phase' = "down" /\ "restart" \in Events
        /\ fleet' = [r \in Repos |-> NewEntity(NoSettings)]
        /\ pass' = [entries |-> [r \in Repos |-> NoSettings], now |-> 0,
                    trusted |-> {}, todo |-> {}, spawned |-> 0]
        /\ stopping' = NoStop
    BY DEF Stop, machineVars
  <1>2. NothingRemoved'
    <2>1. \A r \in Repos : ~Running(fleet'[r].supervisor) /\ ~EntryOf(r)'
      BY <1>1, NoSupervisorType DEF NewEntity, EntryOf
    <2>2. \A r \in Repos : Registered(r) => Registered(r)'
      BY <1>1 DEF Registered
    <2>3. ~Stopping' /\ NothingRemoved
      BY <1>1 DEF Stopping, NoStop, OwnInv
    <2>4. \A pid \in DOMAIN procs' : pid \in DOMAIN procs /\ procs'[pid].repo = procs[pid].repo
      BY <1>1
    <2> QED
      BY <1>1, <2>1, <2>2, <2>3, <2>4, StillRegistered
  <1>3. Alone' /\ NoneBefore' /\ EverySupervisorOwned'
    BY <1>1 DEF OwnInv, Alone, NoneBefore, EverySupervisorOwned, LivePid
  <1> QED
    BY <1>2, <1>3 DEF OwnInv

LEMMA LoopOwns ==
    ASSUME SafetyInv, TypeOK', LifeInv, OwnInv,
           \/ EndReconcile \/ SkipTick \/ EndTick \/ EndPass \/ NightlyUpdates \/ NightlyFails
           \/ PassFails
           \/ \E readable, torn \in BOOLEAN : BeginPass(readable, torn)
           \/ \E version \in 0..MaxVersion : BeginTick(version)
           \/ \E r \in Repos : ConvergeSkips(r)
    PROVE  OwnInv'
  <1>1. /\ UNCHANGED << procs, registry, fleet, stopping >>
        /\ (phase # "down" <=> phase' # "down")
    BY DEF EndReconcile, SkipTick, EndTick, EndPass, NightlyUpdates, NightlyFails, PassFails,
           BeginPass, BeginTick, ConvergeSkips, machineVars
  <1>2. pass \in Passes
    BY DEF SafetyInv, TypeOK
  <1>3. NothingRemoved'
    <2>1. CASE /\ pass'.entries = pass.entries
               /\ phase' # "retire"
      BY <1>1, <2>1, EntriesStand DEF OwnInv
    <2>2. CASE \E readable, torn \in BOOLEAN : BeginPass(readable, torn)
      <3>1. pass'.entries \in {registry, pass.entries} /\ phase' = "reconcile"
        BY <2>2 DEF BeginPass
      <3>2. \A r \in Repos : Registered(r) <=> Registered(r)'
        BY <1>1 DEF Registered
      <3>3. \A r \in Repos : EntryOf(r)' => EntryOf(r) \/ Registered(r)'
        BY <3>1, <3>2 DEF EntryOf, Registered
      <3>4. "remove" \notin Events => \A r \in Repos : EntryOf(r) => EntryOf(r)'
        BY <3>1 DEF EntryOf, Registered, OwnInv, NothingRemoved
      <3>5. "remove" \notin Events => \A r \in Repos :
                Running(fleet'[r].supervisor) =>
                    EntryOf(r)' \/ (Running(fleet[r].supervisor) /\ (EntryOf(r) => EntryOf(r)'))
        BY <1>1, <3>4
      <3>6. \A pid \in DOMAIN procs' :
                pid \in DOMAIN procs /\ procs'[pid].repo = procs[pid].repo
        BY <1>1
      <3>7. NothingRemoved /\ phase' # "retire"
        BY <3>1 DEF OwnInv
      <3> QED
        BY <1>1, <3>2, <3>3, <3>5, <3>6, <3>7, StillRegistered
    <2>3. CASE EndReconcile
      <3> DEFINE left == {r \in Repos : ~EntryOf(r) /\ Running(fleet[r].supervisor)}
      <3>1. pass' = [pass EXCEPT !.trusted = {}, !.spawned = 0, !.todo = left]
        BY <2>3 DEF EndReconcile
      <3>2. "remove" \notin Events => left = {}
        BY DEF OwnInv, NothingRemoved
      <3> HIDE DEF left
      <3>3. pass'.todo = left /\ pass'.entries = pass.entries
        BY <1>2, <3>1 DEF Passes
      <3>4. CASE "remove" \notin Events
        BY <1>1, <3>2, <3>3, <3>4, EntriesStand DEF OwnInv
      <3>5. CASE "remove" \in Events
        BY <3>5 DEF NothingRemoved
      <3> QED
        BY <3>4, <3>5
    <2>4. CASE SkipTick \/ EndTick \/ EndPass \/ NightlyUpdates \/ NightlyFails \/ PassFails
      <3>1. pass'.entries = pass.entries /\ phase' # "retire"
        BY <1>2, <2>4 DEF SkipTick, EndTick, EndPass, NightlyUpdates, NightlyFails, PassFails,
                          Passes
      <3> QED
        BY <2>1, <3>1
    <2>5. ASSUME NEW version \in 0..MaxVersion, BeginTick(version) PROVE NothingRemoved'
      <3>1. pass'.entries = pass.entries /\ phase' # "retire"
        BY <1>2, <2>5 DEF BeginTick, Passes
      <3> QED
        BY <2>1, <3>1
    <2>6. ASSUME NEW r \in Repos, ConvergeSkips(r) PROVE NothingRemoved'
      <3>1. pass'.entries = pass.entries /\ phase' # "retire"
        BY <2>6, VisitedFacts DEF ConvergeSkips
      <3> QED
        BY <2>1, <3>1
    <2> QED
      BY <2>2, <2>3, <2>4, <2>5, <2>6
  <1>4. ProcsAge /\ NoneStarted
    BY <1>1, ProcsStand
  <1> QED
    BY <1>1, <1>3, <1>4, OwnersStand

LEMMA KilledOwns ==
    ASSUME SafetyInv, TypeOK', OwnInv, Killed
    PROVE  OwnInv'
  <1>1. /\ UNCHANGED << phase, pass, fleet, registry, stopping >>
        /\ LivePid(stopping.pid) /\ Ends(stopping.pid, "stopped")
    BY DEF Killed
  <1>2. stopping.pid \in DOMAIN procs
    BY <1>1 DEF LivePid
  <1>3. ProcsAge /\ NoneStarted
    BY <1>1, <1>2, EndsAge DEF SafetyInv
  <1>4. NothingRemoved'
    BY <1>1, <1>3, StillRegistered
       DEF ProcsAge, NoneStarted, EntryOf, Registered, OwnInv
  <1> QED
    BY <1>1, <1>3, <1>4, OwnersStand

LEMMA MachineOwns ==
    ASSUME Tame, SafetyInv, TypeOK', OwnInv, MachineStep
    PROVE  OwnInv'
  <1>1. UNCHANGED << phase, pass, fleet, stopping >> /\ MachineNext
    BY DEF MachineStep
  <1>2. ProcsAge /\ NoneStarted
    BY <1>1, MachineAges DEF SafetyInv, Tame
  <1>3. NothingRemoved'
    <2>1. "remove" \notin Events => \A r \in Repos : Registered(r) => Registered(r)'
      BY <1>1, RegistryGrows
    <2>2. \A r \in Repos : EntryOf(r)' <=> EntryOf(r)
      BY <1>1 DEF EntryOf
    <2> QED
      BY <1>1, <1>2, <2>1, <2>2, StillRegistered DEF ProcsAge, NoneStarted, OwnInv
  <1> QED
    BY <1>1, <1>2, <1>3, OwnersStand

LEMMA InitOwns == ASSUME Init PROVE OwnInv
  <1>1. /\ DOMAIN procs = {} /\ phase = "down" /\ stopping = NoStop
        /\ pass.entries = [r \in Repos |-> NoSettings]
        /\ fleet = [r \in Repos |-> NewEntity(NoSettings)]
    BY DEF Init
  <1>2. \A r \in Repos : ~Running(fleet[r].supervisor) /\ ~EntryOf(r)
    BY <1>1, NoSupervisorType DEF NewEntity, EntryOf
  <1>3. ~Stopping
    BY <1>1 DEF Stopping, NoStop
  <1> QED
    BY <1>1, <1>2, <1>3 DEF OwnInv, Alone, NoneBefore, NothingRemoved, EverySupervisorOwned

LEMMA NextOwns ==
    ASSUME Tame, NothingGone, SafetyInv, LifeInv, OwnInv, [Next]_vars PROVE OwnInv'
  <1>1. TypeOK'
    BY NextKeeps DEF SafetyInv
  <1>2. CASE UNCHANGED vars
    <2>1. UNCHANGED << procs, registry, phase, pass, fleet, stopping >>
      BY <1>2 DEF vars
    <2>2. NothingRemoved'
      BY <1>1, <2>1, StillRegistered DEF EntryOf, Registered, OwnInv
    <2> QED
      BY <2>1, <2>2, ProcsStand, OwnersStand
  <1>3. CASE MachineStep
    BY <1>1, <1>3, MachineOwns
  <1>4. CASE DaemonNext
    <2>1. CASE Start
      BY <1>1, <2>1, StartOwns
    <2>2. CASE Stop
      BY <1>1, <2>2, StopOwns
    <2>3. ASSUME NEW r \in Repos, ReconcileWaits(r) PROVE OwnInv'
      BY <1>1, <2>3, ReconcileWaitsOwns
    <2>4. ASSUME NEW r \in Repos, ReconcileSpawns(r) PROVE OwnInv'
      BY <1>1, <2>4, ReconcileSpawnsOwns
    <2>5. ASSUME NEW r \in Repos, NEW read \in Readings(r), RetireRepo(r, read)
          PROVE  OwnInv'
      BY <1>1, <2>5, RetireRepoOwns
    <2>6. ASSUME NEW r \in Repos, NEW read \in Readings(r),
                 NEW probed \in 0..MaxVersion, ConvergeRepo(r, probed, read)
          PROVE  OwnInv'
      BY <1>1, <2>6, ConvergeRepoOwns
    <2>7. CASE Killed
      BY <1>1, <2>7, KilledOwns
    <2>8. CASE StopReturns \/ StopFails
      BY <1>1, <2>8, ReturnOwns
    <2>9. CASE \/ EndReconcile \/ SkipTick \/ EndTick \/ EndPass \/ NightlyUpdates
               \/ NightlyFails \/ PassFails
               \/ \E readable, torn \in BOOLEAN : BeginPass(readable, torn)
               \/ \E version \in 0..MaxVersion : BeginTick(version)
               \/ \E r \in Repos : ConvergeSkips(r)
      BY <1>1, <2>9, LoopOwns
    <2> QED
      BY <1>4, <2>1, <2>2, <2>3, <2>4, <2>5, <2>6, <2>7, <2>8, <2>9 DEF DaemonNext
  <1> QED
    BY <1>2, <1>3, <1>4 DEF Next

(* "One per registered repo": where no process is started by hand, where     *)
(* SIGKILL kills whatever is removed, and where what is removed stays within *)
(* sight of a restart, every process is the supervisor of its directory's    *)
(* entity, and its only one, through crashes of the daemon and of any        *)
(* process, removals, re-adds and failing stops.                             *)
THEOREM ProcessesOwned ==
    ASSUME Tame PROVE Spec => []EverySupervisorOwned
  <1>1. Init => OwnInv
    BY InitOwns
  <1>2. NothingGone /\ SafetyInv /\ LifeInv /\ OwnInv /\ [Next]_vars => OwnInv'
    BY NextOwns
  <1>3. OwnInv => EverySupervisorOwned
    BY DEF OwnInv
  <1> QED
    BY <1>1, <1>2, <1>3, GoneNowhere, SafetyHolds, LifeHolds, PTL DEF Spec

----
(* The fleet an onlooker sees.                                              *)
(*                                                                          *)
(* A step of the daemon is a step of SupervisedFleet, or none: what it      *)
(* writes down is not seen, and what it does to the processes is one of the *)
(* abstract actions.  That nothing lives where it starts a supervisor is    *)
(* OwnInv; that a stop is free when it is asked for, where every session's  *)
(* metadata can be read, is StopIsSafe, in the state the decision leads to. *)

LEMMA LivesFacts ==
    /\ DOMAIN Lives = DOMAIN procs
    /\ \A pid \in DOMAIN procs :
          Lives[pid].repo = procs[pid].repo /\ Lives[pid].state = procs[pid].state
    /\ \A pid : Fleet!Live(pid) <=> LivePid(pid)
    /\ Fleet!Living = {pid \in DOMAIN procs : LivePid(pid)}
  BY DEF Lives, Fleet!Live, Fleet!Living, LivePid

LEMMA MachineSeenStill ==
    ASSUME UNCHANGED << procs, sess >>
    PROVE  UNCHANGED << Lives, Costly >>
  BY DEF Lives, Costly, LivePid, SafeToStop, SessionsUnder, EnvironmentSurvives

\* What a process costs depends on its argv and on the sessions it owns.
LEMMA CostStands ==
    ASSUME SafetyInv, NEW pid \in DOMAIN procs, pid \in DOMAIN procs',
           procs'[pid].repo = procs[pid].repo, procs'[pid].args = procs[pid].args,
           \A s \in Sessions :
              \/ sess'[procs[pid].repo][s] = sess[procs[pid].repo][s]
              \/ /\ sess[procs[pid].repo][s].owner # pid
                 /\ sess'[procs[pid].repo][s].owner # pid
    PROVE  SafeToStop(pid)' <=> SafeToStop(pid)
  <1> DEFINE r == procs[pid].repo
  <1>1. \A s \in Sessions : s \in SessionsUnder(pid)' <=> s \in SessionsUnder(pid)
    BY DEF SessionsUnder
  <1>2. SessionsUnder(pid)' = SessionsUnder(pid) /\ SessionsUnder(pid) \subseteq Sessions
    BY <1>1 DEF SessionsUnder
  <1>3. \A s \in SessionsUnder(pid) : sess'[r][s] = sess[r][s]
    BY <1>2 DEF SessionsUnder
  <1> QED
    BY <1>2, <1>3 DEF SafeToStop, EnvironmentSurvives

LEMMA EndsSeen ==
    ASSUME SafetyInv, NEW pid \in DOMAIN procs, LivePid(pid),
           NEW how \in {"died", "stopped"}, Ends(pid, how)
    PROVE  Fleet!Over(pid, how)
  <1>1. /\ \A q \in DOMAIN procs : q # pid => procs'[q] = procs[q]
        /\ procs'[pid].state = how /\ procs'[pid].repo = procs[pid].repo
        /\ DOMAIN procs' = DOMAIN procs
    BY EndsAge DEF SafetyInv, ProcsAge, NoneStarted
  <1>2. Lives' = [Lives EXCEPT ![pid].state = how]
    BY <1>1 DEF Lives
  <1>3. ASSUME NEW q \in DOMAIN procs, q # pid, LivePid(q)
        PROVE  SafeToStop(q)' <=> SafeToStop(q)
    <2> DEFINE r == procs[pid].repo
    <2>1. /\ procs[q].repo \in Repos /\ r \in Repos /\ q # 0
          /\ sess \in [Repos -> [Sessions -> SessionStates]]
      <3>1. /\ procs \in [1..(nextPid - 1) -> Processes]
            /\ sess \in [Repos -> [Sessions -> SessionStates]]
        BY DEF SafetyInv, TypeOK, MachineTypeOK
      <3>2. procs[q] \in Processes /\ procs[pid] \in Processes /\ q # 0
        BY <3>1
      <3> QED
        BY <3>1, <3>2 DEF Processes
    <2>2. ASSUME NEW s \in Sessions, sess'[procs[q].repo][s] # sess[procs[q].repo][s]
          PROVE  sess[procs[q].repo][s].owner # q /\ sess'[procs[q].repo][s].owner # q
      <3>1. sess' = [sess EXCEPT ![r] =
                        [t \in Sessions |->
                            IF t \in SessionsUnder(pid) /\ ~EnvironmentSurvives(pid)
                            THEN NoSession ELSE sess[r][t]]]
        BY DEF Ends
      <3>2. /\ procs[q].repo = r /\ s \in SessionsUnder(pid)
            /\ sess'[r][s] = NoSession
        BY <2>1, <2>2, <3>1
      <3> QED
        BY <1>3, <2>1, <3>2 DEF SessionsUnder, NoSession
    <2> QED
      BY <1>1, <1>3, <2>2, CostStands
  <1>4. Costly' = Costly \ {pid}
    <2>1. ~LivePid(pid)'
      BY <1>1 DEF LivePid
    <2>2. \A q \in DOMAIN procs : q # pid => (LivePid(q)' <=> LivePid(q))
      BY <1>1 DEF LivePid
    <2>3. \A q : q \in Costly' <=> q \in Costly \ {pid}
      BY <1>1, <1>3, <2>1, <2>2 DEF Costly
    <2> QED
      BY <2>3
  <1> QED
    BY <1>2, <1>4, LivesFacts DEF Fleet!Over

LEMMA SpawnSeen ==
    ASSUME SafetyInv, LifeInv, OwnInv, NEW r \in Repos, ReconcileSpawns(r)
    PROVE  nextPid \in 1..MaxPid /\ Fleet!Serve(r, nextPid)
  <1> DEFINE args == RcArgs(SupervisionPlan(r).sr.settings)
  <1>1. /\ Starts(r, binary, args)
        /\ sess' = sess /\ stopping' = stopping /\ phase' = phase
        /\ phase = "reconcile" /\ ~Stopping
    BY DEF ReconcileSpawns, Turn, MayVisit
  <1> HIDE DEF args
  <1>2. nextPid \in 1..MaxPid
    BY <1>1, MachineAssumption DEF Starts, SafetyInv, TypeOK, MachineTypeOK
  <1>3. /\ \A pid \in DOMAIN procs : procs'[pid] = procs[pid]
        /\ nextPid \notin DOMAIN procs
        /\ DOMAIN procs' = DOMAIN procs \cup {nextPid}
        /\ procs'[nextPid].state = "live"
        /\ procs'[nextPid].repo = r
    BY <1>1, StartsAge DEF SafetyInv
  <1>4. \A p \in Fleet!Living : Lives[p].repo # r
    BY SpawnsWhereNoneIs, LivesFacts DEF OwnInv
  <1>5. Lives' = [p \in DOMAIN Lives \cup {nextPid} |->
                     IF p = nextPid THEN [repo |-> r, state |-> "live"] ELSE Lives[p]]
    BY <1>3 DEF Lives
  <1>6. Costly' = Costly
    <2> PICK new : new = nextPid
      OBVIOUS
    <2>1. \A s \in Sessions : sess'[procs'[new].repo][s].owner # new
      BY <1>1, <1>2, <1>3 DEF SafetyInv, OwnersKnown
    <2>2. SafeToStop(new)'
      BY <2>1 DEF SafeToStop, SessionsUnder
    <2>3. \A pid \in DOMAIN procs : SafeToStop(pid)' <=> SafeToStop(pid)
      BY <1>1, <1>3, CostStands
    <2>4. \A pid \in DOMAIN procs : LivePid(pid)' <=> LivePid(pid)
      BY <1>3 DEF LivePid
    <2>5. \A pid : pid \in Costly' <=> pid \in Costly
      BY <1>3, <2>2, <2>3, <2>4 DEF Costly
    <2> QED
      BY <2>5
  <1> QED
    BY <1>1, <1>2, <1>3, <1>4, <1>5, <1>6, LivesFacts DEF Fleet!Serve, Stopping

\* A decision to stop: the process is the only one of its directory, so the stop
\* that begins is free where the read behind it could see every session.
LEMMA AskSeen ==
    ASSUME SafetyInv, Alone, StopIsSafe', ~Stopping, phase # "down", phase' = phase,
           UNCHANGED << procs, sess >>, NEW r \in Repos, NEW pid, NEW read \in Readings(r),
           LivePid(pid), procs[pid].repo = r,
           stopping'.pid = pid, stopping'.repo = r, stopping'.seen = SessionView(r, read)
    PROVE  pid \in 1..MaxPid /\ Fleet!Ask(pid)
  <1>1. pid \in DOMAIN procs /\ pid \in 1..MaxPid /\ pid # 0
    BY MachineAssumption DEF LivePid, SafetyInv, TypeOK, MachineTypeOK
  <1>2. ProcessesOf(r) = {pid}
    BY <1>1 DEF Alone, ProcessesOf
  <1>3. ProcessesOf(r)' = ProcessesOf(r) /\ LiveSessions(r)' = LiveSessions(r)
    BY DEF ProcessesOf, LiveSessions, LivePid
  <1>4. \A s \in ReadByStop' : s \in read /\ stopping'.seen[s] = sess'[r][s]
    BY DEF ReadByStop, SessionView
  <1>5. AsDecided'
    BY <1>1, <1>2, <1>3, <1>4, ReadingsFacts DEF AsDecided, Stopping
  <1>6. /\ \A s \in ReadByStop' : sess[r][s].quiet
        /\ ReadByStop' # {} => EnvironmentSurvives(pid)
    BY <1>5 DEF StopIsSafe, EnvironmentSurvives, SessionsUnder
  <1>7. ASSUME "tornmeta" \notin Events PROVE SafeToStop(pid)
    <2>1. \A s \in SessionsUnder(pid) : s \in read /\ s \in Sessions /\ sess[r][s].owner = pid
      BY <1>7 DEF Readings, SessionsUnder, LiveSessions
    <2>2. SessionsUnder(pid) \subseteq ReadByStop'
      BY <1>1, <2>1 DEF ReadByStop, SessionView, NoSession
    <2> QED
      BY <1>6, <2>2 DEF SafeToStop
  <1> QED
    BY <1>1, <1>7, MachineSeenStill, LivesFacts DEF Fleet!Ask, Costly, Stopping

LEMMA RetireSeen ==
    ASSUME SafetyInv, OwnInv, StopIsSafe', NEW r \in Repos,
           NEW read \in Readings(r), RetireRepo(r, read)
    PROVE  stopping'.pid = stopping.pid \/ \E pid \in 1..MaxPid : Fleet!Ask(pid)
  <1> DEFINE plan == RetirementPlan(r, read)
             live == Alive(fleet[r].supervisor)
             quiet == live /\ AllQuiet(r, read)
             none == [total |-> 0, working |-> 0, anchored |-> FALSE]
             census == IF live THEN Census(r, read) ELSE none
  <1>1. /\ UNCHANGED << procs, sess >> /\ phase' = phase
        /\ phase = "retire" /\ ~Stopping
        /\ stopping' = IF plan.decision = "terminate"
                       THEN [repo |-> r, why |-> "retirement",
                             pid |-> fleet[r].supervisor.pid, reasons |-> {},
                             alert |-> "none", seen |-> SessionView(r, read)]
                       ELSE NoStop
    BY DEF RetireRepo, machineVars, MayVisit
  <1>2. fleet[r] \in Entities /\ pass.now \in Nat
    BY DEF SafetyInv, TypeOK, Passes
  <1>3. census \in Censuses /\ live \in BOOLEAN /\ quiet \in BOOLEAN
    BY CensusFacts DEF SafetyInv, Censuses, Alive, LivePid
  <1>4. plan = PlanRetirement(fleet[r], live, quiet, census, pass.now)
    BY DEF RetirementPlan
  <1> HIDE DEF plan, quiet, census
  <1>5. CASE plan.decision = "terminate"
    <2>1. live /\ Running(fleet[r].supervisor)
      <3> HIDE DEF live
      <3> QED
        BY <1>2, <1>3, <1>4, <1>5, PlanRetirementFacts
    <2>2. procs[fleet[r].supervisor.pid].repo = r /\ LivePid(fleet[r].supervisor.pid)
      BY <2>1 DEF SafetyInv, SupervisorsKnown, Alive
    <2>3. /\ stopping'.pid = fleet[r].supervisor.pid /\ stopping'.repo = r
          /\ stopping'.seen = SessionView(r, read)
      BY <1>1, <1>5
    <2> QED
      BY <1>1, <2>2, <2>3, AskSeen DEF OwnInv
  <1>6. CASE plan.decision # "terminate"
    BY <1>1, <1>6 DEF Stopping, NoStop
  <1> QED
    BY <1>5, <1>6

LEMMA ConvergeSeen ==
    ASSUME SafetyInv, OwnInv, StopIsSafe', NEW r \in Repos,
           NEW read \in Readings(r),
           NEW probed \in 0..MaxVersion, ConvergeRepo(r, probed, read)
    PROVE  stopping'.pid = stopping.pid \/ \E pid \in 1..MaxPid : Fleet!Ask(pid)
  <1> DEFINE pid == fleet[r].supervisor.pid
  <1>1. /\ UNCHANGED << procs, sess >> /\ phase' = phase
        /\ phase = "tick" /\ ~Stopping /\ LivePid(pid)
        /\ \/ stopping' = NoStop
           \/ /\ stopping'.pid = pid /\ stopping'.repo = r
              /\ stopping'.seen = SessionView(r, read)
    BY DEF ConvergeRepo, machineVars, Turn, MayVisit, Alive
  <1>2. procs[pid].repo = r
    <2>1. pid # 0
      BY <1>1 DEF LivePid, SafetyInv, TypeOK, MachineTypeOK
    <2> QED
      BY <2>1 DEF SafetyInv, SupervisorsKnown, Running
  <1> HIDE DEF pid
  <1>3. CASE stopping' = NoStop
    BY <1>1, <1>3 DEF Stopping, NoStop
  <1>4. CASE /\ stopping'.pid = pid /\ stopping'.repo = r
             /\ stopping'.seen = SessionView(r, read)
    BY <1>1, <1>2, <1>4, AskSeen DEF OwnInv
  <1> QED
    BY <1>1, <1>3, <1>4

\* What moves the sessions, and nothing else that can be seen.
LEMMA SessionsSeen ==
    ASSUME SafetyInv, UNCHANGED << phase, stopping >>, DOMAIN procs' = DOMAIN procs,
           \A pid \in DOMAIN procs :
              procs'[pid].repo = procs[pid].repo /\ procs'[pid].state = procs[pid].state
    PROVE  Fleet!SessionsMove
  <1>1. Lives' = Lives
    BY DEF Lives
  <1>2. Costly' \subseteq Fleet!Living
    BY LivesFacts DEF Costly, LivePid
  <1> QED
    BY <1>1, <1>2 DEF Fleet!SessionsMove

LEMMA MachineSeen ==
    ASSUME Tame, SafetyInv, MachineStep
    PROVE  \/ UNCHANGED << Lives, Costly, stopping, phase >>
           \/ Fleet!SessionsMove
           \/ \E pid \in 1..MaxPid : Fleet!Fail(pid)
  <1>1. UNCHANGED << phase, stopping >> /\ MachineNext
    BY DEF MachineStep
  <1>2. CASE UNCHANGED << procs, sess >>
    BY <1>1, <1>2, MachineSeenStill
  <1>3. CASE UNCHANGED procs
    BY <1>1, <1>3, SessionsSeen
  <1>4. ASSUME NEW pid \in DOMAIN procs, Die(pid)
        PROVE  \E p \in 1..MaxPid : Fleet!Fail(p)
    <2>1. pid \in 1..MaxPid
      BY MachineAssumption DEF SafetyInv, TypeOK, MachineTypeOK
    <2>2. Fleet!Over(pid, "died")
      BY <1>4, EndsSeen DEF Die
    <2> QED
      BY <1>1, <2>1, <2>2 DEF Fleet!Fail
  <1>5. ASSUME NEW pid \in DOMAIN procs, Connect(pid)
        PROVE  Fleet!SessionsMove
    <2>1. /\ procs' = [procs EXCEPT ![pid].starting = FALSE]
          /\ procs \in [1..(nextPid - 1) -> Processes]
      BY <1>5 DEF Connect, SafetyInv, TypeOK, MachineTypeOK
    <2>2. procs[pid] \in Processes
      BY <2>1
    <2>3. /\ DOMAIN procs' = DOMAIN procs
          /\ \A q \in DOMAIN procs :
                procs'[q].repo = procs[q].repo /\ procs'[q].state = procs[q].state
      BY <2>1, <2>2 DEF Processes
    <2> QED
      BY <1>1, <2>3, SessionsSeen
  <1>6. \/ UNCHANGED procs
        \/ \E pid \in DOMAIN procs : Die(pid) \/ Connect(pid)
    BY <1>1 DEF Tame, MachineNext, Advance, Release, OpenSession, CmdRemove, DirectoryMoves,
                CmdAdd, TakeTurn, GoQuiet, EndSession, StartByHand
  <1> QED
    BY <1>3, <1>4, <1>5, <1>6

\* The daemon coming up, going down and waiting no longer.
LEMMA WatchSeen ==
    ASSUME SafetyInv, Start \/ Stop \/ StopReturns \/ StopFails \/ Killed
    PROVE  Fleet!Recover \/ Fleet!Down \/ Fleet!Return \/ Fleet!Obey
  <1>1. CASE Start
    <2>1. phase = "down" /\ phase' = "idle" /\ UNCHANGED << procs, sess, stopping >>
      BY <1>1 DEF Start, machineVars
    <2> QED
      BY <2>1, MachineSeenStill DEF Fleet!Recover
  <1>2. CASE Stop
    <2>1. phase # "down" /\ phase' = "down" /\ UNCHANGED << procs, sess >>
          /\ stopping'.pid = 0
      BY <1>2 DEF Stop, machineVars, NoStop
    <2> QED
      BY <2>1, MachineSeenStill DEF Fleet!Down
  <1>3. CASE StopReturns \/ StopFails
    <2>1. /\ stopping.pid # 0 /\ stopping'.pid = 0
          /\ UNCHANGED << procs, sess, phase >>
      BY <1>3 DEF StopReturns, StopFails, machineVars, NoStop, Stopping
    <2> QED
      BY <2>1, MachineSeenStill DEF Fleet!Return
  <1>4. CASE Killed
    <2>1. /\ Stopping /\ LivePid(stopping.pid) /\ stopping.pid \in DOMAIN procs
          /\ Ends(stopping.pid, "stopped") /\ UNCHANGED << stopping, phase >>
      BY <1>4 DEF Killed, LivePid
    <2>2. Fleet!Over(stopping.pid, "stopped")
      BY <2>1, EndsSeen
    <2> QED
      BY <2>1, <2>2 DEF Fleet!Obey
  <1> QED
    BY <1>1, <1>2, <1>3, <1>4

\* The steps of which nothing is seen.
LEMMA LoopSeen ==
    ASSUME \/ EndReconcile \/ SkipTick \/ EndTick \/ EndPass \/ NightlyUpdates \/ NightlyFails
           \/ PassFails
           \/ \E readable, torn \in BOOLEAN : BeginPass(readable, torn)
           \/ \E version \in 0..MaxVersion : BeginTick(version)
           \/ \E r \in Repos : ConvergeSkips(r) \/ ReconcileWaits(r)
    PROVE  UNCHANGED << Lives, Costly, stopping >> /\ (phase' # "down") = (phase # "down")
  <1>1. /\ UNCHANGED << procs, sess, stopping >>
        /\ phase # "down" /\ phase' # "down"
    BY DEF EndReconcile, SkipTick, EndTick, EndPass, NightlyUpdates, NightlyFails, PassFails,
           BeginPass, BeginTick, ConvergeSkips, ReconcileWaits, machineVars
  <1> QED
    BY <1>1, MachineSeenStill

LEMMA InitSeen == ASSUME Init PROVE Fleet!Init
  <1>1. DOMAIN procs = {} /\ stopping.pid = 0 /\ phase = "down"
    BY DEF Init, NoStop
  <1> QED
    BY <1>1, LivesFacts DEF Fleet!Init, Costly

LEMMA NextSeen ==
    ASSUME Tame, SafetyInv, LifeInv, OwnInv, StopIsSafe', [Next]_vars
    PROVE  [Fleet!Next]_<< Lives, Costly, stopping.pid, phase # "down" >>
  <1> DEFINE Still == /\ UNCHANGED << Lives, Costly >> /\ stopping'.pid = stopping.pid
                      /\ (phase' # "down") = (phase # "down")
  <1> SUFFICES Fleet!Next \/ Still
    OBVIOUS
  <1>1. CASE UNCHANGED vars
    <2>1. UNCHANGED << procs, sess, stopping, phase >>
      BY <1>1 DEF vars
    <2> QED
      BY <2>1, MachineSeenStill
  <1>2. CASE MachineStep
    BY <1>2, MachineSeen DEF Fleet!Next
  <1>3. CASE DaemonNext
    <2>1. ASSUME NEW r \in Repos, ReconcileSpawns(r) PROVE Fleet!Next
      BY <2>1, SpawnSeen DEF Fleet!Next
    <2>2. ASSUME NEW r \in Repos, NEW read \in Readings(r), RetireRepo(r, read)
          PROVE  Fleet!Next \/ Still
      <3>1. UNCHANGED << procs, sess, phase >>
        BY <2>2 DEF RetireRepo, machineVars
      <3>2. CASE stopping'.pid = stopping.pid
        BY <3>1, <3>2, MachineSeenStill
      <3>3. CASE \E pid \in 1..MaxPid : Fleet!Ask(pid)
        BY <3>3 DEF Fleet!Next
      <3> QED
        BY <2>2, <3>2, <3>3, RetireSeen
    <2>3. ASSUME NEW r \in Repos, NEW read \in Readings(r),
                 NEW probed \in 0..MaxVersion, ConvergeRepo(r, probed, read)
          PROVE  Fleet!Next \/ Still
      <3>1. UNCHANGED << procs, sess, phase >>
        BY <2>3 DEF ConvergeRepo, machineVars
      <3>2. CASE stopping'.pid = stopping.pid
        BY <3>1, <3>2, MachineSeenStill
      <3>3. CASE \E pid \in 1..MaxPid : Fleet!Ask(pid)
        BY <3>3 DEF Fleet!Next
      <3> QED
        BY <2>3, <3>2, <3>3, ConvergeSeen
    <2>4. CASE Start \/ Stop \/ StopReturns \/ StopFails \/ Killed
      BY <2>4, WatchSeen DEF Fleet!Next
    <2>5. CASE \/ EndReconcile \/ SkipTick \/ EndTick \/ EndPass \/ NightlyUpdates
               \/ NightlyFails \/ PassFails
               \/ \E readable, torn \in BOOLEAN : BeginPass(readable, torn)
               \/ \E version \in 0..MaxVersion : BeginTick(version)
               \/ \E r \in Repos : ConvergeSkips(r) \/ ReconcileWaits(r)
      BY <2>5, LoopSeen
    <2> QED
      BY <1>3, <2>1, <2>2, <2>3, <2>4, <2>5 DEF DaemonNext
  <1> QED
    BY <1>1, <1>2, <1>3 DEF Next

(* The daemon with its records, drift checks, breaker, ramp, adoption and    *)
(* crashes implements the fleet an onlooker sees: where it starts a          *)
(* supervisor nothing lives, what it asks to stop costs nothing at that      *)
(* moment where every session's metadata can be read, and only a stop or a   *)
(* death of its own ends a process.                                          *)
THEOREM FleetImplemented ==
    ASSUME Tame PROVE Spec => ImplementsFleet
  <1>1. Init => Fleet!Init
    BY InitSeen
  <1>2. Init => OwnInv
    BY InitOwns
  <1>3. NothingGone /\ SafetyInv /\ LifeInv /\ OwnInv /\ [Next]_vars => OwnInv'
    BY NextOwns
  <1>4. SafetyInv /\ LifeInv /\ OwnInv /\ StopIsSafe' /\ [Next]_vars
            => [Fleet!Next]_<< Lives, Costly, stopping.pid, phase # "down" >>
    BY NextSeen
  <1> QED
    BY <1>1, <1>2, <1>3, <1>4, GoneNowhere, SafetyHolds, LifeHolds, StopsAreSafe, PTL
       DEF Spec, ImplementsFleet, Fleet!Spec, Fleet!fleetVars

====
