---- MODULE DaemonProofs ----
(* Safety of the daemon for every value of the constants: type correctness, *)
(* and that a stop never costs a turn of the sessions it was decided on.    *)
EXTENDS Daemon, SupervisedRepoProofs

----
(* The inductive invariant. *)

\* reconcile and tick visit entries of the registry they read.
VisitsEntries ==
    phase \in {"reconcile", "tick"} => \A r \in pass.todo : EntryOf(r)

\* A session belongs to a process of its own directory.
OwnersKnown ==
    \A r \in Repos, s \in Sessions :
        sess[r][s].owner # 0 =>
            /\ sess[r][s].owner \in DOMAIN procs
            /\ procs[sess[r][s].owner].repo = r

\* A supervisor record describes a process of its directory, argv included.
SupervisorsKnown ==
    \A r \in Repos :
        Running(fleet[r].supervisor) =>
            /\ fleet[r].supervisor.pid \in DOMAIN procs
            /\ procs[fleet[r].supervisor.pid].repo = r
            /\ procs[fleet[r].supervisor.pid].args = fleet[r].supervisor.launchedArgs

\* What the two gates let through, as the census saw it.
GatesPassed(seen, pid) ==
    /\ \A s \in Sessions : seen[s].owner # 0 => seen[s].quiet
    /\ (\E s \in Sessions : seen[s].owner # 0) =>
          /\ LaunchedAnchored(procs[pid].args)
          /\ \E s \in Sessions : seen[s].owner # 0 /\ seen[s].root

StopDecided ==
    Stopping =>
        /\ stopping.pid \in DOMAIN procs
        /\ procs[stopping.pid].repo = stopping.repo
        /\ GatesPassed(stopping.seen, stopping.pid)

SafetyInv ==
    /\ TypeOK
    /\ VisitsEntries
    /\ OwnersKnown
    /\ SupervisorsKnown
    /\ StopDecided

----
(* Reading the machine. *)

LEMMA ReadingsFacts ==
    ASSUME NEW r \in Repos, NEW read \in Readings(r)
    PROVE  read \subseteq LiveSessions(r) /\ read \subseteq Sessions
  BY DEF Readings, LiveSessions

LEMMA CensusFacts ==
    ASSUME TypeOK, NEW r \in Repos, NEW read \in Readings(r)
    PROVE  /\ Census(r, read) \in Censuses
           /\ Census(r, read).total = 0 <=> read = {}
           /\ Census(r, read).anchored <=> \E s \in read : sess[r][s].root
           /\ AllQuiet(r, read) \in BOOLEAN
           /\ SessionView(r, read) \in [Sessions -> SessionStates]
  <1>1. read \subseteq Sessions
    BY ReadingsFacts
  <1>2. IsFiniteSet(read)
    BY <1>1, MachineAssumption, FS_Subset
  <1>3. IsFiniteSet({s \in read : sess[r][s].turns})
    BY <1>2, FS_Subset
  <1>4. /\ Cardinality(read) \in Nat
        /\ Cardinality({s \in read : sess[r][s].turns}) \in Nat
        /\ Cardinality(read) = 0 <=> read = {}
    BY <1>2, <1>3, FS_CardinalityType, FS_EmptySet
  <1>5. SessionView(r, read) \in [Sessions -> SessionStates]
    BY DEF TypeOK, MachineTypeOK, SessionView, SessionStates, NoSession
  <1>6. AllQuiet(r, read) \in BOOLEAN
    BY DEF AllQuiet
  <1> QED
    BY <1>4, <1>5, <1>6 DEF Census, Censuses

(* A stop that passes the gates on a live supervisor passes them on its      *)
(* process: a supervisor record and its process agree on the argv.           *)
LEMMA GatesOnProcess ==
    ASSUME SafetyInv, NEW r \in Repos, NEW read \in Readings(r), NEW sr \in Entities,
           sr = fleet[r],
           Running(sr.supervisor), AllQuiet(r, read),
           ~StrandsSessions(sr, Census(r, read))
    PROVE  /\ sr.supervisor.pid \in DOMAIN procs
           /\ procs[sr.supervisor.pid].repo = r
           /\ GatesPassed(SessionView(r, read), sr.supervisor.pid)
  <1>1. /\ sr.supervisor.pid \in DOMAIN procs
        /\ procs[sr.supervisor.pid].repo = r
        /\ procs[sr.supervisor.pid].args = sr.supervisor.launchedArgs
    BY DEF SafetyInv, SupervisorsKnown
  <1>2. \A s \in Sessions : SessionView(r, read)[s].owner # 0 =>
            s \in read /\ SessionView(r, read)[s] = sess[r][s]
    BY DEF SessionView, NoSession
  <1>3. \A s \in read : /\ SessionView(r, read)[s] = sess[r][s]
                        /\ s \in Sessions /\ s \in LiveSessions(r)
    BY ReadingsFacts DEF SessionView
  <1>4. \A s \in read : SessionView(r, read)[s].owner # 0
    <2> SUFFICES ASSUME NEW s \in read PROVE sess[r][s].owner # 0
      BY <1>3
    <2>1. sess[r][s].owner \in DOMAIN procs
      BY <1>3 DEF LiveSessions, LivePid
    <2>2. DOMAIN procs = 1..(nextPid - 1)
      BY DEF SafetyInv, TypeOK, MachineTypeOK
    <2> QED
      BY <2>1, <2>2, SMT
  <1>5. \A s \in Sessions : SessionView(r, read)[s].owner # 0 => SessionView(r, read)[s].quiet
    BY <1>2 DEF AllQuiet
  <1>6. ASSUME \E s \in Sessions : SessionView(r, read)[s].owner # 0
        PROVE  /\ LaunchedAnchored(procs[sr.supervisor.pid].args)
               /\ \E s \in Sessions :
                     SessionView(r, read)[s].owner # 0 /\ SessionView(r, read)[s].root
    <2>1. read # {}
      BY <1>2, <1>6
    <2>2. Census(r, read).total > 0
      BY <2>1, CensusFacts DEF SafetyInv, Censuses
    <2>3. LaunchedAnchored(sr.supervisor.launchedArgs) /\ Census(r, read).anchored
      BY <2>2 DEF StrandsSessions
    <2>4. \E s \in read : sess[r][s].root
      BY <2>3, CensusFacts DEF SafetyInv
    <2> QED
      BY <1>1, <1>3, <1>4, <2>3, <2>4
  <1> QED
    BY <1>1, <1>5, <1>6 DEF GatesPassed

----
(* What the steps of the machine leave standing. *)

ProcsTypeOK == procs \in [1..(nextPid - 1) -> Processes]
SessTypeOK == sess \in [Repos -> [Sessions -> SessionStates]]

\* Processes are only added, and keep their directory and argv.
ProcsKept ==
    \A pid \in DOMAIN procs :
        /\ pid \in DOMAIN procs'
        /\ procs'[pid].repo = procs[pid].repo
        /\ procs'[pid].args = procs[pid].args

LEMMA EndsFacts ==
    ASSUME TypeOK, OwnersKnown, NEW pid \in DOMAIN procs,
           NEW how \in {"died", "stopped"}, Ends(pid, how), nextPid' = nextPid
    PROVE  ProcsTypeOK' /\ SessTypeOK' /\ ProcsKept /\ OwnersKnown'
  <1>1. procs \in [1..(nextPid - 1) -> Processes] /\ sess \in [Repos -> [Sessions -> SessionStates]]
    BY DEF TypeOK, MachineTypeOK
  <1>2. procs' = [procs EXCEPT ![pid].state = how, ![pid].starting = FALSE,
                               ![pid].version = 0, ![pid].created = 0]
    BY DEF Ends
  <1>3. procs[pid] \in Processes /\ pid \in 1..(nextPid - 1)
    BY <1>1
  <1>4. ProcsTypeOK' /\ ProcsKept
    BY <1>1, <1>2, <1>3 DEF ProcsTypeOK, ProcsKept, Processes
  <1>5. \A r \in Repos, s \in Sessions : sess'[r][s] \in {sess[r][s], NoSession}
    <2>1. procs[pid].repo \in Repos
      BY <1>3 DEF Processes
    <2> QED
      BY <1>1, <2>1 DEF Ends
  <1>6. SessTypeOK'
    <2>1. /\ NoSession \in SessionStates
          /\ sess' = [sess EXCEPT ![procs[pid].repo] =
                        [s \in Sessions |->
                            IF s \in SessionsUnder(pid) /\ ~EnvironmentSurvives(pid)
                            THEN NoSession ELSE sess[procs[pid].repo][s]]]
      BY DEF Ends, NoSession, SessionStates
    <2> QED
      BY <1>1, <2>1 DEF SessTypeOK
  <1>7. ASSUME NEW q \in Repos, NEW s \in Sessions, sess'[q][s].owner # 0
        PROVE  /\ sess'[q][s].owner \in DOMAIN procs'
               /\ procs'[sess'[q][s].owner].repo = q
    <2>1. sess'[q][s] = sess[q][s] /\ sess[q][s].owner # 0
      BY <1>5, <1>7 DEF NoSession
    <2>2. sess[q][s].owner \in DOMAIN procs /\ procs[sess[q][s].owner].repo = q
      BY <2>1 DEF OwnersKnown
    <2> QED
      BY <1>4, <2>1, <2>2 DEF ProcsKept
  <1>8. OwnersKnown'
    BY <1>7 DEF OwnersKnown
  <1> QED
    BY <1>4, <1>6, <1>8

LEMMA StartsFacts ==
    ASSUME TypeOK, NEW r \in Repos, NEW version \in Nat, NEW args \in Argvs,
           Starts(r, version, args)
    PROVE  /\ ProcsTypeOK' /\ ProcsKept
           /\ nextPid' \in 1..(MaxPid + 1)
           /\ nextPid \in DOMAIN procs'
           /\ procs'[nextPid].repo = r
           /\ procs'[nextPid].args = args
  <1>1. /\ procs \in [1..(nextPid - 1) -> Processes]
        /\ nextPid \in 1..(MaxPid + 1) /\ MaxPid \in Nat /\ now \in Nat
    BY MachineAssumption DEF TypeOK, MachineTypeOK
  <1>2. /\ nextPid' = nextPid + 1 /\ nextPid <= MaxPid
        /\ DOMAIN procs' = 1..nextPid
        /\ procs'[nextPid] = [state |-> "live", repo |-> r, version |-> version,
                              args |-> args, created |-> now, starting |-> TRUE]
        /\ \A pid \in 1..nextPid : pid # nextPid => procs'[pid] = procs[pid]
    BY <1>1 DEF Starts
  <1>3. procs'[nextPid] \in Processes
    BY <1>1, <1>2 DEF Processes
  <1>4. ASSUME NEW pid \in 1..nextPid PROVE procs'[pid] \in Processes
    <2>1. CASE pid = nextPid
      BY <1>3, <2>1
    <2>2. CASE pid # nextPid
      <3>1. pid \in 1..(nextPid - 1)
        BY <1>1, <2>2
      <3> QED
        BY <1>1, <1>2, <2>2, <3>1
    <2> QED
      BY <2>1, <2>2
  <1>5. procs' = [pid \in 1..nextPid |-> procs'[pid]]
    BY DEF Starts
  <1> QED
    BY <1>1, <1>2, <1>4, <1>5 DEF ProcsTypeOK, ProcsKept

(* The sessions of one directory change, each to nothing, to itself or to a  *)
(* session of a process of that directory.                                   *)
LEMMA SessionsFacts ==
    ASSUME TypeOK, OwnersKnown, ProcsKept, NEW r \in Repos,
           NEW new \in [Sessions -> SessionStates],
           sess' = [sess EXCEPT ![r] = new],
           \A s \in Sessions :
              \/ new[s].owner \in {0, sess[r][s].owner}
              \/ new[s].owner \in DOMAIN procs /\ procs[new[s].owner].repo = r
    PROVE  SessTypeOK' /\ OwnersKnown'
  <1>1. sess \in [Repos -> [Sessions -> SessionStates]]
    BY DEF TypeOK, MachineTypeOK
  <1>2. SessTypeOK'
    BY <1>1 DEF SessTypeOK
  <1>3. ASSUME NEW q \in Repos, NEW s \in Sessions, sess'[q][s].owner # 0
        PROVE  /\ sess'[q][s].owner \in DOMAIN procs'
               /\ procs'[sess'[q][s].owner].repo = q
    <2>1. sess'[q][s] = IF q = r THEN new[s] ELSE sess[q][s]
      BY <1>1
    <2>2. sess'[q][s].owner \in DOMAIN procs /\ procs[sess'[q][s].owner].repo = q
      BY <1>3, <2>1 DEF OwnersKnown
    <2> QED
      BY <2>2 DEF ProcsKept
  <1> QED
    BY <1>2, <1>3 DEF OwnersKnown

(* Connecting: the three ways leave the sessions well formed. *)
LEMMA ConnectFacts ==
    ASSUME TypeOK, OwnersKnown, NEW pid \in DOMAIN procs, Connect(pid)
    PROVE  ProcsTypeOK' /\ SessTypeOK' /\ ProcsKept /\ OwnersKnown'
  <1> DEFINE r == procs[pid].repo
  <1>1. /\ procs \in [1..(nextPid - 1) -> Processes] /\ nextPid' = nextPid
        /\ sess \in [Repos -> [Sessions -> SessionStates]]
        /\ procs' = [procs EXCEPT ![pid].starting = FALSE]
    BY DEF TypeOK, MachineTypeOK, Connect
  <1>2. procs[pid] \in Processes /\ r \in Repos /\ pid \in Nat
    BY <1>1 DEF Processes
  <1>3. ProcsTypeOK' /\ ProcsKept
    BY <1>1, <1>2 DEF ProcsTypeOK, ProcsKept, Processes
  <1>4. NoSession \in SessionStates /\ NoSession.owner = 0
    BY DEF NoSession, SessionStates
  <1>5. ASSUME NEW s \in Sessions
        PROVE  /\ Reattached(pid, s) \in SessionStates
               /\ Reattached(pid, s).owner = pid
    <2>1. sess[r][s] \in SessionStates
      BY <1>1, <1>2
    <2>2. Reattached(pid, s) = [sess[r][s] EXCEPT !.owner = pid, !.quiet = FALSE]
      BY DEF Reattached
    <2> HIDE DEF r
    <2> QED
      BY <1>2, <2>1, <2>2 DEF SessionStates
  <1>6. FreshAnchor(pid) \in SessionStates /\ FreshAnchor(pid).owner = pid
    BY <1>2 DEF FreshAnchor, SessionStates
  <1>7. ASSUME NEW new \in [Sessions -> SessionStates],
               sess' = [sess EXCEPT ![r] = new],
               \A s \in Sessions : new[s] = sess[r][s] \/ new[s].owner \in {0, pid}
        PROVE  SessTypeOK' /\ OwnersKnown'
    <2>1. \A s \in Sessions :
              \/ new[s].owner \in {0, sess[r][s].owner}
              \/ new[s].owner \in DOMAIN procs /\ procs[new[s].owner].repo = r
      BY <1>7
    <2> HIDE DEF r
    <2> QED
      BY <1>2, <1>3, <1>7, <2>1, SessionsFacts
  <1> HIDE DEF r
  <1>8. CASE ConnectAfresh(pid)
    <2> DEFINE new == [s \in Sessions |-> IF s \in Detached(r) THEN NoSession ELSE sess[r][s]]
    <2>1. sess' = [sess EXCEPT ![r] = new]
      BY <1>8, <1>1, <1>2 DEF ConnectAfresh, r
    <2>2. /\ new \in [Sessions -> SessionStates]
          /\ \A s \in Sessions : new[s] = sess[r][s] \/ new[s].owner \in {0, pid}
      BY <1>1, <1>2, <1>4
    <2> QED
      BY <2>1, <2>2, <1>3, <1>7
  <1>9. CASE Reconnect(pid)
    <2> DEFINE new == [s \in Sessions |->
                          IF s \in Detached(r) THEN Reattached(pid, s) ELSE sess[r][s]]
    <2>1. sess' = [sess EXCEPT ![r] = new]
      BY <1>9, <1>1, <1>2 DEF Reconnect, r
    <2>2. /\ new \in [Sessions -> SessionStates]
          /\ \A s \in Sessions : new[s] = sess[r][s] \/ new[s].owner \in {0, pid}
      BY <1>1, <1>2, <1>5
    <2> QED
      BY <2>1, <2>2, <1>3, <1>7
  <1>10. CASE ReconnectFails(pid)
    <2> DEFINE new == [s \in Sessions |->
                          IF s \in Detached(r) /\ ~sess[r][s].root
                          THEN Reattached(pid, s) ELSE sess[r][s]]
    <2>1. sess' = [sess EXCEPT ![r] = new]
      BY <1>10, <1>1, <1>2 DEF ReconnectFails, r
    <2>2. /\ new \in [Sessions -> SessionStates]
          /\ \A s \in Sessions : new[s] = sess[r][s] \/ new[s].owner \in {0, pid}
      BY <1>1, <1>2, <1>5
    <2> QED
      BY <2>1, <2>2, <1>3, <1>7
  <1>11. CASE CreateAnchor(pid)
    <2>1. CASE UNCHANGED sess
      BY <2>1, <1>1, <1>3 DEF OwnersKnown, ProcsKept, SessTypeOK
    <2>2. ASSUME NEW t \in Sessions \ LiveSessions(r),
                 sess' = [sess EXCEPT ![r][t] = FreshAnchor(pid)]
          PROVE  SessTypeOK' /\ OwnersKnown'
      <3> DEFINE new == [sess[r] EXCEPT ![t] = FreshAnchor(pid)]
      <3>1. /\ sess' = [sess EXCEPT ![r] = new]
            /\ new \in [Sessions -> SessionStates]
            /\ \A s \in Sessions : new[s] = sess[r][s] \/ new[s].owner \in {0, pid}
        BY <1>1, <1>2, <1>6, <2>2
      <3> HIDE DEF new
      <3> QED
        BY <3>1, <1>7
    <2> QED
      BY <1>3, <1>11, <2>1, <2>2 DEF CreateAnchor, r
  <1> QED
    BY <1>3, <1>8, <1>9, <1>10, <1>11 DEF Connect

----
(* The invariant implies the property: the sessions that were read are the   *)
(* stopping process's own, so the one in the repo root among them is what    *)
(* its environment survives by.                                              *)
LEMMA GatesSuffice ==
    ASSUME SafetyInv PROVE StopIsSafe
  <1> DEFINE p == stopping.pid
             r == stopping.repo
  <1> SUFFICES ASSUME AsDecided
               PROVE  /\ \A s \in ReadByStop : sess[r][s].quiet
                      /\ ReadByStop # {} => EnvironmentSurvives(p)
    BY DEF StopIsSafe
  <1>1. /\ p \in ProcessesOf(r) /\ \A q \in ProcessesOf(r) : q = p
        /\ \A s \in ReadByStop : s \in LiveSessions(r) /\ sess[r][s] = stopping.seen[s]
        /\ Stopping
    BY DEF AsDecided
  <1>2. p # 0 /\ stopping \in Stops /\ r \in Repos
    BY <1>1 DEF Stopping, SafetyInv, TypeOK, NoStop, Stops
  <1>3. LivePid(p) /\ procs[p].repo = r
    BY <1>1 DEF ProcessesOf
  <1>4. GatesPassed(stopping.seen, p)
    BY <1>1 DEF SafetyInv, StopDecided
  <1>5. \A s \in ReadByStop : s \in Sessions
    BY DEF ReadByStop
  <1>6. ASSUME NEW s \in ReadByStop
        PROVE  stopping.seen[s].owner # 0 /\ s \in SessionsUnder(p)
    <2>1. LivePid(sess[r][s].owner) /\ sess[r][s] = stopping.seen[s]
      BY <1>1 DEF LiveSessions
    <2>2. DOMAIN procs = 1..(nextPid - 1)
      BY DEF SafetyInv, TypeOK, MachineTypeOK
    <2>3. sess[r][s].owner # 0
      BY <2>1, <2>2, SMT DEF LivePid
    <2>4. sess[r][s].owner \in ProcessesOf(r)
      BY <1>2, <1>5, <2>1, <2>3 DEF SafetyInv, OwnersKnown, ProcessesOf
    <2> QED
      BY <1>1, <1>3, <1>5, <2>1, <2>3, <2>4 DEF SessionsUnder
  <1>7. \A s \in Sessions : stopping.seen[s].owner # 0 => s \in ReadByStop
    BY DEF ReadByStop, NoSession
  <1> HIDE DEF p, r
  <1>8. \A s \in ReadByStop : sess[r][s].quiet
    BY <1>1, <1>4, <1>5, <1>6 DEF GatesPassed
  <1>9. ASSUME ReadByStop # {} PROVE EnvironmentSurvives(p)
    <2>1. \E s \in Sessions : stopping.seen[s].owner # 0
      BY <1>5, <1>6, <1>9
    <2>2. /\ LaunchedAnchored(procs[p].args)
          /\ \E s \in Sessions : stopping.seen[s].owner # 0 /\ stopping.seen[s].root
      BY <1>4, <2>1 DEF GatesPassed
    <2>3. \E s \in SessionsUnder(p) : sess[r][s].root
      BY <1>1, <1>6, <1>7, <2>2
    <2> QED
      BY <1>3, <2>2, <2>3 DEF EnvironmentSurvives
  <1> QED
    BY <1>8, <1>9

----
(* The steps of the machine. *)

\* A step that leaves the daemon's own state alone.
LEMMA MachineKeeps ==
    ASSUME SafetyInv, MachineTypeOK', ProcsKept, OwnersKnown',
           UNCHANGED << phase, pass, fleet, stopping, binaryVersion, pendingRollout,
                        anchorSwaps, trips, guessed >>,
           notice' \in Notices
    PROVE  SafetyInv'
  <1>1. TypeOK'
    BY DEF SafetyInv, TypeOK
  <1>2. VisitsEntries'
    BY DEF SafetyInv, VisitsEntries, EntryOf
  <1>3. SupervisorsKnown'
    BY DEF SafetyInv, SupervisorsKnown, ProcsKept
  <1>4. StopDecided'
    <2> SUFFICES ASSUME Stopping'
                 PROVE  /\ stopping.pid \in DOMAIN procs'
                        /\ procs'[stopping.pid].repo = stopping.repo
                        /\ GatesPassed(stopping.seen, stopping.pid)'
      BY DEF StopDecided
    <2>1. /\ stopping.pid \in DOMAIN procs
          /\ procs[stopping.pid].repo = stopping.repo
          /\ GatesPassed(stopping.seen, stopping.pid)
      BY DEF SafetyInv, StopDecided, Stopping
    <2> QED
      BY <2>1 DEF ProcsKept, GatesPassed
  <1> QED
    BY <1>1, <1>2, <1>3, <1>4 DEF SafetyInv

\* A step that leaves the machine alone.
LEMMA MachineStands ==
    ASSUME SafetyInv, UNCHANGED machineVars
    PROVE  MachineTypeOK' /\ OwnersKnown' /\ ProcsKept
  BY DEF SafetyInv, TypeOK, MachineTypeOK, OwnersKnown, ProcsKept, machineVars

LEMMA MachineTypes ==
    ASSUME SafetyInv, MachineNext
    PROVE  MachineTypeOK' /\ ProcsKept /\ OwnersKnown'
  <1> USE DEF SafetyInv
  <1>1. MachineTypeOK /\ OwnersKnown
    BY DEF TypeOK
  <1>2. ASSUME UNCHANGED << procs, nextPid, sess >>
        PROVE  ProcsKept /\ OwnersKnown'
    BY <1>1, <1>2 DEF ProcsKept, OwnersKnown
  <1>3. ASSUME ProcsTypeOK', SessTypeOK', nextPid' \in 1..(MaxPid + 1),
               UNCHANGED << now, registry, trusted, present, binary >>
        PROVE  MachineTypeOK'
    BY <1>1, <1>3 DEF MachineTypeOK, ProcsTypeOK, SessTypeOK
  <1>4. ASSUME UNCHANGED << procs, nextPid >>
        PROVE  ProcsTypeOK' /\ ProcsKept /\ nextPid' \in 1..(MaxPid + 1)
    BY <1>1, <1>4 DEF MachineTypeOK, ProcsTypeOK, ProcsKept
  <1>5. CASE Advance
    BY <1>1, <1>2, <1>5, MachineAssumption DEF Advance, MachineTypeOK
  <1>6. CASE Release
    BY <1>1, <1>2, <1>6, MachineAssumption DEF Release, MachineTypeOK
  <1>7. ASSUME NEW pid \in DOMAIN procs, Die(pid)
        PROVE  MachineTypeOK' /\ ProcsKept /\ OwnersKnown'
    <2>1. /\ Ends(pid, "died") /\ nextPid' = nextPid
          /\ UNCHANGED << now, registry, trusted, present, binary >>
      BY <1>7 DEF Die
    <2>2. ProcsTypeOK' /\ SessTypeOK' /\ ProcsKept /\ OwnersKnown'
      BY <1>1, <2>1, EndsFacts
    <2> QED
      BY <1>1, <1>3, <2>1, <2>2 DEF MachineTypeOK
  <1>8. ASSUME NEW pid \in DOMAIN procs, Connect(pid)
        PROVE  MachineTypeOK' /\ ProcsKept /\ OwnersKnown'
    <2>1. nextPid' = nextPid /\ UNCHANGED << now, registry, trusted, present, binary >>
      BY <1>8 DEF Connect
    <2>2. ProcsTypeOK' /\ SessTypeOK' /\ ProcsKept /\ OwnersKnown'
      BY <1>1, <1>8, ConnectFacts
    <2> QED
      BY <1>1, <1>3, <2>1, <2>2 DEF MachineTypeOK
  (* A single session changes. *)
  <1>9. ASSUME NEW r \in Repos, NEW s \in Sessions, NEW new \in SessionStates,
               new.owner \in {0, sess[r][s].owner}
                  \/ (new.owner \in DOMAIN procs /\ procs[new.owner].repo = r),
               sess' = [sess EXCEPT ![r][s] = new],
               UNCHANGED << now, procs, nextPid, registry, trusted, present, binary >>
        PROVE  MachineTypeOK' /\ ProcsKept /\ OwnersKnown'
    <2> DEFINE all == [sess[r] EXCEPT ![s] = new]
    <2>1. /\ all \in [Sessions -> SessionStates]
          /\ sess' = [sess EXCEPT ![r] = all]
          /\ \A t \in Sessions : all[t] = IF t = s THEN new ELSE sess[r][t]
      BY <1>1, <1>9 DEF MachineTypeOK
    <2>2. ProcsTypeOK' /\ ProcsKept /\ nextPid' \in 1..(MaxPid + 1)
      BY <1>4, <1>9
    <2> HIDE DEF all
    <2>3. \A t \in Sessions :
              \/ all[t].owner \in {0, sess[r][t].owner}
              \/ all[t].owner \in DOMAIN procs /\ procs[all[t].owner].repo = r
      BY <1>9, <2>1
    <2>4. SessTypeOK' /\ OwnersKnown'
      BY <1>1, <2>1, <2>2, <2>3, SessionsFacts
    <2> QED
      BY <1>3, <1>9, <2>2, <2>4
  <1>10. ASSUME NEW pid \in DOMAIN procs, NEW s \in Sessions, OpenSession(pid, s)
         PROVE  MachineTypeOK' /\ ProcsKept /\ OwnersKnown'
    <2> DEFINE r == procs[pid].repo
               new == [owner |-> pid,
                       root  |-> \E i \in DOMAIN procs[pid].args :
                                     procs[pid].args[i] = "same-dir",
                       turns |-> TRUE, quiet |-> FALSE]
    <2>1. r \in Repos /\ pid \in Nat
      BY <1>1 DEF MachineTypeOK, Processes
    <2>2. new \in SessionStates /\ new.owner = pid
      BY <2>1 DEF SessionStates
    <2>3. /\ sess' = [sess EXCEPT ![r][s] = new]
          /\ UNCHANGED << now, procs, nextPid, registry, trusted, present, binary >>
      BY <1>10 DEF OpenSession
    <2> HIDE DEF new
    <2> QED
      BY <1>9, <2>1, <2>2, <2>3
  <1>11. ASSUME NEW r \in Repos, StartByHand(r)
         PROVE  MachineTypeOK' /\ ProcsKept /\ OwnersKnown'
    <2>1. /\ Starts(r, binary, BareArgs)
          /\ UNCHANGED << now, sess, registry, trusted, present, binary >>
      BY <1>11 DEF StartByHand
    <2>2. binary \in Nat /\ BareArgs \in Argvs
      BY <1>1, MachineAssumption DEF MachineTypeOK, Argvs
    <2>3. ProcsTypeOK' /\ ProcsKept /\ nextPid' \in 1..(MaxPid + 1)
      BY <2>1, <2>2, StartsFacts
    <2>4. SessTypeOK'
      BY <1>1, <2>1 DEF SessTypeOK, MachineTypeOK
    <2>5. OwnersKnown'
      BY <1>1, <2>1, <2>3 DEF OwnersKnown, ProcsKept
    <2> QED
      BY <1>3, <2>1, <2>3, <2>4, <2>5
  <1>12. ASSUME NEW r \in Repos, CmdRemove(r)
         PROVE  MachineTypeOK' /\ ProcsKept /\ OwnersKnown'
    BY <1>1, <1>2, <1>12 DEF CmdRemove, MachineTypeOK
  <1>13. ASSUME NEW r \in Repos, DirectoryMoves(r)
         PROVE  MachineTypeOK' /\ ProcsKept /\ OwnersKnown'
    BY <1>1, <1>2, <1>13 DEF DirectoryMoves, MachineTypeOK
  <1>14. ASSUME NEW r \in Repos, NEW settings \in Offered, CmdAdd(r, settings)
         PROVE  MachineTypeOK' /\ ProcsKept /\ OwnersKnown'
    BY <1>1, <1>2, <1>14, MachineAssumption DEF CmdAdd, SeedTrust, MachineTypeOK
  <1>15. ASSUME NEW r \in Repos, NEW s \in Sessions,
                TakeTurn(r, s) \/ GoQuiet(r, s) \/ EndSession(r, s)
         PROVE  MachineTypeOK' /\ ProcsKept /\ OwnersKnown'
    <2>1. sess[r][s] \in SessionStates /\ NoSession \in SessionStates /\ NoSession.owner = 0
      BY <1>1 DEF MachineTypeOK, NoSession, SessionStates
    <2>2. CASE TakeTurn(r, s)
      <3> DEFINE new == [sess[r][s] EXCEPT !.turns = TRUE, !.quiet = FALSE]
      <3>1. new \in SessionStates /\ new.owner = sess[r][s].owner
        BY <2>1 DEF SessionStates
      <3>2. sess' = [sess EXCEPT ![r][s] = new]
        BY <2>2, <1>1 DEF TakeTurn, MachineTypeOK
      <3>3. UNCHANGED << now, procs, nextPid, registry, trusted, present, binary >>
        BY <2>2 DEF TakeTurn
      <3> HIDE DEF new
      <3> QED
        BY <1>9, <3>1, <3>2, <3>3
    <2>3. CASE GoQuiet(r, s)
      <3> DEFINE new == [sess[r][s] EXCEPT !.quiet = TRUE]
      <3>1. new \in SessionStates /\ new.owner = sess[r][s].owner
        BY <2>1 DEF SessionStates
      <3>2. sess' = [sess EXCEPT ![r][s] = new]
        BY <2>3, <1>1 DEF GoQuiet, MachineTypeOK
      <3>3. UNCHANGED << now, procs, nextPid, registry, trusted, present, binary >>
        BY <2>3 DEF GoQuiet
      <3> HIDE DEF new
      <3> QED
        BY <1>9, <3>1, <3>2, <3>3
    <2>4. CASE EndSession(r, s)
      <3>1. /\ sess' = [sess EXCEPT ![r][s] = NoSession]
            /\ UNCHANGED << now, procs, nextPid, registry, trusted, present, binary >>
        BY <2>4 DEF EndSession
      <3> QED
        BY <1>9, <2>1, <3>1
    <2> QED
      BY <1>15, <2>2, <2>3, <2>4
  <1> QED
    BY <1>5, <1>6, <1>7, <1>8, <1>10, <1>11, <1>12, <1>13, <1>14, <1>15 DEF MachineNext

----
(* The steps of the daemon. *)

\* One entity changes, to one whose supervisor, if any, is a known process.
LEMMA FleetStep ==
    ASSUME SafetyInv, ProcsKept, NEW r \in Repos, NEW sr \in Entities,
           fleet' = [fleet EXCEPT ![r] = sr],
           Running(sr.supervisor) =>
               /\ sr.supervisor.pid \in DOMAIN procs'
               /\ procs'[sr.supervisor.pid].repo = r
               /\ procs'[sr.supervisor.pid].args = sr.supervisor.launchedArgs
    PROVE  fleet' \in [Repos -> Entities] /\ SupervisorsKnown'
  <1>1. fleet \in [Repos -> Entities]
    BY DEF SafetyInv, TypeOK
  <1>2. ASSUME NEW q \in Repos, Running(fleet'[q].supervisor)
        PROVE  /\ fleet'[q].supervisor.pid \in DOMAIN procs'
               /\ procs'[fleet'[q].supervisor.pid].repo = q
               /\ procs'[fleet'[q].supervisor.pid].args = fleet'[q].supervisor.launchedArgs
    <2>1. CASE q = r
      BY <1>1, <1>2, <2>1
    <2>2. CASE q # r
      BY <1>1, <1>2, <2>2 DEF SafetyInv, SupervisorsKnown, ProcsKept
    <2> QED
      BY <2>1, <2>2
  <1> QED
    BY <1>1, <1>2 DEF SupervisorsKnown

\* The supervisor of the fleet, or that supervisor with another version on its
\* label, is a known process.
LEMMA SameProcess ==
    ASSUME SafetyInv, NEW r \in Repos, NEW sup,
           \/ sup = NoSupervisor
           \/ sup = fleet[r].supervisor
           \/ SameRecord(sup, fleet[r].supervisor)
    PROVE  Running(sup) => /\ sup.pid \in DOMAIN procs
                           /\ procs[sup.pid].repo = r
                           /\ procs[sup.pid].args = sup.launchedArgs
  <1>1. fleet[r].supervisor \in Supervisors
    BY DEF SafetyInv, TypeOK, Entities
  <1>2. Running(fleet[r].supervisor) =>
            /\ fleet[r].supervisor.pid \in DOMAIN procs
            /\ procs[fleet[r].supervisor.pid].repo = r
            /\ procs[fleet[r].supervisor.pid].args = fleet[r].supervisor.launchedArgs
    BY DEF SafetyInv, SupervisorsKnown
  <1>3. ~Running(NoSupervisor)
    BY DEF Running, NoSupervisor
  <1> QED
    BY <1>1, <1>2, <1>3 DEF Running, Supervisors, SameRecord

\* The passes: what a step may make of the list of repos still to visit.
LEMMA VisitedFacts ==
    ASSUME SafetyInv, NEW r \in Repos
    PROVE  /\ Visited(r) \in Passes
           /\ Visited(r).entries = pass.entries
           /\ Visited(r).todo \subseteq pass.todo
           /\ Visited(r).spawned = pass.spawned
  BY DEF SafetyInv, TypeOK, Passes, Visited

LEMMA NoSupervisorType ==
    NoSupervisor \in Supervisors /\ ~Running(NoSupervisor)
  BY DEF NoSupervisor, Supervisors, Running, Argvs

LEMMA EntityOfType ==
    ASSUME SafetyInv, NEW r \in Repos
    PROVE  /\ EntityOf(r) \in Entities
           /\ EntityOf(r).supervisor \in {NoSupervisor, fleet[r].supervisor}
           /\ EntryOf(r) => EntityOf(r).settings \in Settings
  <1>1. /\ fleet[r] \in Entities
        /\ pass.entries[r] \in Settings \cup {NoSettings}
    BY DEF SafetyInv, TypeOK, Passes
  <1>2. NewEntity(pass.entries[r]) \in Entities
    BY <1>1, NewEntityType
  <1> QED
    BY <1>1, <1>2 DEF EntityOf, EntryOf, NewEntity, Entities

\* What plan_supervision returns, called as reconcile calls it.
LEMMA SupervisionPlanOutcome ==
    ASSUME SafetyInv, NEW r \in Repos
    PROVE  SupervisionOutcome(EntityOf(r), pass.now, SupervisionPlan(r))
  <1> DEFINE here == r \in present
             trust == r \in pass.trusted
             git == r \in Git
             alive == Alive(EntityOf(r).supervisor)
             sr == EntityOf(r)
             time == pass.now
  <1>1. time \in Nat
    BY DEF SafetyInv, TypeOK, Passes
  <1>2. /\ here \in BOOLEAN /\ trust \in BOOLEAN
        /\ git \in BOOLEAN /\ alive \in BOOLEAN
    BY DEF Alive, LivePid
  <1>3. SupervisionPlan(r) = PlanSupervision(sr, time, here, trust, git, alive)
    BY DEF SupervisionPlan
  <1>4. sr \in Entities
    BY EntityOfType
  <1> HIDE DEF here, trust, git, alive, sr, time
  <1>5. SupervisionOutcome(sr, time, PlanSupervision(sr, time, here, trust, git, alive))
    BY <1>1, <1>2, <1>4, PlanSupervisionFacts
  <1> QED
    BY <1>3, <1>5 DEF sr, time

LEMMA SupervisionPlanFacts ==
    ASSUME SafetyInv, NEW r \in Repos
    PROVE  LET plan == SupervisionPlan(r)
           IN  /\ plan.sr \in Entities
               /\ plan.sr.settings = EntityOf(r).settings
               /\ plan.sr.supervisor \in {NoSupervisor, fleet[r].supervisor}
  <1> DEFINE plan == SupervisionPlan(r)
  <1>1. SupervisionOutcome(EntityOf(r), pass.now, plan)
    BY SupervisionPlanOutcome
  <1> HIDE DEF plan
  <1>2. /\ plan.sr \in Entities
        /\ plan.sr.settings = EntityOf(r).settings
        /\ plan.sr.supervisor \in {EntityOf(r).supervisor, NoSupervisor}
    BY <1>1 DEF SupervisionOutcome
  <1> QED
    BY <1>2, EntityOfType DEF plan

LEMMA ReconcileWaitsKeeps ==
    ASSUME SafetyInv, NEW r \in Repos, ReconcileWaits(r)
    PROVE  SafetyInv'
  <1> DEFINE plan == SupervisionPlan(r)
  <1>1. /\ UNCHANGED machineVars
        /\ UNCHANGED << phase, stopping, binaryVersion, pendingRollout, anchorSwaps, guessed >>
        /\ fleet' = [fleet EXCEPT ![r] = plan.sr]
        /\ pass' = Visited(r)
        /\ notice' \in Notices
        /\ trips' \in {trips, [trips EXCEPT ![r] = Append(trips[r], pass.now)]}
    BY DEF ReconcileWaits, Notices
  <1>2. MachineTypeOK' /\ OwnersKnown' /\ ProcsKept /\ procs' = procs
    BY <1>1, MachineStands DEF machineVars
  <1>3. plan.sr \in Entities /\ plan.sr.supervisor \in {NoSupervisor, fleet[r].supervisor}
    BY SupervisionPlanFacts
  <1> HIDE DEF plan
  <1>4. Running(plan.sr.supervisor) =>
            /\ plan.sr.supervisor.pid \in DOMAIN procs'
            /\ procs'[plan.sr.supervisor.pid].repo = r
            /\ procs'[plan.sr.supervisor.pid].args = plan.sr.supervisor.launchedArgs
    BY <1>2, <1>3, SameProcess
  <1>5. fleet' \in [Repos -> Entities] /\ SupervisorsKnown'
    BY <1>1, <1>2, <1>3, <1>4, FleetStep
  <1>6. trips' \in [Repos -> Seq(Nat)]
    <2>1. trips \in [Repos -> Seq(Nat)] /\ pass.now \in Nat
      BY DEF SafetyInv, TypeOK, Passes
    <2>2. Append(trips[r], pass.now) \in Seq(Nat)
      BY <2>1, AppendProperties
    <2> QED
      BY <1>1, <2>1, <2>2
  <1>7. TypeOK'
    BY <1>1, <1>2, <1>5, <1>6, VisitedFacts DEF SafetyInv, TypeOK
  <1>8. VisitsEntries'
    BY <1>1, VisitedFacts DEF SafetyInv, VisitsEntries, EntryOf
  <1>9. StopDecided'
    BY <1>1, <1>2 DEF SafetyInv, StopDecided, Stopping, GatesPassed
  <1> QED
    BY <1>2, <1>5, <1>7, <1>8, <1>9 DEF SafetyInv

LEMMA ReconcileSpawnsKeeps ==
    ASSUME SafetyInv, NEW r \in Repos, ReconcileSpawns(r)
    PROVE  SafetyInv'
  <1> DEFINE plan == SupervisionPlan(r)
             args == RcArgs(plan.sr.settings)
             sup == Spawned(nextPid, plan.sr.settings)
             sr == [plan.sr EXCEPT !.supervisor = sup]
  <1>1. /\ UNCHANGED << now, sess, registry, trusted, present, binary, phase, stopping,
                        binaryVersion, pendingRollout, anchorSwaps, trips >>
        /\ guessed' \in SUBSET guessed
        /\ fleet' = [fleet EXCEPT ![r] = sr]
        /\ pass' = [Visited(r) EXCEPT !.spawned = Visited(r).spawned + 1]
        /\ pass.spawned < MaxSpawnsPerPass
        /\ notice' \in Notices
        /\ Starts(r, binary, args)
        /\ phase = "reconcile" /\ r \in pass.todo
    BY DEF ReconcileSpawns, Notices, Turn, MayVisit
  <1>2. plan.sr \in Entities /\ plan.sr.settings \in Settings
    BY <1>1, SupervisionPlanFacts, EntityOfType DEF SafetyInv, VisitsEntries
  <1>3. args \in Argvs /\ binary \in Nat /\ nextPid \in Nat \ {0} /\ now \in Nat
    BY <1>2, MachineAssumption DEF Argvs, SafetyInv, TypeOK, MachineTypeOK
  <1>4. /\ ProcsTypeOK' /\ ProcsKept
        /\ nextPid' \in 1..(MaxPid + 1)
        /\ nextPid \in DOMAIN procs'
        /\ procs'[nextPid].repo = r
        /\ procs'[nextPid].args = args
    BY <1>1, <1>3, StartsFacts DEF SafetyInv
  <1>5. sup \in Supervisors /\ sup.pid = nextPid /\ sup.launchedArgs = args
    BY <1>3, DaemonAssumption, MachineAssumption DEF Spawned, Supervisors, SafetyInv, TypeOK
  <1> HIDE DEF plan, sup, args
  <1>6. sr \in Entities /\ sr.supervisor = sup
    BY <1>2, <1>5 DEF Entities
  <1> HIDE DEF sr
  <1>7. fleet' \in [Repos -> Entities] /\ SupervisorsKnown'
    BY <1>1, <1>4, <1>5, <1>6, FleetStep
  <1>8. pass' \in Passes /\ pass'.entries = pass.entries /\ pass'.todo \subseteq pass.todo
    <2>1. Visited(r).spawned + 1 \in 0..MaxSpawnsPerPass
      BY <1>1, VisitedFacts, DaemonAssumption DEF SafetyInv, TypeOK, Passes
    <2> QED
      BY <1>1, <2>1, VisitedFacts DEF Passes
  <1>9. MachineTypeOK'
    BY <1>1, <1>4 DEF SafetyInv, TypeOK, MachineTypeOK, ProcsTypeOK
  <1>10. OwnersKnown'
    BY <1>1, <1>4 DEF SafetyInv, OwnersKnown, ProcsKept
  <1>11. TypeOK'
    BY <1>1, <1>7, <1>8, <1>9 DEF SafetyInv, TypeOK
  <1>12. VisitsEntries'
    BY <1>1, <1>8 DEF SafetyInv, VisitsEntries, EntryOf
  <1>13. StopDecided'
    <2> SUFFICES ASSUME Stopping PROVE /\ stopping.pid \in DOMAIN procs'
                                       /\ procs'[stopping.pid].repo = stopping.repo
                                       /\ GatesPassed(stopping.seen, stopping.pid)'
      BY <1>1 DEF StopDecided, Stopping
    <2>1. /\ stopping.pid \in DOMAIN procs
          /\ procs[stopping.pid].repo = stopping.repo
          /\ GatesPassed(stopping.seen, stopping.pid)
      BY DEF SafetyInv, StopDecided
    <2> QED
      BY <1>1, <1>4, <2>1 DEF ProcsKept, GatesPassed
  <1> QED
    BY <1>7, <1>10, <1>11, <1>12, <1>13 DEF SafetyInv

\* A stop that is decided here, or none.
LEMMA NewStop ==
    ASSUME SafetyInv, ProcsKept, NEW r \in Repos, NEW read \in Readings(r),
           NEW why \in {"drift", "retirement"},
           NEW reasons \in SUBSET {"version", "args", "anchor"},
           NEW alert \in {"none", "interrupted"},
           Running(fleet[r].supervisor), AllQuiet(r, read),
           ~StrandsSessions(fleet[r], Census(r, read)),
           stopping' = [repo |-> r, why |-> why, pid |-> fleet[r].supervisor.pid,
                        reasons |-> reasons, alert |-> alert, seen |-> SessionView(r, read)]
    PROVE  stopping' \in Stops /\ StopDecided'
  <1> DEFINE pid == fleet[r].supervisor.pid
  <1>1. fleet[r] \in Entities
    BY DEF SafetyInv, TypeOK
  <1>2. /\ pid \in DOMAIN procs /\ procs[pid].repo = r
        /\ GatesPassed(SessionView(r, read), pid)
    BY <1>1, GatesOnProcess
  <1>3. pid \in Nat \ {0} /\ SessionView(r, read) \in [Sessions -> SessionStates]
    BY <1>1, CensusFacts DEF Running, Entities, Supervisors, SafetyInv
  <1> HIDE DEF pid
  <1>4. /\ stopping'.pid = pid /\ stopping'.repo = r /\ stopping'.seen = SessionView(r, read)
        /\ stopping' \in Stops
    BY <1>3 DEF Stops, pid
  <1>5. /\ pid \in DOMAIN procs' /\ procs'[pid].repo = r
        /\ procs'[pid].args = procs[pid].args
    BY <1>2 DEF ProcsKept
  <1>6. GatesPassed(stopping.seen, stopping.pid)'
    BY <1>2, <1>4, <1>5 DEF GatesPassed
  <1> QED
    BY <1>4, <1>5, <1>6 DEF StopDecided

LEMMA NoNewStop ==
    ASSUME stopping' = NoStop
    PROVE  stopping' \in Stops \cup {NoStop} /\ StopDecided'
  BY DEF StopDecided, Stopping, NoStop

LEMMA RetireRepoKeeps ==
    ASSUME SafetyInv, NEW r \in Repos, NEW read \in Readings(r), RetireRepo(r, read)
    PROVE  SafetyInv'
  <1> DEFINE plan == RetirementPlan(r, read)
             live == Alive(fleet[r].supervisor)
             quiet == live /\ AllQuiet(r, read)
             none == [total |-> 0, working |-> 0, anchored |-> FALSE]
             census == IF live THEN Census(r, read) ELSE none
             sr == IF plan.decision = "forget"
                   THEN [plan.sr EXCEPT !.supervisor = NoSupervisor] ELSE plan.sr
  <1>1. /\ UNCHANGED machineVars
        /\ UNCHANGED << phase, binaryVersion, pendingRollout, anchorSwaps, trips, guessed >>
        /\ fleet' = [fleet EXCEPT ![r] = sr]
        /\ pass' = Visited(r)
        /\ notice' \in Notices
        /\ stopping' = IF plan.decision = "terminate"
                       THEN [repo |-> r, why |-> "retirement",
                             pid |-> fleet[r].supervisor.pid, reasons |-> {},
                             alert |-> "none", seen |-> SessionView(r, read)]
                       ELSE NoStop
    BY DEF RetireRepo, Notices
  <1>2. MachineTypeOK' /\ OwnersKnown' /\ ProcsKept /\ procs' = procs
    BY <1>1, MachineStands DEF machineVars
  <1>3. fleet[r] \in Entities /\ now \in Nat /\ pass.now \in Nat
    BY MachineAssumption DEF SafetyInv, TypeOK, MachineTypeOK, Passes
  <1>4. census \in Censuses /\ live \in BOOLEAN /\ quiet \in BOOLEAN
    BY CensusFacts DEF SafetyInv, Censuses, Alive, LivePid
  <1>5. plan = PlanRetirement(fleet[r], live, quiet, census, pass.now)
    BY DEF RetirementPlan
  <1>6. (live /\ quiet) => AllQuiet(r, read) /\ census = Census(r, read)
    OBVIOUS
  <1> HIDE DEF plan, live, quiet, census
  <1>7. /\ plan.sr \in Entities
        /\ plan.sr.supervisor = fleet[r].supervisor
        /\ plan.decision = "terminate" =>
              /\ Running(fleet[r].supervisor) /\ live /\ quiet
              /\ ~StrandsSessions(fleet[r], census)
    BY <1>3, <1>4, <1>5, PlanRetirementFacts
  <1>8. /\ sr \in Entities
        /\ sr.supervisor \in {NoSupervisor, fleet[r].supervisor}
    BY <1>7, NoSupervisorType DEF Entities
  <1> HIDE DEF sr
  <1>9. Running(sr.supervisor) =>
            /\ sr.supervisor.pid \in DOMAIN procs'
            /\ procs'[sr.supervisor.pid].repo = r
            /\ procs'[sr.supervisor.pid].args = sr.supervisor.launchedArgs
    BY <1>2, <1>8, SameProcess
  <1>10. fleet' \in [Repos -> Entities] /\ SupervisorsKnown'
    BY <1>1, <1>2, <1>8, <1>9, FleetStep
  <1>11. stopping' \in Stops \cup {NoStop} /\ StopDecided'
    <2>1. CASE plan.decision = "terminate"
      BY <1>1, <1>2, <1>6, <1>7, <2>1, NewStop
    <2>2. CASE plan.decision # "terminate"
      BY <1>1, <2>2, NoNewStop
    <2> QED
      BY <2>1, <2>2
  <1>12. TypeOK'
    BY <1>1, <1>2, <1>10, <1>11, VisitedFacts DEF SafetyInv, TypeOK
  <1>13. VisitsEntries'
    BY <1>1, VisitedFacts DEF SafetyInv, VisitsEntries, EntryOf
  <1> QED
    BY <1>2, <1>10, <1>11, <1>12, <1>13 DEF SafetyInv

LEMMA ConvergeRepoKeeps ==
    ASSUME SafetyInv, NEW r \in Repos, NEW read \in Readings(r),
           NEW probed \in 0..MaxVersion, ConvergeRepo(r, probed, read)
    PROVE  SafetyInv'
  <1> DEFINE quiet == AllQuiet(r, read)
             census == Census(r, read)
             plan == PlanDrift(fleet[r], binaryVersion, probed, quiet, census, now)
             reasons == DriftReasons(Observed(fleet[r], probed, census),
                                     binaryVersion, census, now)
  <1>1. /\ UNCHANGED machineVars
        /\ UNCHANGED << phase, binaryVersion, pendingRollout, trips >>
        /\ guessed' \in {guessed, guessed \cup {r}}
        /\ fleet' = [fleet EXCEPT ![r] = plan.sr]
        /\ pass' = Visited(r)
        /\ notice' = IF plan.decision = "defer" THEN plan.alert ELSE "none"
        /\ stopping' = IF plan.decision = "restart"
                       THEN [repo |-> r, why |-> "drift", pid |-> fleet[r].supervisor.pid,
                             reasons |-> reasons, alert |-> plan.alert,
                             seen |-> SessionView(r, read)]
                       ELSE NoStop
        /\ anchorSwaps' = [anchorSwaps EXCEPT ![r] =
                              IF census.anchored THEN 0 ELSE anchorSwaps[r]]
    BY DEF ConvergeRepo
  <1>2. MachineTypeOK' /\ OwnersKnown' /\ ProcsKept /\ procs' = procs
    BY <1>1, MachineStands DEF machineVars
  <1>3. /\ fleet[r] \in Entities /\ now \in Nat /\ probed \in Nat
        /\ binaryVersion \in Nat /\ MaxVersion \in Nat
    BY MachineAssumption DEF SafetyInv, TypeOK, MachineTypeOK
  <1>4. census \in Censuses /\ quiet \in BOOLEAN
    BY CensusFacts DEF SafetyInv
  <1>5. reasons \in SUBSET {"version", "args", "anchor"}
    BY DEF DriftReasons
  <1>6. plan = PlanDrift(fleet[r], binaryVersion, probed, quiet, census, now)
    OBVIOUS
  <1>7. quiet => AllQuiet(r, read)
    OBVIOUS
  <1> HIDE DEF plan, quiet, reasons
  <1>8. /\ plan.sr \in Entities
        /\ SameRecord(plan.sr.supervisor, fleet[r].supervisor)
        /\ plan.decision = "defer" => plan.alert \in {"none", "stuck"}
        /\ plan.decision = "restart" =>
              /\ plan.alert \in {"none", "interrupted"}
              /\ Running(fleet[r].supervisor) /\ quiet
              /\ ~StrandsSessions(fleet[r], census)
    <2> DEFINE sr == fleet[r]
    <2>1. sr \in Entities
      BY <1>3
    <2> HIDE DEF census, sr
    <2> DEFINE p == PlanDrift(sr, binaryVersion, probed, quiet, census, now)
    <2>2. p.sr \in Entities /\ SameRecord(p.sr.supervisor, sr.supervisor)
      BY <1>3, <1>4, <2>1, PlanDriftFacts
    <2>3. p.decision = "defer" => p.alert \in {"none", "stuck"}
      BY <1>3, <1>4, <2>1, PlanDriftFacts
    <2>4. p.decision = "restart" => p.alert \in {"none", "interrupted"}
      BY <1>3, <1>4, <2>1, PlanDriftFacts
    <2>5. p.decision = "restart" => /\ Running(sr.supervisor) /\ quiet
                                    /\ ~StrandsSessions(sr, census)
      BY <1>3, <1>4, <2>1, PlanDriftFacts
    <2> QED
      BY <1>6, <2>2, <2>3, <2>4, <2>5 DEF sr
  <1>9. Running(plan.sr.supervisor) =>
            /\ plan.sr.supervisor.pid \in DOMAIN procs'
            /\ procs'[plan.sr.supervisor.pid].repo = r
            /\ procs'[plan.sr.supervisor.pid].args = plan.sr.supervisor.launchedArgs
    BY <1>2, <1>8, SameProcess
  <1>10. fleet' \in [Repos -> Entities] /\ SupervisorsKnown'
    BY <1>1, <1>2, <1>8, <1>9, FleetStep
  <1>11. stopping' \in Stops \cup {NoStop} /\ StopDecided'
    <2>1. CASE plan.decision = "restart"
      BY <1>1, <1>2, <1>5, <1>7, <1>8, <2>1, NewStop
    <2>2. CASE plan.decision # "restart"
      BY <1>1, <2>2, NoNewStop
    <2> QED
      BY <2>1, <2>2
  <1>12. notice' \in Notices
    BY <1>1, <1>8 DEF Notices
  <1>13. anchorSwaps' \in [Repos -> Nat]
    BY <1>1 DEF SafetyInv, TypeOK
  <1>14. TypeOK'
    BY <1>1, <1>2, <1>10, <1>11, <1>12, <1>13, VisitedFacts DEF SafetyInv, TypeOK
  <1>15. VisitsEntries'
    BY <1>1, VisitedFacts DEF SafetyInv, VisitsEntries, EntryOf
  <1> QED
    BY <1>2, <1>10, <1>11, <1>14, <1>15 DEF SafetyInv

\* A starting daemon: every entity is new, and holds what it adopted.
LEMMA StartKeeps ==
    ASSUME SafetyInv, Start
    PROVE  SafetyInv'
  <1>1. PICK adopted \in [Repos -> 0..(nextPid - 1)] :
            /\ Adoption(adopted)
            /\ fleet' = [r \in Repos |->
                  IF adopted[r] = 0
                  THEN NewEntity(NoSettings)
                  ELSE [NewEntity(IF Registered(r) THEN registry[r] ELSE Defaults)
                            EXCEPT !.supervisor = Adopted(adopted[r])]]
    BY DEF Start
  <1>2. /\ UNCHANGED machineVars
        /\ UNCHANGED << stopping, pendingRollout, anchorSwaps, trips, guessed >>
        /\ phase' = "idle" /\ notice' = "none"
        /\ pass' = [pass EXCEPT !.entries = registry]
        /\ binaryVersion' \in {0, binary}
    BY DEF Start
  <1>3. MachineTypeOK' /\ OwnersKnown' /\ ProcsKept /\ procs' = procs
    BY <1>2, MachineStands DEF machineVars
  <1>4. MachineTypeOK
    BY DEF SafetyInv, TypeOK
  <1>5. ASSUME NEW r \in Repos
        PROVE  /\ fleet'[r] \in Entities
               /\ Running(fleet'[r].supervisor) =>
                    /\ fleet'[r].supervisor.pid \in DOMAIN procs
                    /\ procs[fleet'[r].supervisor.pid].repo = r
                    /\ procs[fleet'[r].supervisor.pid].args
                          = fleet'[r].supervisor.launchedArgs
    <2>1. CASE adopted[r] = 0
      <3>1. fleet'[r] = NewEntity(NoSettings)
        BY <1>1, <2>1
      <3> QED
        BY <3>1, NewEntityType, NoSupervisorType DEF NewEntity
    <2>2. CASE adopted[r] # 0
      <3> DEFINE pid == adopted[r]
                 new == NewEntity(IF Registered(r) THEN registry[r] ELSE Defaults)
      <3>1. pid \in DOMAIN procs /\ procs[pid].repo = r
        BY <1>1, <2>2 DEF Adoption, ProcessesOf
      <3>2. procs[pid] \in Processes /\ pid \in Nat
        BY <1>4, <3>1 DEF MachineTypeOK
      <3>3. Adopted(pid) \in Supervisors
        BY <3>2 DEF Adopted, Supervisors, Processes
      <3>4. Adopted(pid).pid = pid /\ Adopted(pid).launchedArgs = procs[pid].args
        BY DEF Adopted
      <3>5. new \in Entities
        <4>1. (IF Registered(r) THEN registry[r] ELSE Defaults) \in Settings \cup {NoSettings}
          BY <1>4, DaemonAssumption DEF MachineTypeOK
        <4> QED
          BY <4>1, NewEntityType
      <3>6. fleet'[r] = [new EXCEPT !.supervisor = Adopted(pid)]
        BY <1>1, <2>2
      <3> HIDE DEF pid, new
      <3>7. fleet'[r] \in Entities /\ fleet'[r].supervisor = Adopted(pid)
        BY <3>3, <3>5, <3>6 DEF Entities
      <3> QED
        BY <3>1, <3>4, <3>7
    <2> QED
      BY <2>1, <2>2
  <1>6. fleet' = [r \in Repos |-> fleet'[r]]
    BY <1>1
  <1>7. fleet' \in [Repos -> Entities]
    BY <1>5, <1>6
  <1>8. SupervisorsKnown'
    BY <1>3, <1>5 DEF SupervisorsKnown
  <1>9. pass' \in Passes
    BY <1>2, <1>4 DEF MachineTypeOK, SafetyInv, TypeOK, Passes
  <1>10. binaryVersion' \in 0..MaxVersion
    BY <1>2, <1>4, MachineAssumption DEF MachineTypeOK
  <1>11. TypeOK'
    BY <1>2, <1>3, <1>7, <1>9, <1>10 DEF SafetyInv, TypeOK, Phases, Notices
  <1>12. VisitsEntries'
    BY <1>2 DEF VisitsEntries
  <1>13. StopDecided'
    BY <1>2, <1>3 DEF SafetyInv, StopDecided, Stopping, GatesPassed
  <1> QED
    BY <1>3, <1>8, <1>11, <1>12, <1>13 DEF SafetyInv

LEMMA NoPassType ==
    [entries |-> [r \in Repos |-> NoSettings], now |-> 0,
     trusted |-> {}, todo |-> {}, spawned |-> 0] \in Passes
  BY DaemonAssumption DEF Passes

\* A daemon that is gone knows nothing.
LEMMA StopKeeps ==
    ASSUME SafetyInv, Stop
    PROVE  SafetyInv'
  <1>1. /\ UNCHANGED machineVars /\ UNCHANGED anchorSwaps
        /\ phase' = "down" /\ notice' = "none"
        /\ fleet' = [r \in Repos |-> NewEntity(NoSettings)]
        /\ pass' = [entries |-> [r \in Repos |-> NoSettings], now |-> 0,
                    trusted |-> {}, todo |-> {}, spawned |-> 0]
        /\ stopping' = NoStop /\ binaryVersion' = 0 /\ pendingRollout' = 0
        /\ trips' = [r \in Repos |-> << >>]
        /\ guessed' = {}
    BY DEF Stop
  <1>2. MachineTypeOK' /\ OwnersKnown'
    BY <1>1, MachineStands
  <1>3. NewEntity(NoSettings) \in Entities /\ NewEntity(NoSettings).supervisor = NoSupervisor
    BY NewEntityType DEF NewEntity
  <1>4. fleet' \in [Repos -> Entities] /\ SupervisorsKnown'
    BY <1>1, <1>3, NoSupervisorType DEF SupervisorsKnown
  <1>5. pass' \in Passes
    BY <1>1, NoPassType
  <1>6. trips' \in [Repos -> Seq(Nat)]
    BY <1>1
  <1>7. binaryVersion' \in 0..MaxVersion /\ pendingRollout' \in 0..MaxVersion
    BY <1>1, MachineAssumption
  <1>8. phase' \in Phases /\ notice' \in Notices
    BY <1>1 DEF Phases, Notices
  <1>9. /\ stopping' \in Stops \cup {NoStop} /\ anchorSwaps' \in [Repos -> Nat]
        /\ guessed' \subseteq Repos
    BY <1>1 DEF SafetyInv, TypeOK
  <1>10. TypeOK'
    BY <1>2, <1>4, <1>5, <1>6, <1>7, <1>8, <1>9 DEF TypeOK
  <1> QED
    BY <1>1, <1>2, <1>4, <1>10, NoNewStop DEF SafetyInv, VisitsEntries

\* A step that only moves the loop on, or reads a version.
LEMMA LoopKeeps ==
    ASSUME SafetyInv, MachineTypeOK', OwnersKnown', ProcsKept,
           UNCHANGED << fleet, stopping, anchorSwaps, trips, guessed >>,
           pass' \in Passes, phase' \in Phases, notice' \in Notices,
           binaryVersion' \in 0..MaxVersion, pendingRollout' \in 0..MaxVersion,
           VisitsEntries'
    PROVE  SafetyInv'
  <1>1. TypeOK'
    BY DEF SafetyInv, TypeOK
  <1>2. SupervisorsKnown'
    BY DEF SafetyInv, SupervisorsKnown, ProcsKept
  <1>3. StopDecided'
    <2> SUFFICES ASSUME Stopping
                 PROVE  /\ stopping.pid \in DOMAIN procs'
                        /\ procs'[stopping.pid].repo = stopping.repo
                        /\ GatesPassed(stopping.seen, stopping.pid)'
      BY DEF StopDecided, Stopping
    <2>1. /\ stopping.pid \in DOMAIN procs
          /\ procs[stopping.pid].repo = stopping.repo
          /\ GatesPassed(stopping.seen, stopping.pid)
      BY DEF SafetyInv, StopDecided
    <2> QED
      BY <2>1 DEF ProcsKept, GatesPassed
  <1> QED
    BY <1>1, <1>2, <1>3 DEF SafetyInv

LEMMA BeginPassKeeps ==
    ASSUME SafetyInv, NEW readable \in BOOLEAN, NEW torn \in BOOLEAN,
           BeginPass(readable, torn)
    PROVE  SafetyInv'
  <1> DEFINE entries == IF readable THEN registry ELSE pass.entries
  <1>1. /\ UNCHANGED machineVars
        /\ UNCHANGED << fleet, stopping, binaryVersion, pendingRollout, anchorSwaps, trips,
                        guessed >>
        /\ pass' = [entries |-> entries, now |-> now,
                    trusted |-> TrustSnapshot(torn),
                    todo |-> {r \in Repos : entries[r] # NoSettings}, spawned |-> 0]
        /\ phase' = "reconcile" /\ notice' = "none"
    BY DEF BeginPass
  <1>2. MachineTypeOK' /\ OwnersKnown' /\ ProcsKept
    BY <1>1, MachineStands
  <1>3. /\ entries \in [Repos -> Settings \cup {NoSettings}]
        /\ now \in Nat
    BY MachineAssumption DEF SafetyInv, TypeOK, MachineTypeOK, Passes
  <1>6. TrustSnapshot(torn) \in SUBSET Repos
    <2>1. trusted \in SUBSET Repos
      BY DEF SafetyInv, TypeOK, MachineTypeOK
    <2> QED
      BY <2>1 DEF TrustSnapshot
  <1> HIDE DEF entries
  <1>4. pass' \in Passes
    BY <1>1, <1>3, <1>6, DaemonAssumption DEF Passes
  <1>5. VisitsEntries'
    BY <1>1 DEF VisitsEntries, EntryOf
  <1> QED
    BY <1>1, <1>2, <1>4, <1>5, LoopKeeps DEF SafetyInv, TypeOK, Phases, Notices

\* The version that was read is one of the releases.
LEMMA RefreshFacts ==
    ASSUME SafetyInv, NEW version \in 0..MaxVersion, RefreshBinaryVersion(version)
    PROVE  binaryVersion' \in 0..MaxVersion /\ pendingRollout' \in 0..MaxVersion
  BY DEF RefreshBinaryVersion, SafetyInv, TypeOK

LEMMA LoopStepKeeps ==
    ASSUME SafetyInv,
           \/ EndReconcile \/ SkipTick \/ EndTick \/ EndPass \/ NightlyUpdates \/ NightlyFails
           \/ PassFails
           \/ \E version \in 0..MaxVersion : BeginTick(version)
           \/ \E r \in Repos : ConvergeSkips(r)
    PROVE  SafetyInv'
  <1>1. pass \in Passes /\ MachineTypeOK
        /\ binaryVersion \in 0..MaxVersion /\ pendingRollout \in 0..MaxVersion
    BY DEF SafetyInv, TypeOK
  <1>2. CASE EndReconcile
    <2>1. /\ UNCHANGED machineVars
          /\ UNCHANGED << fleet, stopping, binaryVersion, pendingRollout, anchorSwaps, trips,
                        guessed >>
          /\ phase' = "retire" /\ notice' = "none"
          /\ pass' = [pass EXCEPT !.trusted = {}, !.spawned = 0, !.todo =
                          {r \in Repos : ~EntryOf(r) /\ Running(fleet[r].supervisor)}]
      BY <1>2 DEF EndReconcile
    <2> DEFINE left == {r \in Repos : ~EntryOf(r) /\ Running(fleet[r].supervisor)}
    <2>2. /\ pass' = [pass EXCEPT !.trusted = {}, !.spawned = 0, !.todo = left]
          /\ left \subseteq Repos /\ 0 \in 0..MaxSpawnsPerPass
      BY <2>1, DaemonAssumption
    <2> HIDE DEF left
    <2>3. pass' \in Passes
      BY <1>1, <2>2 DEF Passes
    <2>4. VisitsEntries'
      BY <2>1 DEF VisitsEntries
    <2> QED
      BY <1>1, <2>1, <2>3, <2>4, MachineStands, LoopKeeps DEF Phases, Notices
  <1>3. CASE SkipTick
    <2>1. /\ UNCHANGED machineVars
          /\ UNCHANGED << fleet, stopping, binaryVersion, pendingRollout, anchorSwaps, trips,
                        guessed >>
          /\ phase' = "wrapup" /\ notice' = "none"
          /\ pass' = [pass EXCEPT !.now = 0]
      BY <1>3 DEF SkipTick
    <2>2. pass' \in Passes
      BY <1>1, <2>1 DEF Passes
    <2>3. VisitsEntries'
      BY <2>1 DEF VisitsEntries
    <2> QED
      BY <1>1, <2>1, <2>2, <2>3, MachineStands, LoopKeeps DEF Phases, Notices
  <1>4. CASE EndTick
    <2>1. /\ UNCHANGED machineVars
          /\ UNCHANGED << pass, fleet, stopping, binaryVersion, anchorSwaps, trips, guessed >>
          /\ phase' = "wrapup" /\ notice' \in {"fleet updated", "none"}
          /\ pendingRollout' \in {0, pendingRollout}
      BY <1>4 DEF EndTick
    <2>2. VisitsEntries'
      BY <2>1 DEF VisitsEntries
    <2>3. pendingRollout' \in 0..MaxVersion
      <3>1. 0 \in 0..MaxVersion
        BY MachineAssumption
      <3> QED
        BY <1>1, <2>1, <3>1
    <2> QED
      BY <1>1, <2>1, <2>2, <2>3, MachineStands, LoopKeeps DEF Phases, Notices
  <1>5. CASE EndPass
    <2>1. /\ UNCHANGED machineVars
          /\ UNCHANGED << pass, fleet, stopping, binaryVersion, pendingRollout,
                          anchorSwaps, trips, guessed >>
          /\ phase' = "idle" /\ notice' = "none"
      BY <1>5 DEF EndPass
    <2>2. VisitsEntries'
      BY <2>1 DEF VisitsEntries
    <2> QED
      BY <1>1, <2>1, <2>2, MachineStands, LoopKeeps DEF Phases, Notices
  <1>9. CASE NightlyFails
    <2>1. /\ UNCHANGED machineVars
          /\ UNCHANGED << pass, fleet, stopping, binaryVersion, pendingRollout,
                          anchorSwaps, trips, guessed >>
          /\ phase' = "idle" /\ notice' = "update failed"
      BY <1>9 DEF NightlyFails
    <2>2. VisitsEntries'
      BY <2>1 DEF VisitsEntries
    <2> QED
      BY <1>1, <2>1, <2>2, MachineStands, LoopKeeps DEF Phases, Notices
  <1>6. CASE NightlyUpdates
    <2>1. /\ UNCHANGED << now, procs, nextPid, sess, registry, trusted, present >>
          /\ UNCHANGED << pass, fleet, stopping, anchorSwaps, trips, guessed >>
          /\ phase' = "idle" /\ notice' \in {"none", "update failed"}
          /\ binary' \in {v \in {binary, binary + 1} : v <= MaxVersion}
          /\ RefreshBinaryVersion(binary')
      BY <1>6 DEF NightlyUpdates
    <2>2. binary' \in 1..MaxVersion
      <3>1. MaxVersion \in Nat /\ binary \in 1..MaxVersion
        BY <1>1, MachineAssumption DEF MachineTypeOK
      <3>2. (binary' = binary \/ binary' = binary + 1) /\ binary' <= MaxVersion
        BY <2>1
      <3> QED
        BY <3>1, <3>2
    <2>3. MachineTypeOK'
      BY <1>1, <2>1, <2>2 DEF MachineTypeOK
    <2>4. OwnersKnown' /\ ProcsKept /\ VisitsEntries'
      BY <2>1 DEF SafetyInv, OwnersKnown, ProcsKept, VisitsEntries
    <2>5. binary' \in 0..MaxVersion
      BY <2>2
    <2>6. binaryVersion' \in 0..MaxVersion /\ pendingRollout' \in 0..MaxVersion
      BY <2>1, <2>5, RefreshFacts
    <2> QED
      BY <1>1, <2>1, <2>3, <2>4, <2>6, LoopKeeps DEF Phases, Notices
  <1>7. ASSUME NEW version \in 0..MaxVersion, BeginTick(version) PROVE SafetyInv'
    <2>1. /\ UNCHANGED machineVars
          /\ UNCHANGED << fleet, stopping, anchorSwaps, trips, guessed >>
          /\ phase' = "tick" /\ notice' = "none"
          /\ pass' = [pass EXCEPT !.now = 0, !.todo = {r \in Repos : EntryOf(r)}]
          /\ RefreshBinaryVersion(version)
      BY <1>7 DEF BeginTick
    <2>2. pass' \in Passes
      BY <1>1, <2>1 DEF Passes
    <2>3. VisitsEntries'
      BY <1>1, <2>1 DEF VisitsEntries, EntryOf, Passes
    <2>4. binaryVersion' \in 0..MaxVersion /\ pendingRollout' \in 0..MaxVersion
      BY <2>1, RefreshFacts
    <2> QED
      BY <2>1, <2>2, <2>3, <2>4, MachineStands, LoopKeeps DEF Phases, Notices
  <1>8. ASSUME NEW r \in Repos, ConvergeSkips(r) PROVE SafetyInv'
    <2>1. /\ UNCHANGED machineVars
          /\ UNCHANGED << phase, fleet, stopping, binaryVersion, pendingRollout,
                          anchorSwaps, trips, guessed >>
          /\ notice' = "none" /\ pass' = Visited(r)
      BY <1>8 DEF ConvergeSkips
    <2>2. phase' \in Phases
      BY <2>1 DEF SafetyInv, TypeOK
    <2>3. VisitsEntries'
      BY <2>1, VisitedFacts DEF SafetyInv, VisitsEntries, EntryOf
    <2> QED
      BY <1>1, <2>1, <2>2, <2>3, VisitedFacts, MachineStands, LoopKeeps DEF Notices
  <1>10. CASE PassFails
    <2>1. /\ UNCHANGED machineVars
          /\ UNCHANGED << fleet, stopping, binaryVersion, pendingRollout, anchorSwaps, trips,
                        guessed >>
          /\ phase' = "idle" /\ notice' = "none"
          /\ pass' = [pass EXCEPT !.now = 0, !.trusted = {}, !.todo = {}, !.spawned = 0]
      BY <1>10 DEF PassFails
    <2>2. pass' \in Passes
      <3>1. 0 \in 0..MaxSpawnsPerPass /\ 0 \in Nat /\ {} \in SUBSET Repos
        BY DaemonAssumption
      <3> QED
        BY <1>1, <2>1, <3>1 DEF Passes
    <2>3. VisitsEntries'
      BY <2>1 DEF VisitsEntries
    <2> QED
      BY <1>1, <2>1, <2>2, <2>3, MachineStands, LoopKeeps DEF Phases, Notices
  <1> QED
    BY <1>2, <1>3, <1>4, <1>5, <1>6, <1>7, <1>8, <1>9, <1>10

\* The process of a stop goes.
LEMMA KilledKeeps ==
    ASSUME SafetyInv, Killed
    PROVE  SafetyInv'
  <1>1. /\ LivePid(stopping.pid) /\ Ends(stopping.pid, "stopped")
        /\ UNCHANGED << now, nextPid, registry, trusted, present, binary >>
        /\ UNCHANGED << phase, pass, fleet, stopping, binaryVersion, pendingRollout,
                        anchorSwaps, trips, guessed >>
        /\ notice' \in Notices
    BY DEF Killed, Notices
  <1>2. ProcsTypeOK' /\ SessTypeOK' /\ ProcsKept /\ OwnersKnown'
    BY <1>1, EndsFacts DEF SafetyInv, LivePid
  <1>3. MachineTypeOK'
    BY <1>1, <1>2 DEF SafetyInv, TypeOK, MachineTypeOK, ProcsTypeOK, SessTypeOK
  <1> QED
    BY <1>1, <1>2, <1>3, MachineKeeps

\* terminate returns: the supervisor is released, or stays where it is.
LEMMA ReturnKeeps ==
    ASSUME SafetyInv, StopReturns \/ StopFails
    PROVE  SafetyInv'
  <1> DEFINE r == stopping.repo
             sr == [fleet[r] EXCEPT !.supervisor = NoSupervisor]
  <1>1. stopping \in Stops
    BY DEF StopReturns, StopFails, Stopping, SafetyInv, TypeOK, NoStop
  <1>2. /\ UNCHANGED machineVars
        /\ UNCHANGED << phase, pass, binaryVersion, pendingRollout, trips, guessed >>
        /\ stopping' = NoStop
        /\ notice' \in Notices
        /\ fleet' \in {fleet, [fleet EXCEPT ![r] = sr]}
        /\ anchorSwaps' \in {anchorSwaps, [anchorSwaps EXCEPT ![r] = anchorSwaps[r] + 1]}
    <2>1. stopping.alert \in Notices /\ "none" \in Notices
      BY <1>1 DEF Stops, Notices
    <2>2. CASE StopReturns
      <3>1. fleet' = [fleet EXCEPT ![r] = sr]
        BY <2>2 DEF StopReturns, SafetyInv, TypeOK
      <3>2. anchorSwaps' \in {anchorSwaps, [anchorSwaps EXCEPT ![r] = anchorSwaps[r] + 1]}
        BY <2>2 DEF StopReturns, SafetyInv, TypeOK
      <3> QED
        BY <2>1, <2>2, <3>1, <3>2 DEF StopReturns
    <2>3. CASE StopFails
      <3>1. fleet' \in {fleet, [fleet EXCEPT ![r] = sr]}
        BY <2>3 DEF StopFails, SafetyInv, TypeOK
      <3> QED
        BY <2>1, <2>3, <3>1 DEF StopFails
    <2> QED
      BY <2>2, <2>3
  <1>3. r \in Repos
    BY <1>1 DEF Stops
  <1>4. MachineTypeOK' /\ OwnersKnown' /\ ProcsKept /\ procs' = procs
    BY <1>2, MachineStands DEF machineVars
  <1>5. sr \in Entities /\ ~Running(sr.supervisor)
    BY <1>3, NoSupervisorType DEF SafetyInv, TypeOK, Entities
  <1> HIDE DEF r, sr
  <1>6. fleet' \in [Repos -> Entities] /\ SupervisorsKnown'
    <2>1. CASE fleet' = fleet
      BY <1>4, <2>1 DEF SafetyInv, TypeOK, SupervisorsKnown
    <2>2. CASE fleet' = [fleet EXCEPT ![r] = sr]
      BY <1>3, <1>4, <1>5, <2>2, FleetStep
    <2> QED
      BY <1>2, <2>1, <2>2
  <1>7. anchorSwaps' \in [Repos -> Nat]
    <2>1. anchorSwaps \in [Repos -> Nat] /\ anchorSwaps[r] + 1 \in Nat
      BY <1>3 DEF SafetyInv, TypeOK
    <2> QED
      BY <1>2, <1>3, <2>1
  <1>8. TypeOK'
    BY <1>2, <1>4, <1>6, <1>7 DEF SafetyInv, TypeOK
  <1>9. VisitsEntries'
    BY <1>2 DEF SafetyInv, VisitsEntries, EntryOf
  <1> QED
    BY <1>2, <1>4, <1>6, <1>8, <1>9, NoNewStop DEF SafetyInv

----
(* The theorems. *)

LEMMA InitHolds ==
    ASSUME Init PROVE SafetyInv
  <1>1. /\ NoSession \in SessionStates /\ NoSession.owner = 0
        /\ NewEntity(NoSettings) \in Entities
        /\ NewEntity(NoSettings).supervisor = NoSupervisor
    BY NewEntityType DEF NoSession, SessionStates, NewEntity
  <1>2. MachineTypeOK
    <2>1. /\ now \in 1..(MaxTime + 1) /\ nextPid \in 1..(MaxPid + 1) /\ binary \in 1..MaxVersion
      BY MachineAssumption DEF Init
    <2>2. procs \in [1..(nextPid - 1) -> Processes]
      BY DEF Init
    <2>3. sess \in [Repos -> [Sessions -> SessionStates]]
      BY <1>1 DEF Init
    <2>4. /\ registry \in [Repos -> Settings \cup {NoSettings}]
          /\ trusted \subseteq Repos /\ present \subseteq Repos
      BY MachineAssumption DEF Init
    <2> QED
      BY <2>1, <2>2, <2>3, <2>4 DEF MachineTypeOK
  <1>3. TypeOK
    <2>1. binaryVersion \in 0..MaxVersion /\ pendingRollout \in 0..MaxVersion
      BY MachineAssumption DEF Init
    <2>2. pass \in Passes
      BY NoPassType DEF Init
    <2>3. /\ fleet \in [Repos -> Entities] /\ stopping \in Stops \cup {NoStop}
          /\ anchorSwaps \in [Repos -> Nat] /\ trips \in [Repos -> Seq(Nat)]
      BY <1>1 DEF Init
    <2> QED
      BY <1>2, <2>1, <2>2, <2>3 DEF Init, TypeOK, Phases, Notices
  <1>4. VisitsEntries
    BY DEF Init, VisitsEntries
  <1>5. OwnersKnown
    BY <1>1 DEF Init, OwnersKnown
  <1>6. SupervisorsKnown
    BY <1>1, NoSupervisorType DEF Init, SupervisorsKnown
  <1>7. StopDecided
    BY DEF Init, StopDecided, Stopping, NoStop
  <1> QED
    BY <1>3, <1>4, <1>5, <1>6, <1>7 DEF SafetyInv

LEMMA NextKeeps ==
    ASSUME SafetyInv, [Next]_vars PROVE SafetyInv'
  <1>1. CASE UNCHANGED vars
    <2>1. /\ UNCHANGED machineVars
          /\ UNCHANGED << phase, pass, fleet, stopping, binaryVersion, pendingRollout,
                          anchorSwaps, trips, guessed >>
          /\ notice' \in Notices
      BY <1>1 DEF vars, machineVars, SafetyInv, TypeOK
    <2> QED
      BY <2>1, MachineStands, MachineKeeps
  <1>2. CASE MachineStep
    <2>1. /\ MachineNext /\ notice' \in Notices
          /\ UNCHANGED << phase, pass, fleet, stopping, binaryVersion, pendingRollout,
                          anchorSwaps, trips, guessed >>
      BY <1>2 DEF MachineStep, Notices
    <2> QED
      BY <2>1, MachineTypes, MachineKeeps
  <1>3. CASE DaemonNext
    <2>1. CASE Start
      BY <2>1, StartKeeps
    <2>2. CASE Stop
      BY <2>2, StopKeeps
    <2>3. ASSUME NEW readable \in BOOLEAN, NEW torn \in BOOLEAN, BeginPass(readable, torn)
          PROVE  SafetyInv'
      BY <2>3, BeginPassKeeps
    <2>4. ASSUME NEW r \in Repos, ReconcileWaits(r) PROVE SafetyInv'
      BY <2>4, ReconcileWaitsKeeps
    <2>5. ASSUME NEW r \in Repos, ReconcileSpawns(r) PROVE SafetyInv'
      BY <2>5, ReconcileSpawnsKeeps
    <2>6. ASSUME NEW r \in Repos, NEW read \in Readings(r), RetireRepo(r, read)
          PROVE  SafetyInv'
      BY <2>6, RetireRepoKeeps
    <2>7. ASSUME NEW r \in Repos, NEW read \in Readings(r),
                 NEW probed \in 0..MaxVersion, ConvergeRepo(r, probed, read)
          PROVE  SafetyInv'
      BY <2>7, ConvergeRepoKeeps
    <2>8. CASE \/ EndReconcile \/ SkipTick \/ EndTick \/ EndPass \/ NightlyUpdates \/ NightlyFails
               \/ PassFails
               \/ \E version \in 0..MaxVersion : BeginTick(version)
               \/ \E r \in Repos : ConvergeSkips(r)
      BY <2>8, LoopStepKeeps
    <2>9. CASE Killed
      BY <2>9, KilledKeeps
    <2>10. CASE StopReturns \/ StopFails
      BY <2>10, ReturnKeeps
    <2> QED
      BY <1>3, <2>1, <2>2, <2>3, <2>4, <2>5, <2>6, <2>7, <2>8, <2>9, <2>10 DEF DaemonNext
  <1> QED
    BY <1>1, <1>2, <1>3 DEF Next

(* The inductive invariant holds: every supervisor record describes a        *)
(* process of its directory, and every stop under way passed both gates.     *)
THEOREM SafetyHolds == Spec => []SafetyInv
  BY InitHolds, NextKeeps, PTL DEF Spec

(* Every variable keeps its type, the crash deque under its limit and the    *)
(* spawns of a pass under the ramp included.                                 *)
THEOREM TypeCorrect == Spec => []TypeOK
  <1>1. SafetyInv => TypeOK
    BY DEF SafetyInv
  <1> QED
    BY <1>1, SafetyHolds, PTL

(* Whatever the fleet, the timings and the interleaving, a stop under way    *)
(* costs no turn of the sessions it was decided on while they have not       *)
(* moved, and no session at all where it was decided on any: one that opened *)
(* since, or that the read missed, may still lose its turn.                  *)
THEOREM StopsAreSafe == Spec => []StopIsSafe
  <1>1. SafetyInv => StopIsSafe
    BY GatesSuffice
  <1> QED
    BY <1>1, SafetyHolds, PTL

====
