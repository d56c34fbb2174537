---- MODULE Machine ----
(* The machine the daemon runs on: remote-control processes, the engine     *)
(* sessions under them, the claude binary, the registry file, trust and the *)
(* directories.  None of it waits for the daemon, so every action here may  *)
(* fall between any two of the daemon's steps.                              *)
(*                                                                          *)
(* The claude CLI is not in the repository.  It is modelled from what the   *)
(* code relies on and docs/restart-safety.md records: one environment per   *)
(* process, an in-dir session created once at startup, and sessions that    *)
(* outlive their process only through a session in the repo root.           *)
EXTENDS SupervisedRepo

CONSTANTS
    Repos,        \* directories: numbers, in the order save_registry sorts them
    Sessions,     \* the session slots of each repo
    Git,          \* the repos that are git repositories
    UnderRoot,    \* the repos under the configured projects root
    Offered,      \* the settings `groundcrew add` is given
    MaxTime,      \* bound on the clock
    MaxPid,       \* bound on the processes ever started
    MaxVersion,   \* bound on the claude releases
    Events        \* which of the optional events an instance explores

ASSUME MachineAssumption ==
    /\ Repos \subseteq Nat
    /\ IsFiniteSet(Sessions)
    /\ Git \subseteq Repos
    /\ UnderRoot \subseteq Repos
    /\ Offered \subseteq Settings
    /\ MaxTime \in Nat
    /\ MaxPid \in Nat
    /\ MaxVersion \in Nat \ {0}

VARIABLES
    now,          \* the wall clock
    procs,        \* the remote-control process of each pid ever used
    nextPid,      \* the next (pid, created) identity
    sess,         \* what is in each session slot of each repo
    registry,     \* repos.toml: the settings of each entry, NoSettings without one
    trusted,      \* hasTrustDialogAccepted in ~/.claude.json
    present,      \* the directories that exist
    binary        \* the version of the claude binary on disk

machineVars == << now, procs, nextPid, sess, registry, trusted, present, binary >>

\* A process: live, or how it ended, by itself or stopped by the daemon; and
\* `starting` until it has connected and dealt with its environment.
Processes ==
    [state : {"live", "died", "stopped"}, repo : Repos, version : Nat,
     args : Argvs, created : Nat, starting : BOOLEAN]

\* A session: the process its engine runs under (0: the slot is empty), its
\* cwd, whether it ever took a turn, and session_quiet's answer.
SessionStates ==
    [owner : Nat, root : BOOLEAN, turns : BOOLEAN, quiet : BOOLEAN]

NoSession == [owner |-> 0, root |-> FALSE, turns |-> FALSE, quiet |-> FALSE]

MachineTypeOK ==
    /\ now \in 1..(MaxTime + 1)
    /\ nextPid \in 1..(MaxPid + 1)
    /\ procs \in [1..(nextPid - 1) -> Processes]
    /\ sess \in [Repos -> [Sessions -> SessionStates]]
    /\ registry \in [Repos -> Settings \cup {NoSettings}]
    /\ trusted \subseteq Repos
    /\ present \subseteq Repos
    /\ binary \in 1..MaxVersion

----
(* Reading the machine. *)

LivePid(pid) == pid \in DOMAIN procs /\ procs[pid].state = "live"

\* Supervisor.alive: the process wearing this pid is the one recorded.
Alive(sup) == LivePid(sup.pid)

ProcessesOf(r) == {pid \in DOMAIN procs : LivePid(pid) /\ procs[pid].repo = r}

Registered(r) == registry[r] # NoSettings

\* The engines running somewhere under this directory.
LiveSessions(r) == {s \in Sessions : LivePid(sess[r][s].owner)}

\* Sessions whose engine went with its process; their environment still holds them.
Detached(r) == {s \in Sessions : sess[r][s].owner # 0} \ LiveSessions(r)

\* repo_sessions: the sessions one read may return.  live_sessions passes over a
\* metadata file that is torn or unreadable, and its session is none to the caller.
Readings(r) ==
    IF "tornmeta" \in Events THEN SUBSET LiveSessions(r) ELSE {LiveSessions(r)}

\* What is seen of the sessions that a read returned, and the answers made of it.
SessionView(r, read) ==
    [s \in Sessions |-> IF s \in read THEN sess[r][s] ELSE NoSession]

Census(r, read) ==
    [total    |-> Cardinality(read),
     working  |-> Cardinality({s \in read : sess[r][s].turns}),
     anchored |-> \E s \in read : sess[r][s].root]

AllQuiet(r, read) == \A s \in read : sess[r][s].quiet

----
(* Processes. *)

SessionsUnder(pid) ==
    {s \in Sessions : sess[procs[pid].repo][s].owner = pid}

\* The environment outlives the process only when the process was launched to
\* hold an in-dir session and one is still in the repo root.
EnvironmentSurvives(pid) ==
    /\ LaunchedAnchored(procs[pid].args)
    /\ \E s \in SessionsUnder(pid) : sess[procs[pid].repo][s].root

\* The process ends: its engines end with it, and so does every session of an
\* environment nothing can reconnect to.  Of a process that ended only its repo,
\* its argv and the way it ended are remembered.
Ends(pid, how) ==
    /\ procs' = [procs EXCEPT ![pid].state = how, ![pid].starting = FALSE,
                              ![pid].version = 0, ![pid].created = 0]
    /\ sess' = [sess EXCEPT ![procs[pid].repo] =
                    [s \in Sessions |->
                        IF s \in SessionsUnder(pid) /\ ~EnvironmentSurvives(pid)
                        THEN NoSession ELSE @[s]]]

\* Popen of a new process; its pid and creation time are an identity of their own.
Starts(r, version, args) ==
    /\ nextPid <= MaxPid
    /\ procs' = [pid \in 1..nextPid |->
                    IF pid = nextPid
                    THEN [state |-> "live", repo |-> r, version |-> version,
                          args |-> args, created |-> now, starting |-> TRUE]
                    ELSE procs[pid]]
    /\ nextPid' = nextPid + 1

\* A supervisor dies on its own.
Die(pid) ==
    /\ "death" \in Events
    /\ LivePid(pid)
    /\ Ends(pid, "died")
    /\ UNCHANGED << now, nextPid, registry, trusted, present, binary >>

\* Somebody starts a remote-control process by hand.
StartByHand(r) ==
    /\ "hand" \in Events
    /\ r \in present
    /\ Starts(r, binary, BareArgs)
    /\ UNCHANGED << now, sess, registry, trusted, present, binary >>

Reattached(pid, s) == [sess[procs[pid].repo][s] EXCEPT !.owner = pid, !.quiet = FALSE]

FreshAnchor(pid) == [owner |-> pid, root |-> TRUE, turns |-> FALSE, quiet |-> FALSE]

\* Startup without an in-dir session: a new environment, the old one abandoned.
ConnectAfresh(pid) ==
    LET r == procs[pid].repo
    IN  /\ ~LaunchedAnchored(procs[pid].args)
        /\ sess' = [sess EXCEPT ![r] =
                        [s \in Sessions |-> IF s \in Detached(r) THEN NoSession ELSE @[s]]]

\* Startup that reconnects to the environment its predecessor left behind.
Reconnect(pid) ==
    LET r == procs[pid].repo
    IN  /\ LaunchedAnchored(procs[pid].args)
        /\ Detached(r) # {}
        /\ sess' = [sess EXCEPT ![r] =
                        [s \in Sessions |-> IF s \in Detached(r) THEN Reattached(pid, s)
                                                                 ELSE @[s]]]

\* The same, but the root session's engine fails on resume: the supervisor
\* keeps the rest and holds no anchor.
ReconnectFails(pid) ==
    LET r == procs[pid].repo
    IN  /\ "resume" \in Events
        /\ LaunchedAnchored(procs[pid].args)
        /\ \E s \in Detached(r) : sess[r][s].root
        /\ sess' = [sess EXCEPT ![r] =
                        [s \in Sessions |->
                            IF s \in Detached(r) /\ ~sess[r][s].root
                            THEN Reattached(pid, s) ELSE @[s]]]

\* Nothing to reconnect to: the in-dir session is created.
CreateAnchor(pid) ==
    LET r == procs[pid].repo
    IN  /\ LaunchedAnchored(procs[pid].args)
        /\ Detached(r) = {}
        /\ \/ \E s \in Sessions \ LiveSessions(r) :
                  sess' = [sess EXCEPT ![r][s] = FreshAnchor(pid)]
           \/ /\ LiveSessions(r) = Sessions
              /\ UNCHANGED sess

Connect(pid) ==
    /\ LivePid(pid)
    /\ procs[pid].starting
    /\ procs' = [procs EXCEPT ![pid].starting = FALSE]
    /\ \/ ConnectAfresh(pid)
       \/ Reconnect(pid)
       \/ ReconnectFails(pid)
       \/ CreateAnchor(pid)
    /\ UNCHANGED << now, nextPid, registry, trusted, present, binary >>

----
(* Sessions. *)

\* Somebody opens a session: in a worktree of its own, or in the repo root when
\* the process spawns same-dir.
OpenSession(pid, s) ==
    LET r == procs[pid].repo
    IN  /\ LivePid(pid)
        /\ ~procs[pid].starting
        /\ sess[r][s] = NoSession
        /\ sess' = [sess EXCEPT ![r][s] =
                        [owner |-> pid,
                         root  |-> \E i \in DOMAIN procs[pid].args :
                                       procs[pid].args[i] = "same-dir",
                         turns |-> TRUE, quiet |-> FALSE]]
        /\ UNCHANGED << now, procs, nextPid, registry, trusted, present, binary >>

\* A session takes a turn.
TakeTurn(r, s) ==
    /\ s \in LiveSessions(r)
    /\ ~sess[r][s].turns \/ sess[r][s].quiet
    /\ sess' = [sess EXCEPT ![r][s].turns = TRUE, ![r][s].quiet = FALSE]
    /\ UNCHANGED << now, procs, nextPid, registry, trusted, present, binary >>

\* The transcript has been silent for the quiet window and no task is pending.
GoQuiet(r, s) ==
    /\ s \in LiveSessions(r)
    /\ ~sess[r][s].quiet
    /\ sess' = [sess EXCEPT ![r][s].quiet = TRUE]
    /\ UNCHANGED << now, procs, nextPid, registry, trusted, present, binary >>

\* A session ends, archived or failed.
EndSession(r, s) ==
    /\ sess[r][s] # NoSession
    /\ sess' = [sess EXCEPT ![r][s] = NoSession]
    /\ UNCHANGED << now, procs, nextPid, registry, trusted, present, binary >>

----
(* Time, releases, the user. *)

Advance ==
    /\ now < MaxTime
    /\ now' = now + 1
    /\ UNCHANGED << procs, nextPid, sess, registry, trusted, present, binary >>

\* claude updates itself.
Release ==
    /\ binary < MaxVersion
    /\ binary' = binary + 1
    /\ UNCHANGED << now, procs, nextPid, sess, registry, trusted, present >>

SeedTrust(r) == trusted' = trusted \cup {r}

\* `groundcrew add`: validate, seed trust, write the entry.
CmdAdd(r, settings) ==
    /\ "add" \in Events
    /\ settings \in Offered
    /\ r \in present
    /\ r \in Git \/ settings.spawn # "worktree"
    /\ SeedTrust(r)
    /\ registry' = [registry EXCEPT ![r] = settings]
    /\ UNCHANGED << now, procs, nextPid, sess, present, binary >>

\* `groundcrew remove`.
CmdRemove(r) ==
    /\ "remove" \in Events
    /\ Registered(r)
    /\ registry' = [registry EXCEPT ![r] = NoSettings]
    /\ UNCHANGED << now, procs, nextPid, sess, trusted, present, binary >>

\* A directory goes away, or comes back.
DirectoryMoves(r) ==
    /\ "directory" \in Events
    /\ present' = IF r \in present THEN present \ {r} ELSE present \cup {r}
    /\ UNCHANGED << now, procs, nextPid, sess, registry, trusted, binary >>

MachineNext ==
    \/ Advance
    \/ Release
    \/ \E pid \in DOMAIN procs :
          \/ Die(pid)
          \/ Connect(pid)
          \/ \E s \in Sessions : OpenSession(pid, s)
    \/ \E r \in Repos :
          \/ StartByHand(r)
          \/ CmdRemove(r)
          \/ DirectoryMoves(r)
          \/ \E settings \in Offered : CmdAdd(r, settings)
          \/ \E s \in Sessions :
                \/ TakeTurn(r, s)
                \/ GoQuiet(r, s)
                \/ EndSession(r, s)

====
