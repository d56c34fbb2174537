---- MODULE SupervisedFleet ----
(* What groundcrew promises to whoever looks at the machine and not at its   *)
(* records: a directory gets a supervisor only where it has none, and a      *)
(* supervisor is stopped by the daemon only after a look at which nothing    *)
(* would have been lost.  Entities, versions, drift, the breaker and the     *)
(* registry decide when; none of them shows here.                            *)
CONSTANTS
    Repos,   \* directories
    Pids,    \* the processes that may ever be
    Legible  \* whether a look at the machine shows every session

VARIABLES
    lives,   \* the supervisor processes so far: whose, and how they ended
    costly,  \* the live ones whose end would cost a turn or a session now
    ending,  \* the one the daemon is stopping, 0 when there is none
    up       \* whether the daemon runs

fleetVars == << lives, costly, ending, up >>

Live(pid) == pid \in DOMAIN lives /\ lives[pid].state = "live"

Living == {pid \in DOMAIN lives : lives[pid].state = "live"}

\* A process ends, and nothing more is lost with it.
Over(pid, how) ==
    /\ Live(pid)
    /\ lives' = [lives EXCEPT ![pid].state = how]
    /\ costly' = costly \ {pid}

\* The daemon starts a supervisor in a directory that has none.
Serve(r, pid) ==
    /\ up /\ ending = 0
    /\ pid \notin DOMAIN lives
    /\ \A p \in Living : lives[p].repo # r
    /\ lives' = [p \in DOMAIN lives \cup {pid} |->
                    IF p = pid THEN [repo |-> r, state |-> "live"] ELSE lives[p]]
    /\ UNCHANGED << costly, ending, up >>

\* It decides to stop one, and that is free at this moment if it could see all.
Ask(pid) ==
    /\ up /\ ending = 0
    /\ Live(pid)
    /\ Legible => pid \notin costly
    /\ ending' = pid
    /\ UNCHANGED << lives, costly, up >>

\* The process it is stopping goes; by now that may have become costly.
Obey ==
    /\ Over(ending, "stopped")
    /\ UNCHANGED << ending, up >>

\* The daemon waits no longer: the process is gone, or survived SIGKILL.
Return ==
    /\ ending # 0
    /\ ending' = 0
    /\ UNCHANGED << lives, costly, up >>

\* A supervisor dies by itself, at any time.
Fail(pid) ==
    /\ Over(pid, "died")
    /\ UNCHANGED << ending, up >>

\* Sessions come, work, go quiet and end.
SessionsMove ==
    /\ UNCHANGED << ending, up, lives >>
    /\ costly' \subseteq Living

\* The daemon crashes, in the middle of a stop perhaps, and comes back; its
\* supervisors run on.
Down ==
    /\ up
    /\ up' = FALSE
    /\ ending' = 0
    /\ UNCHANGED << lives, costly >>

Recover ==
    /\ ~up
    /\ up' = TRUE
    /\ UNCHANGED << lives, costly, ending >>

Init ==
    /\ DOMAIN lives = {}
    /\ costly = {}
    /\ ending = 0
    /\ up = FALSE

Next ==
    \/ SessionsMove
    \/ Down
    \/ Recover
    \/ Obey
    \/ Return
    \/ \E pid \in Pids :
          \/ Ask(pid)
          \/ Fail(pid)
          \/ \E r \in Repos : Serve(r, pid)

Spec == Init /\ [][Next]_fleetVars

====
