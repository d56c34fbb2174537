---- MODULE Freshness ----
(* The freshness pull of one repo: freshen and run_hook (daemon.py), the    *)
(* entity's plan_freshness, on_pull and on_hook_result (supervise.py), and  *)
(* pull (gitops.py), over a checkout that its user and its sessions share.  *)
(*                                                                          *)
(* A pull is several git commands.  What one of them read may be different  *)
(* when the next one runs, so each is a step: the plan, the inspection, the *)
(* command that fetches, the second look at the branch, the hook.  Any of   *)
(* them may end the freshen with an exception instead.                      *)
EXTENDS Integers, FiniteSets

CONSTANTS
    Sessions,      \* sessions whose cwd is the checkout
    Hook,          \* a post_pull command is configured
    AlertAfter,    \* PULL_FAILURES_BEFORE_ALERT
    MaxCommits,    \* bound: commits published on the default branch
    MaxRestarts,   \* bound: restarts of the daemon
    MaxFailures    \* bound: the failure counter stays there

ASSUME FreshnessAssumption ==
    /\ IsFiniteSet(Sessions)
    /\ Hook \in BOOLEAN
    /\ AlertAfter \in Nat \ {0}
    /\ MaxCommits \in Nat
    /\ MaxRestarts \in Nat
    /\ MaxFailures \in Nat
    /\ MaxFailures >= AlertAfter

VARIABLES
    repo,       \* what the directory is to git: no repository, no remote, or both
    head,       \* the branch checked out: the default one or another
    dirty,      \* tracked files are modified
    local,      \* the local default branch: origin's commits in it, and its own
    upstream,   \* commits on origin's default branch
    network,    \* how a command that talks to origin fares
    sess,       \* the sessions in the checkout: parked there, or at work
    step,       \* where freshen is; "raised" after one that ended in an exception
    pull,       \* what the pull under way has read and got
    sr,         \* the entity's pull bookkeeping
    restarts,
    streak,     \* history: FAILED outcomes in a row, divergences aside
    alerts,     \* history: alerts sent for that streak
    owed,       \* history: this pull moved the checkout, its hook has not run
    disturbed,  \* history: sessions with files rewritten since they went to work
    behind      \* history: this pull left the default branch behind origin

machine == << repo, head, dirty, local, upstream, network, sess >>
history == << streak, alerts, owed, disturbed, behind >>
vars == << machine, step, pull, sr, restarts, history >>

Kinds == {"ff-pulled", "ref-updated", "fetched-dirty", "no-default-branch",
          "not-a-repo", "diverged", "failed"}

PullWarnings == {"parked", "dirty", "diverged", "pull", "post_pull", "deferred"}

Branches == [base : 0..MaxCommits, ahead : {0, 1}]

\* branch_tip answers None.
NoTip == [base |-> 0, ahead |-> 2]

Pulls == [before : Branches \cup {NoTip}, parked : BOOLEAN,
          way : {"pull", "fetch ref", "fetch"}, kind : Kinds, unread : SUBSET Sessions]

NoPull ==
    [before |-> NoTip, parked |-> FALSE, way |-> "fetch", kind |-> "not-a-repo",
     unread |-> {}]

NewEntity == [failures |-> 0, alerted |-> FALSE, kind |-> "none", warnings |-> {}]

TypeOK ==
    /\ repo \in {"none", "local", "remote"}
    /\ head \in {"default", "other"}
    /\ dirty \in BOOLEAN
    /\ local \in Branches
    /\ upstream \in 0..MaxCommits
    /\ network \in {"up", "slow", "down"}
    /\ sess \in [Sessions -> {"idle", "working"}]
    /\ step \in {"idle", "inspect", "run", "finish", "hook", "raised"}
    /\ pull \in Pulls
    /\ sr \in [failures : 0..MaxFailures, alerted : BOOLEAN,
               kind : Kinds \cup {"none"}, warnings : SUBSET PullWarnings]
    /\ restarts \in 0..MaxRestarts
    /\ streak \in 0..MaxFailures
    /\ alerts \in {0, 1}
    /\ owed \in BOOLEAN
    /\ disturbed \subseteq Sessions
    /\ behind \in BOOLEAN

----
(* The entity's decisions. *)

AtWork == {s \in Sessions : sess[s] = "working"}

\* A setting stands in for the sessions: worktree mode keeps them elsewhere.
Workers_BySpawnMode(unread) == {}

\* Every session in the checkout, an idle anchor included.
Workers_Present(unread) == Sessions \ unread

\* The sessions in the checkout that are not quiet, whoever owns them, as far as
\* their metadata could be read: live_sessions passes over a torn file.
Workers(unread) == AtWork \ unread

\* A tick that only defers the pull ends the streak.
PlanFreshness_ResetsStreak(git, working) ==
    LET deferred == git /\ working # {}
    IN  [sr |-> [sr EXCEPT !.warnings = IF deferred THEN {"deferred"} ELSE {},
                           !.failures = IF deferred THEN 0 ELSE @],
         decision |-> IF git /\ ~deferred THEN "pull" ELSE "skip"]

\* A repo with sessions at work is left alone this tick.
PlanFreshness(git, working) ==
    LET deferred == git /\ working # {}
    IN  [sr |-> [sr EXCEPT !.warnings = IF deferred THEN {"deferred"} ELSE {}],
         decision |-> IF git /\ ~deferred THEN "pull" ELSE "skip"]

Outcome(kind, moved, parked) == [kind |-> kind, moved |-> moved, parked |-> parked]

OneMore(count) == IF count < MaxFailures THEN count + 1 ELSE count

Told_NotDirty(outcome) ==
    {w \in PullWarnings :
        \/ w = "parked" /\ outcome.parked
        \/ w = "diverged" /\ outcome.kind = "diverged"
        \/ w = "pull" /\ outcome.kind = "failed"}

\* The warnings an outcome puts into `status`.
Told(outcome) ==
    {w \in PullWarnings :
        \/ w = "parked" /\ outcome.parked
        \/ w = "dirty" /\ outcome.kind = "fetched-dirty"
        \/ w = "diverged" /\ outcome.kind = "diverged"
        \/ w = "pull" /\ outcome.kind = "failed"}

\* A divergence taken for a pull that went through.
OnPull_DivergedResets(entity, outcome) ==
    LET told     == [entity EXCEPT !.kind = outcome.kind, !.warnings = @ \cup Told(outcome)]
        failures == OneMore(entity.failures)
        fire     == failures >= AlertAfter /\ ~entity.alerted
    IN  IF outcome.kind = "failed"
        THEN [sr |-> [told EXCEPT !.failures = failures, !.alerted = @ \/ fire],
              decision |-> IF fire THEN "alert" ELSE "none"]
        ELSE [sr |-> [told EXCEPT !.failures = 0, !.alerted = FALSE],
              decision |-> IF outcome.moved /\ ~outcome.parked /\ Hook
                           THEN "hook" ELSE "none"]

\* Every failure past the threshold alerts again.
OnPull_NoLatch(entity, outcome) ==
    LET told     == [entity EXCEPT !.kind = outcome.kind, !.warnings = @ \cup Told(outcome)]
        failures == OneMore(entity.failures)
        fire     == failures >= AlertAfter
    IN  IF outcome.kind = "failed"
        THEN [sr |-> [told EXCEPT !.failures = failures, !.alerted = @ \/ fire],
              decision |-> IF fire THEN "alert" ELSE "none"]
        ELSE [sr |-> IF outcome.kind = "diverged" THEN told
                     ELSE [told EXCEPT !.failures = 0, !.alerted = FALSE],
              decision |-> IF outcome.moved /\ ~outcome.parked /\ Hook
                           THEN "hook" ELSE "none"]

\* Divergences leave the streak alone: an alert is for a pull that cannot work.
OnPull(entity, outcome) ==
    LET told     == [entity EXCEPT !.kind = outcome.kind, !.warnings = @ \cup Told(outcome)]
        failures == OneMore(entity.failures)
        fire     == failures >= AlertAfter /\ ~entity.alerted
    IN  CASE outcome.kind = "diverged" ->
                [sr |-> told, decision |-> "none"]
          [] outcome.kind = "failed" ->
                [sr |-> [told EXCEPT !.failures = failures, !.alerted = @ \/ fire],
                 decision |-> IF fire THEN "alert" ELSE "none"]
          [] OTHER ->
                [sr |-> [told EXCEPT !.failures = 0, !.alerted = FALSE],
                 decision |-> IF outcome.moved /\ ~outcome.parked /\ Hook
                              THEN "hook" ELSE "none"]

\* on_pull, the alert or the hook it may ask for, and the streak it is part of.
Conclude(entity, outcome) ==
    LET plan == OnPull(entity, outcome)
        goes == CASE outcome.kind = "failed" -> OneMore(streak)
                  [] outcome.kind = "diverged" -> streak
                  [] OTHER -> 0
    IN  /\ sr' = plan.sr
        /\ step' = IF plan.decision = "hook" THEN "hook" ELSE "idle"
        /\ pull' = NoPull
        /\ streak' = goes
        /\ alerts' = IF goes = 0 THEN 0
                     ELSE IF plan.decision = "alert" THEN alerts + 1 ELSE alerts

----
(* freshen and pull. *)

\* freshen up to the pull: the sessions are read and plan_freshness decides.
Freshen(unread) ==
    LET plan == PlanFreshness(repo # "none", Workers(unread))
    IN  /\ step \in {"idle", "raised"}
        /\ owed' = FALSE
        /\ behind' = FALSE
        /\ \/ /\ plan.decision = "pull"
              /\ step' = "inspect"
              /\ sr' = plan.sr
              /\ pull' = [NoPull EXCEPT !.unread = unread]
              /\ UNCHANGED << streak, alerts >>
           \/ /\ plan.decision = "skip"
              /\ repo # "none"
              /\ step' = "idle"
              /\ sr' = plan.sr
              /\ UNCHANGED << pull, streak, alerts >>
           \/ /\ repo = "none"
              /\ Conclude(plan.sr, Outcome("not-a-repo", FALSE, FALSE))
        /\ UNCHANGED << machine, restarts, disturbed >>

\* An exception that nothing in freshen catches: git, or a hook, cannot be run or
\* says what cannot be decoded.  tick logs it and goes on; the warnings are gone
\* by now, the branch may have moved, and on_pull is never called.  (One raised
\* before plan_freshness changes nothing.)
FreshenRaises ==
    /\ step \in {"inspect", "run", "finish", "hook"}
    /\ step' = "raised"
    /\ pull' = NoPull
    /\ UNCHANGED << machine, sr, restarts, history >>

Tip == IF repo = "none" THEN NoTip ELSE local

\* The pull policy.
Way ==
    CASE head = "default" /\ ~dirty -> "pull"
      [] head = "other" -> "fetch ref"
      [] OTHER -> "fetch"

\* pull up to its fetch: the default branch, its tip, what is checked out.
Inspect ==
    /\ step = "inspect"
    /\ IF repo = "remote"
       THEN /\ pull' = [pull EXCEPT !.before = Tip, !.parked = head = "other", !.way = Way]
            /\ step' = "run"
            /\ UNCHANGED << sr, streak, alerts >>
       ELSE /\ Conclude(sr, Outcome(IF repo = "none" THEN "not-a-repo"
                                                     ELSE "no-default-branch", FALSE, FALSE))
    /\ UNCHANGED << machine, restarts, owed, disturbed, behind >>

Reached == repo = "remote" /\ network # "down"

\* A command that does its work may still be killed by the timeout behind it.
Answers(kind) == {kind} \cup (IF network = "slow" THEN {"failed"} ELSE {})

Moves(kinds) ==
    /\ local' = [local EXCEPT !.base = upstream]
    /\ \E kind \in kinds : pull' = [pull EXCEPT !.kind = kind]

Stays(kinds) ==
    /\ \E kind \in kinds : pull' = [pull EXCEPT !.kind = kind]
    /\ UNCHANGED local

GitFails ==
    /\ repo # "remote" \/ network # "up"
    /\ Stays({"failed"})

\* git pull --ff-only
PullFastForwards ==
    /\ Reached /\ pull.way = "pull" /\ head = "default"
    /\ local.ahead = 0 \/ local.base = upstream
    /\ Moves(Answers("ff-pulled"))

PullDiverges ==
    /\ Reached /\ pull.way = "pull" /\ head = "default"
    /\ local.ahead # 0 /\ local.base # upstream
    /\ Stays({"diverged"})

\* Edits made since the inspection are in the way of the merge.
PullBlocked ==
    /\ Reached /\ pull.way = "pull" /\ head = "default"
    /\ dirty /\ local.base # upstream
    /\ Stays({"failed"})

\* Another branch was checked out since the inspection: it is the one pulled.
PullsElsewhere ==
    /\ Reached /\ pull.way = "pull" /\ head = "other"
    /\ Stays({"ff-pulled", "diverged", "failed"})

\* git fetch origin <default>:<default>
RefUpdates ==
    /\ Reached /\ pull.way = "fetch ref" /\ head = "other"
    /\ local.ahead = 0
    /\ Moves(Answers("ref-updated"))

\* Not a fast-forward, or refused because it is the branch checked out by now.
RefRefused ==
    /\ Reached /\ pull.way = "fetch ref"
    /\ head = "default" \/ local.ahead # 0
    /\ Stays({"diverged"})

\* git fetch origin
FetchOnly ==
    /\ Reached /\ pull.way = "fetch"
    /\ Stays(Answers("fetched-dirty"))

\* The command under way rewrites files of the checkout, or may have rewritten
\* some of them before the timeout killed it.
FilesMove ==
    /\ step = "run" /\ step' = "finish"
    /\ pull.way = "pull"
    /\ \/ local' # local
       \/ pull'.kind = "ff-pulled" /\ head = "other"
       \/ pull'.kind = "failed" /\ network = "slow"

RunGit ==
    /\ step = "run"
    /\ step' = "finish"
    /\ \/ GitFails
       \/ PullFastForwards \/ PullDiverges \/ PullBlocked \/ PullsElsewhere
       \/ RefUpdates \/ RefRefused
       \/ FetchOnly
    /\ owed' = (Hook /\ pull.way = "pull" /\ local' # local)
    /\ behind' = (local'.base # upstream /\ pull.parked = (head = "other"))
    /\ disturbed' = IF FilesMove THEN disturbed \cup AtWork ELSE disturbed
    /\ UNCHANGED << repo, head, dirty, upstream, network, sess, sr, restarts,
                    streak, alerts >>

\* The branch is looked at only once, when there is nothing to compare it with.
Finish_NoFirstLook ==
    /\ step = "finish"
    /\ Conclude(sr, Outcome(pull.kind, FALSE, pull.parked))
    /\ owed' = (owed /\ step' # "hook")
    /\ UNCHANGED << machine, restarts, disturbed, behind >>

\* The second look at the branch, and on_pull.
Finish ==
    /\ step = "finish"
    /\ Conclude(sr, Outcome(pull.kind, pull.before # Tip, pull.parked))
    /\ owed' = (owed /\ step' # "hook")
    /\ UNCHANGED << machine, restarts, disturbed, behind >>

\* run_hook and on_hook_result: the command works, or fails and is reported.
RunHook(works) ==
    /\ step = "hook"
    /\ step' = "idle"
    /\ sr' = IF works THEN sr ELSE [sr EXCEPT !.warnings = @ \cup {"post_pull"}]
    /\ UNCHANGED << machine, pull, restarts, history >>

\* The daemon stops or crashes wherever it is, and the next one starts afresh.
Restart ==
    /\ restarts < MaxRestarts
    /\ restarts' = restarts + 1
    /\ step' = "idle"
    /\ pull' = NoPull
    /\ sr' = NewEntity
    /\ streak' = 0
    /\ alerts' = 0
    /\ owed' = FALSE
    /\ behind' = FALSE
    /\ UNCHANGED << machine, disturbed >>

----
(* The user, the sessions and the network. *)

Publish ==
    /\ upstream < MaxCommits
    /\ upstream' = upstream + 1
    /\ UNCHANGED << repo, head, dirty, local, network, sess >>

\* A commit of the user's own on the default branch, or the end of it.
Commit ==
    /\ head = "default" /\ repo # "none"
    /\ local' = [local EXCEPT !.ahead = 1 - @]
    /\ UNCHANGED << repo, head, dirty, upstream, network, sess >>

Switch ==
    /\ repo # "none"
    /\ head' = IF head = "default" THEN "other" ELSE "default"
    /\ UNCHANGED << repo, dirty, local, upstream, network, sess >>

Edit ==
    /\ dirty' = ~dirty
    /\ UNCHANGED << repo, head, local, upstream, network, sess >>

SetUp ==
    /\ repo' \in {"none", "local", "remote"} \ {repo}
    /\ UNCHANGED << head, dirty, local, upstream, network, sess >>

NetworkChanges ==
    /\ network' \in {"up", "slow", "down"} \ {network}
    /\ UNCHANGED << repo, head, dirty, local, upstream, sess >>

SessionMoves(s) ==
    /\ sess' = [sess EXCEPT ![s] = IF @ = "idle" THEN "working" ELSE "idle"]
    /\ disturbed' = disturbed \ {s}
    /\ UNCHANGED << repo, head, dirty, local, upstream, network >>

World ==
    /\ \/ /\ Publish \/ Commit \/ Switch \/ Edit \/ SetUp \/ NetworkChanges
          /\ UNCHANGED disturbed
       \/ \E s \in Sessions : SessionMoves(s)
    /\ UNCHANGED << step, pull, sr, restarts, streak, alerts, owed, behind >>

----
Init ==
    /\ repo = "remote"
    /\ head = "default"
    /\ dirty = FALSE
    /\ local = [base |-> 0, ahead |-> 0]
    /\ upstream = 0
    /\ network = "up"
    /\ sess = [s \in Sessions |-> "idle"]
    /\ step = "idle"
    /\ pull = NoPull
    /\ sr = NewEntity
    /\ restarts = 0
    /\ streak = 0
    /\ alerts = 0
    /\ owed = FALSE
    /\ disturbed = {}
    /\ behind = FALSE

DaemonStep ==
    \/ \E unread \in SUBSET AtWork : Freshen(unread)
    \/ FreshenRaises
    \/ Inspect
    \/ RunGit
    \/ Finish
    \/ \E works \in BOOLEAN : RunHook(works)

Next == DaemonStep \/ Restart \/ World

Spec == Init /\ [][Next]_vars

\* The tick comes round: every command of a pull has a timeout, and an exception
\* in one repo's freshen ends that freshen alone.  Nothing is assumed of anybody
\* else.
FairSpec == Spec /\ WF_vars(DaemonStep)

----
(* What must hold. *)

\* "three consecutive pull failures for a repo" are one alert: a streak that
\* reaches the threshold is reported exactly once in a daemon's life, however
\* many divergences and deferred pulls lie between its failures.
OneAlertPerStreak == alerts = IF streak >= AlertAfter THEN 1 ELSE 0

\* A pull that moves the checkout is followed by its hook, in a daemon's life,
\* unless an exception ends the freshen ("raised") or the command failed after it
\* had moved the branch.  Nothing else loses a hook; and both lose it for good,
\* since the next pull finds nothing to move.
HookFollowsMove == step = "idle" /\ owed => sr.kind = "failed"

\* When a freshen that returned leaves the default branch behind origin, `status`
\* says why, whatever changed during the pull but the branch that is checked out.
StaleExplained == step = "idle" /\ behind => sr.warnings # {}

\* A pull looks at the sessions once and runs later, so it may rewrite files under
\* a session that went to work in between; but under no session twice, however
\* long it stays at work and whatever the daemon's restarts, except one that the
\* later pull's read of the sessions missed.
RewrittenOnce == [][FilesMove => disturbed \subseteq pull.unread]_vars

\* The default branch is checked out, clean and not diverged, and origin answers.
Pullable ==
    /\ repo = "remote" /\ network = "up"
    /\ head = "default" /\ ~dirty /\ local.ahead = 0
    /\ \A s \in Sessions : sess[s] # "working"

\* A checkout that can be pulled is pulled, idle sessions in it or not, once the
\* exceptions stop.
KeepsUp ==
    <>[]Pullable /\ <>[](step # "raised") => <>[](local.base = upstream)

\* An outage that lasts is reported, for as long as the daemon gets to pull and
\* to hear of the outcome.
OutageReported ==
    <>[](repo = "remote" /\ network = "down") /\ []<>(step = "inspect")
        /\ <>[](step # "raised") => <>[](sr.alerted)

====
