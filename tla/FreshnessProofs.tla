---- MODULE FreshnessProofs ----
(* What holds of every checkout, whatever the bounds: the types, the four    *)
(* invariants and the action property that the runs of Freshness check.      *)
EXTENDS Freshness, TLAPS

Srs == [failures : 0..MaxFailures, alerted : BOOLEAN,
        kind : Kinds \cup {"none"}, warnings : SUBSET PullWarnings]

Outcomes == [kind : Kinds, moved : BOOLEAN, parked : BOOLEAN]

\* The entity's counter is the streak, and its latch is the alert sent for it.
Booked ==
    /\ sr.failures = streak
    /\ (sr.alerted <=> streak >= AlertAfter)
    /\ alerts = IF streak >= AlertAfter THEN 1 ELSE 0

\* What a pull has read stays true of what it does: it was planned while no session
\* it could see was at work, let alone disturbed, in the working tree only on the
\* default branch, and the branch only moves forward from where it was seen.
Planned ==
    /\ local.base <= upstream
    /\ disturbed \subseteq AtWork
    /\ step \in {"inspect", "run"} =>
          disturbed \subseteq pull.unread /\ ~owed /\ ~behind
    /\ step = "hook" => ~owed
    /\ step \in {"run", "finish"} =>
          /\ pull.before \in Branches
          /\ pull.before.base <= local.base
          /\ pull.way = "pull" => ~pull.parked

\* What the command leaves to be done, and to be said, when it has ended.
Left ==
    /\ step = "finish" /\ owed =>
          /\ Hook /\ ~pull.parked
          /\ pull.before.base < local.base
          /\ pull.kind \in {"ff-pulled", "failed"}
    /\ step = "finish" /\ behind =>
          pull.parked \/ pull.kind \in {"fetched-dirty", "diverged", "failed"}
    /\ step = "hook" /\ behind => sr.warnings # {}

IInv ==
    /\ TypeOK
    /\ Booked
    /\ Planned
    /\ Left
    /\ HookFollowsMove
    /\ StaleExplained

----
(* The entity. *)

\* The entity with another record of its failures.
LEMMA SrFields ==
    ASSUME NEW e \in Srs, NEW f \in 0..MaxFailures, NEW a \in BOOLEAN
    PROVE  LET x == [e EXCEPT !.failures = f, !.alerted = a]
           IN  /\ x \in Srs
               /\ x.failures = f /\ x.alerted = a
               /\ x.kind = e.kind /\ x.warnings = e.warnings
BY DEF Srs

\* on_pull: what it does to the streak, to the latch and to what `status` says,
\* and when it asks for the hook.
LEMMA OnPullFacts ==
    ASSUME NEW e \in Srs, NEW o \in Outcomes
    PROVE  LET plan   == OnPull(e, o)
               failed == o.kind = "failed"
               fire   == OneMore(e.failures) >= AlertAfter
           IN  /\ plan.sr.failures = IF failed THEN OneMore(e.failures)
                                     ELSE IF o.kind = "diverged" THEN e.failures ELSE 0
               /\ plan.sr.alerted <=> IF failed THEN e.alerted \/ fire
                                      ELSE o.kind = "diverged" /\ e.alerted
               /\ plan.sr.kind = o.kind
               /\ plan.sr.warnings = e.warnings \cup Told(o)
               /\ plan.sr \in Srs
               /\ plan.decision = "alert" <=> failed /\ fire /\ ~e.alerted
               /\ plan.decision = "hook" <=>
                     /\ o.kind \notin {"failed", "diverged"}
                     /\ o.moved /\ ~o.parked /\ Hook
<1> DEFINE plan == OnPull(e, o)
           fire == OneMore(e.failures) >= AlertAfter
           told == [e EXCEPT !.kind = o.kind, !.warnings = @ \cup Told(o)]
<1>a. MaxFailures \in Nat
  BY FreshnessAssumption
<1>b. OneMore(e.failures) \in 0..MaxFailures
  BY <1>a DEF OneMore, Srs
<1>c. /\ told \in Srs
      /\ told.failures = e.failures /\ told.alerted = e.alerted
      /\ told.kind = o.kind /\ told.warnings = e.warnings \cup Told(o)
  BY DEF Told, Outcomes, Srs
<1>d. e.alerted \in BOOLEAN
  BY DEF Srs
<1>1. CASE o.kind = "diverged"
  <2>1. plan = [sr |-> told, decision |-> "none"]
    BY <1>1 DEF OnPull
  <2>2. plan.sr = told /\ plan.decision = "none"
    BY <2>1
  <2> HIDE DEF told
  <2> QED
    BY <2>2, <1>1, <1>c, <1>d
<1>2. CASE o.kind = "failed"
  <2> DEFINE alert == fire /\ ~e.alerted
             new   == [told EXCEPT !.failures = OneMore(e.failures),
                                   !.alerted = e.alerted \/ alert]
  <2>1. plan = [sr |-> new, decision |-> IF alert THEN "alert" ELSE "none"]
    BY <1>2, <1>c DEF OnPull
  <2>2. plan.sr = new /\ plan.decision = IF alert THEN "alert" ELSE "none"
    BY <2>1
  <2>3. (e.alerted \/ alert) \in BOOLEAN
    OBVIOUS
  <2>4. /\ new \in Srs
        /\ new.failures = OneMore(e.failures) /\ new.alerted = (e.alerted \/ alert)
        /\ new.kind = told.kind /\ new.warnings = told.warnings
    <3> DEFINE latch == e.alerted \/ alert
    <3> HIDE DEF told, alert, latch
    <3>1. latch \in BOOLEAN
      BY <2>3 DEF latch
    <3>2. new = [told EXCEPT !.failures = OneMore(e.failures), !.alerted = latch]
      BY DEF latch
    <3>3. LET x == [told EXCEPT !.failures = OneMore(e.failures), !.alerted = latch]
          IN  /\ x \in Srs
              /\ x.failures = OneMore(e.failures) /\ x.alerted = latch
              /\ x.kind = told.kind /\ x.warnings = told.warnings
      BY <1>b, <1>c, <3>1 DEF Srs
    <3> HIDE DEF new
    <3> QED
      BY <3>2, <3>3 DEF latch
  <2> HIDE DEF told, new
  <2> QED
    BY <2>2, <2>4, <1>2, <1>c, <1>d
<1>3. CASE o.kind \notin {"diverged", "failed"}
  <2> DEFINE new == [told EXCEPT !.failures = 0, !.alerted = FALSE]
  <2>1. plan = [sr |-> new,
                decision |-> IF o.moved /\ ~o.parked /\ Hook THEN "hook" ELSE "none"]
    BY <1>3 DEF OnPull
  <2>2. /\ plan.sr = new
        /\ plan.decision = IF o.moved /\ ~o.parked /\ Hook THEN "hook" ELSE "none"
    BY <2>1
  <2>3. /\ new \in Srs
        /\ new.failures = 0 /\ new.alerted = FALSE
        /\ new.kind = told.kind /\ new.warnings = told.warnings
    <3> HIDE DEF told
    <3>1. 0 \in 0..MaxFailures /\ FALSE \in BOOLEAN
      BY <1>a
    <3> QED
      BY <1>c, <3>1, SrFields
  <2> HIDE DEF told, new
  <2> QED
    BY <2>2, <2>3, <1>3, <1>c, <1>d
<1> QED
  BY <1>1, <1>2, <1>3

\* The pull is over: the books balance again, and everything else follows from
\* the outcome.
LEMMA ConcludeFacts ==
    ASSUME NEW e \in Srs, NEW o \in Outcomes, Conclude(e, o),
           streak \in 0..MaxFailures,
           e.failures = streak, e.alerted <=> streak >= AlertAfter,
           alerts = IF streak >= AlertAfter THEN 1 ELSE 0
    PROVE  /\ sr' \in Srs
           /\ streak' \in 0..MaxFailures
           /\ Booked'
           /\ step' \in {"idle", "hook"}
           /\ step' = "hook" <=> /\ o.kind \notin {"failed", "diverged"}
                                /\ o.moved /\ ~o.parked /\ Hook
           /\ pull' = NoPull
           /\ sr'.kind = o.kind
           /\ sr'.warnings = e.warnings \cup Told(o)
<1> DEFINE plan == OnPull(e, o)
           goes == CASE o.kind = "failed" -> OneMore(streak)
                     [] o.kind = "diverged" -> streak
                     [] OTHER -> 0
<1>a. /\ MaxFailures \in Nat
      /\ AlertAfter \in Nat \ {0}
      /\ MaxFailures >= AlertAfter
  BY FreshnessAssumption
<1>1. /\ sr' = plan.sr
      /\ step' = IF plan.decision = "hook" THEN "hook" ELSE "idle"
      /\ pull' = NoPull
      /\ streak' = goes
      /\ alerts' = IF goes = 0 THEN 0
                   ELSE IF plan.decision = "alert" THEN alerts + 1 ELSE alerts
  BY DEF Conclude
<1>2. /\ plan.sr.failures = IF o.kind = "failed" THEN OneMore(e.failures)
                            ELSE IF o.kind = "diverged" THEN e.failures ELSE 0
      /\ plan.sr.alerted <=> IF o.kind = "failed"
                             THEN e.alerted \/ OneMore(e.failures) >= AlertAfter
                             ELSE o.kind = "diverged" /\ e.alerted
      /\ plan.sr.kind = o.kind
      /\ plan.sr.warnings = e.warnings \cup Told(o)
      /\ plan.sr \in Srs
      /\ plan.decision = "alert" <=> /\ o.kind = "failed" /\ ~e.alerted
                                     /\ OneMore(e.failures) >= AlertAfter
      /\ plan.decision = "hook" <=>
            /\ o.kind \notin {"failed", "diverged"}
            /\ o.moved /\ ~o.parked /\ Hook
  BY OnPullFacts
<1> HIDE DEF plan
<1>3. /\ goes \in 0..MaxFailures
      /\ o.kind = "failed" => goes > 0 /\ (streak >= AlertAfter => goes >= AlertAfter)
  BY <1>a DEF OneMore
<1>4. sr'.failures = goes
  BY <1>1, <1>2
<1>5. sr'.alerted <=> goes >= AlertAfter
  <2>1. CASE o.kind = "failed"
    BY <2>1, <1>1, <1>2, <1>3
  <2>2. CASE o.kind = "diverged"
    BY <2>2, <1>1, <1>2
  <2>3. CASE o.kind \notin {"failed", "diverged"}
    BY <2>3, <1>1, <1>2, <1>a
  <2> QED
    BY <2>1, <2>2, <2>3
<1>6. alerts' = IF goes >= AlertAfter THEN 1 ELSE 0
  <2>1. CASE o.kind = "failed"
    <3>1. plan.decision = "alert" <=> goes >= AlertAfter /\ ~(streak >= AlertAfter)
      BY <2>1, <1>2
    <3> HIDE DEF goes
    <3> QED
      BY <2>1, <3>1, <1>1, <1>3, <1>a
  <2>2. CASE o.kind # "failed"
    <3>1. goes = streak \/ goes = 0
      BY <2>2
    <3>2. alerts' = IF goes = 0 THEN 0 ELSE alerts
      BY <2>2, <1>1, <1>2
    <3> HIDE DEF goes
    <3> QED
      BY <3>1, <3>2, <1>a
  <2> QED
    BY <2>1, <2>2
<1> HIDE DEF goes
<1>7. Booked'
  BY <1>1, <1>4, <1>5, <1>6 DEF Booked
<1> QED
  BY <1>1, <1>2, <1>3, <1>7

----
(* The steps. *)

LEMMA Constants ==
    /\ MaxCommits \in Nat /\ MaxFailures \in Nat /\ MaxRestarts \in Nat
    /\ AlertAfter \in Nat \ {0}
    /\ Hook \in BOOLEAN
BY FreshnessAssumption

LEMMA NoPullTyped == NoPull \in Pulls
BY DEF NoPull, NoTip, Pulls, Kinds

LEMMA InitEstablishes == Init => IInv
<1> SUFFICES ASSUME Init PROVE IInv
  OBVIOUS
<1>1. TypeOK
  <2>1. NewEntity \in Srs
    BY Constants DEF NewEntity, Srs, Kinds
  <2>2. local \in Branches
    BY Constants DEF Init, Branches
  <2>3. sess \in [Sessions -> {"idle", "working"}]
    BY DEF Init
  <2>4. /\ repo \in {"none", "local", "remote"} /\ head \in {"default", "other"}
        /\ network \in {"up", "slow", "down"}
        /\ step \in {"idle", "inspect", "run", "finish", "hook", "raised"}
    BY DEF Init
  <2>8. dirty \in BOOLEAN
    BY DEF Init
  <2>9. upstream \in 0..MaxCommits
    BY Constants DEF Init
  <2>5. pull \in Pulls /\ sr \in Srs
    BY <2>1, NoPullTyped DEF Init
  <2>6. restarts \in 0..MaxRestarts /\ streak \in 0..MaxFailures /\ alerts \in {0, 1}
    BY Constants DEF Init
  <2>7. owed \in BOOLEAN /\ disturbed \subseteq Sessions /\ behind \in BOOLEAN
    BY DEF Init
  <2> QED
    BY <2>2, <2>3, <2>4, <2>5, <2>6, <2>7, <2>8, <2>9 DEF TypeOK, Srs
<1>2. Booked /\ Planned /\ Left /\ HookFollowsMove /\ StaleExplained
  BY Constants DEF Init, Booked, Planned, Left, HookFollowsMove, StaleExplained, NewEntity
<1> QED
  BY <1>1, <1>2 DEF IInv

\* plan_freshness touches the warnings only.
LEMMA PlanFacts ==
    ASSUME TypeOK, NEW git \in BOOLEAN, NEW working \in SUBSET Sessions
    PROVE  LET plan == PlanFreshness(git, working)
           IN  /\ plan.sr \in Srs
               /\ plan.sr.failures = sr.failures /\ plan.sr.alerted = sr.alerted
               /\ plan.decision = "pull" <=> git /\ working = {}
               /\ plan.decision \in {"pull", "skip"}
<1> DEFINE deferred == git /\ working # {}
           told == IF deferred THEN {"deferred"} ELSE {}
           new  == [sr EXCEPT !.warnings = told]
<1>1. sr \in Srs /\ told \in SUBSET PullWarnings
  BY DEF TypeOK, Srs, PullWarnings
<1>2. new \in Srs /\ new.failures = sr.failures /\ new.alerted = sr.alerted
  <2> HIDE DEF told
  <2> QED
    BY <1>1 DEF Srs
<1>3. PlanFreshness(git, working) =
          [sr |-> new, decision |-> IF git /\ ~deferred THEN "pull" ELSE "skip"]
  BY DEF PlanFreshness
<1> HIDE DEF new
<1> QED
  BY <1>2, <1>3

LEMMA FreshenStep ==
    ASSUME NEW unread \in SUBSET AtWork PROVE IInv /\ Freshen(unread) => IInv'
<1> SUFFICES ASSUME IInv, Freshen(unread) PROVE IInv'
  OBVIOUS
<1> USE DEF IInv
<1> DEFINE plan == PlanFreshness(repo # "none", Workers(unread))
           over == Outcome("not-a-repo", FALSE, FALSE)
           goes == [NoPull EXCEPT !.unread = unread]
<1>0. unread \in SUBSET Sessions
  BY DEF AtWork
<1>1. /\ plan.sr \in Srs
      /\ plan.sr.failures = sr.failures /\ plan.sr.alerted = sr.alerted
      /\ plan.decision = "pull" <=> repo # "none" /\ Workers(unread) = {}
      /\ plan.decision \in {"pull", "skip"}
  <2>1. Workers(unread) \in SUBSET Sessions /\ (repo # "none") \in BOOLEAN
    BY DEF Workers, AtWork
  <2> QED
    BY <2>1, PlanFacts
<1>2. /\ step \in {"idle", "raised"}
      /\ ~owed' /\ ~behind' /\ owed' \in BOOLEAN /\ behind' \in BOOLEAN
      /\ UNCHANGED << machine, restarts, disturbed >>
  BY DEF Freshen
<1>3. \/ /\ step' = "inspect" /\ plan.decision = "pull"
         /\ pull' = goes
         /\ sr' = plan.sr
         /\ UNCHANGED << streak, alerts >>
      \/ /\ step' = "idle"
         /\ sr' = plan.sr
         /\ UNCHANGED << pull, streak, alerts >>
      \/ Conclude(plan.sr, over)
  BY DEF Freshen
<1>a. goes \in Pulls /\ goes.unread = unread
  BY <1>0, NoPullTyped DEF Pulls, NoPull
<1> HIDE DEF plan, goes
<1>4. /\ sr' \in Srs /\ pull' \in Pulls /\ streak' \in 0..MaxFailures
      /\ Booked'
      /\ step' \in {"idle", "inspect"}
      /\ step' = "inspect" => plan.decision = "pull" /\ pull' = goes
  <2>1. CASE Conclude(plan.sr, over)
    <3>1. over \in Outcomes /\ ~over.moved /\ over.kind = "not-a-repo"
      BY DEF Outcome, Outcomes, Kinds
    <3>2. /\ plan.sr.failures = streak
          /\ plan.sr.alerted <=> streak >= AlertAfter
          /\ streak \in 0..MaxFailures
          /\ alerts = IF streak >= AlertAfter THEN 1 ELSE 0
      BY <1>1 DEF Booked, TypeOK
    <3> HIDE DEF over
    <3> QED
      BY <2>1, <1>1, <3>1, <3>2, ConcludeFacts, NoPullTyped
  <2>2. CASE /\ step' = "inspect" /\ plan.decision = "pull"
             /\ pull' = goes
             /\ sr' = plan.sr
             /\ UNCHANGED << streak, alerts >>
    BY <2>2, <1>1, <1>a DEF Booked, TypeOK
  <2>3. CASE /\ step' = "idle"
             /\ sr' = plan.sr
             /\ UNCHANGED << pull, streak, alerts >>
    BY <2>3, <1>1 DEF Booked, TypeOK
  <2> QED
    BY <1>3, <2>1, <2>2, <2>3
<1>5. TypeOK'
  BY <1>2, <1>4, Constants DEF TypeOK, Booked, Srs, machine
<1>6. step' = "inspect" => disturbed \subseteq pull'.unread
  <2> SUFFICES ASSUME step' = "inspect" PROVE disturbed \subseteq unread
    BY <1>4, <1>a
  <2>1. Workers(unread) = {}
    BY <1>1, <1>4
  <2> QED
    BY <2>1 DEF Workers, Planned
<1>7. AtWork' = AtWork /\ disturbed' = disturbed
  BY <1>2 DEF AtWork, machine
<1>8. Planned'
  BY <1>2, <1>4, <1>6, <1>7 DEF Planned, machine
<1>9. Left' /\ HookFollowsMove' /\ StaleExplained'
  BY <1>2, <1>4 DEF Left, HookFollowsMove, StaleExplained
<1> QED
  BY <1>4, <1>5, <1>8, <1>9

\* An exception leaves the books as they are: what it loses, it loses in "raised".
LEMMA FreshenRaisesStep == IInv /\ FreshenRaises => IInv'
<1> SUFFICES ASSUME IInv, FreshenRaises PROVE IInv'
  OBVIOUS
<1> USE DEF IInv
<1>1. /\ step' = "raised" /\ pull' = NoPull
      /\ UNCHANGED << machine, sr, restarts, history >>
  BY DEF FreshenRaises
<1>2. TypeOK' /\ Booked'
  BY <1>1, NoPullTyped DEF TypeOK, Booked, machine, history
<1>3. AtWork' = AtWork
  BY <1>1 DEF AtWork, machine
<1>4. Planned' /\ Left' /\ HookFollowsMove' /\ StaleExplained'
  BY <1>1, <1>3 DEF Planned, Left, HookFollowsMove, StaleExplained, machine, history
<1> QED
  BY <1>2, <1>4

LEMMA InspectStep == IInv /\ Inspect => IInv'
<1> SUFFICES ASSUME IInv, Inspect PROVE IInv'
  OBVIOUS
<1> USE DEF IInv
<1> DEFINE over == Outcome(IF repo = "none" THEN "not-a-repo" ELSE "no-default-branch",
                           FALSE, FALSE)
<1>1. /\ step = "inspect"
      /\ UNCHANGED << machine, restarts, owed, disturbed, behind >>
      /\ AtWork' = AtWork
  BY DEF Inspect, AtWork, machine
<1>2. CASE repo = "remote"
  <2>1. /\ pull' = [pull EXCEPT !.before = Tip, !.parked = head = "other", !.way = Way]
        /\ step' = "run"
        /\ UNCHANGED << sr, streak, alerts >>
    BY <1>2 DEF Inspect
  <2>2. /\ Tip = local /\ (head = "other") \in BOOLEAN
        /\ Way \in {"pull", "fetch ref", "fetch"}
        /\ Way = "pull" => ~(head = "other")
    BY <1>2 DEF Tip, Way
  <2>3. /\ pull' \in Pulls
        /\ pull'.before = local /\ pull'.unread = pull.unread
        /\ pull'.way = "pull" => ~pull'.parked
    <3> DEFINE parked == head = "other"
    <3> HIDE DEF parked
    <3>1. pull \in Pulls /\ local \in Branches \cup {NoTip} /\ parked \in BOOLEAN
      BY <2>2 DEF TypeOK, parked
    <3>2. pull' = [pull EXCEPT !.before = local, !.parked = parked, !.way = Way]
      BY <2>1, <2>2 DEF parked
    <3>3. Way = "pull" => ~parked
      BY <2>2 DEF parked
    <3> QED
      BY <2>2, <3>1, <3>2, <3>3 DEF Pulls
  <2>4. local \in Branches /\ local.base <= local.base
    BY Constants DEF TypeOK, Branches
  <2>5. TypeOK'
    BY <1>1, <2>1, <2>3 DEF TypeOK, machine
  <2> QED
    BY <1>1, <2>1, <2>3, <2>4, <2>5
       DEF Booked, Planned, Left, HookFollowsMove, StaleExplained, machine
<1>3. CASE repo # "remote"
  <2>1. Conclude(sr, over)
    BY <1>3 DEF Inspect
  <2>2. over \in Outcomes /\ ~over.moved
    BY DEF Outcome, Outcomes, Kinds
  <2>3. /\ sr \in Srs /\ sr.failures = streak
        /\ sr.alerted <=> streak >= AlertAfter
        /\ streak \in 0..MaxFailures
        /\ alerts = IF streak >= AlertAfter THEN 1 ELSE 0
    BY DEF Booked, TypeOK, Srs
  <2> HIDE DEF over
  <2>4. /\ sr' \in Srs /\ streak' \in 0..MaxFailures /\ Booked'
        /\ pull' = NoPull /\ step' = "idle"
    BY <2>1, <2>2, <2>3, ConcludeFacts
  <2>5. TypeOK'
    BY <1>1, <2>4, Constants, NoPullTyped DEF TypeOK, Booked, Srs, machine
  <2> QED
    BY <1>1, <2>4, <2>5 DEF Planned, Left, HookFollowsMove, StaleExplained, machine
<1> QED
  BY <1>2, <1>3

\* What each git command may do to the branch, and how it may be reported.
LEMMA RunGitFacts ==
    ASSUME IInv, RunGit
    PROVE  /\ local' \in Branches /\ pull' \in Pulls
           /\ pull' = [pull EXCEPT !.kind = pull'.kind]
           /\ \/ local' = local
              \/ /\ local'.base = upstream /\ local'.base >= local.base
                 /\ pull.way = "pull" =>
                       /\ ~pull.parked
                       /\ local' # local => local.base < local'.base
                       /\ pull'.kind \in {"ff-pulled", "failed"}
           /\ \/ local'.base = upstream
              \/ pull.parked # (head = "other")
              \/ pull'.kind \in {"fetched-dirty", "diverged", "failed"}
           /\ local' # local /\ head = "default" => pull.way = "pull"
<1> USE DEF IInv
<1>1. /\ step = "run" /\ pull \in Pulls
      /\ local \in Branches /\ upstream \in 0..MaxCommits
      /\ local.base <= upstream /\ local.base \in 0..MaxCommits
      /\ pull.way = "pull" => ~pull.parked
      /\ head \in {"default", "other"}
  BY DEF RunGit, TypeOK, Planned, Branches
<1>2. ASSUME NEW kinds \in SUBSET Kinds, Moves(kinds)
      PROVE  /\ local' \in Branches /\ pull' \in Pulls
             /\ pull' = [pull EXCEPT !.kind = pull'.kind]
             /\ pull'.kind \in kinds
             /\ local'.base = upstream /\ local'.base >= local.base
             /\ local' # local => local.base < local'.base
  <2>1. PICK kind \in kinds : pull' = [pull EXCEPT !.kind = kind]
    BY <1>2 DEF Moves
  <2>2. pull' \in Pulls /\ pull'.kind = kind
    BY <1>1, <2>1 DEF Pulls
  <2>3. local' = [local EXCEPT !.base = upstream]
    BY <1>2 DEF Moves
  <2>4. local' \in Branches /\ local'.base = upstream
    BY <1>1, <2>3 DEF Branches
  <2>5. local.base = upstream => local' = local
    BY <1>1, <2>3 DEF Branches
  <2> QED
    BY <1>1, <2>1, <2>2, <2>4, <2>5, Constants
<1>3. ASSUME NEW kinds \in SUBSET Kinds, Stays(kinds)
      PROVE  /\ local' = local /\ pull' \in Pulls
             /\ pull' = [pull EXCEPT !.kind = pull'.kind]
             /\ pull'.kind \in kinds
  <2>1. PICK kind \in kinds : pull' = [pull EXCEPT !.kind = kind]
    BY <1>3 DEF Stays
  <2>2. pull' \in Pulls /\ pull'.kind = kind
    BY <1>1, <2>1 DEF Pulls
  <2> QED
    BY <1>3, <2>1, <2>2 DEF Stays
<1>4. ASSUME NEW kind \in Kinds
      PROVE  Answers(kind) \subseteq {kind, "failed"} /\ Answers(kind) \subseteq Kinds
  BY DEF Answers, Kinds
<1>5. CASE GitFails
  BY <1>1, <1>3, <1>5 DEF GitFails, Kinds
<1>6. CASE PullFastForwards
  <2>1. "ff-pulled" \in Kinds
    BY DEF Kinds
  <2> QED
    BY <1>1, <1>2, <1>4, <1>6, <2>1 DEF PullFastForwards
<1>7. CASE PullDiverges
  BY <1>1, <1>3, <1>7 DEF PullDiverges, Kinds
<1>8. CASE PullBlocked
  BY <1>1, <1>3, <1>8 DEF PullBlocked, Kinds
<1>9. CASE PullsElsewhere
  BY <1>1, <1>3, <1>9 DEF PullsElsewhere, Kinds
<1>10. CASE RefUpdates
  <2>1. "ref-updated" \in Kinds
    BY DEF Kinds
  <2> QED
    BY <1>1, <1>2, <1>4, <1>10, <2>1 DEF RefUpdates
<1>11. CASE RefRefused
  BY <1>1, <1>3, <1>11 DEF RefRefused, Kinds
<1>12. CASE FetchOnly
  <2>1. "fetched-dirty" \in Kinds
    BY DEF Kinds
  <2> QED
    BY <1>1, <1>3, <1>4, <1>12, <2>1 DEF FetchOnly
<1> QED
  BY <1>5, <1>6, <1>7, <1>8, <1>9, <1>10, <1>11, <1>12 DEF RunGit

LEMMA RunGitStep == IInv /\ RunGit => IInv'
<1> SUFFICES ASSUME IInv, RunGit PROVE IInv'
  OBVIOUS
<1> USE DEF IInv
<1>1. /\ step = "run" /\ step' = "finish"
      /\ owed' = (Hook /\ pull.way = "pull" /\ local' # local)
      /\ behind' = (local'.base # upstream /\ pull.parked = (head = "other"))
      /\ disturbed' \subseteq disturbed \cup AtWork
      /\ UNCHANGED << repo, head, dirty, upstream, network, sess, sr, restarts,
                      streak, alerts >>
      /\ AtWork' = AtWork
  BY DEF RunGit, AtWork
<1>2. /\ local' \in Branches /\ pull' \in Pulls
      /\ pull' = [pull EXCEPT !.kind = pull'.kind]
      /\ \/ local' = local
         \/ /\ local'.base = upstream /\ local'.base >= local.base
            /\ pull.way = "pull" =>
                  /\ ~pull.parked
                  /\ local' # local => local.base < local'.base
                  /\ pull'.kind \in {"ff-pulled", "failed"}
      /\ \/ local'.base = upstream
         \/ pull.parked # (head = "other")
         \/ pull'.kind \in {"fetched-dirty", "diverged", "failed"}
  BY RunGitFacts
<1>3. pull'.before = pull.before /\ pull'.parked = pull.parked /\ pull'.way = pull.way
  BY <1>2 DEF TypeOK, Pulls
<1>4. /\ pull.before \in Branches /\ pull.before.base <= local.base
      /\ pull.way = "pull" => ~pull.parked
      /\ local.base <= upstream
      /\ local.base \in Nat /\ pull.before.base \in Nat /\ local'.base \in Nat
      /\ upstream \in Nat
  BY <1>1, <1>2, Constants DEF Planned, TypeOK, Branches
<1>5. owed' \in BOOLEAN /\ behind' \in BOOLEAN
  BY <1>1
<1>6. TypeOK'
  <2>1. disturbed' \subseteq Sessions
    BY <1>1 DEF TypeOK, AtWork
  <2> QED
    BY <1>1, <1>2, <1>5, <2>1 DEF TypeOK
<1>7. Booked'
  BY <1>1 DEF Booked
<1>8. Planned'
  BY <1>1, <1>2, <1>3, <1>4 DEF Planned
<1>9. owed' => /\ Hook' /\ ~pull'.parked
               /\ pull'.before.base < local'.base
               /\ pull'.kind \in {"ff-pulled", "failed"}
  <2> SUFFICES ASSUME owed' PROVE /\ ~pull.parked /\ Hook
                                  /\ pull.before.base < local'.base
                                  /\ pull'.kind \in {"ff-pulled", "failed"}
    BY <1>3
  <2>1. Hook /\ pull.way = "pull" /\ local' # local
    BY <1>1
  <2> QED
    BY <1>2, <1>4, <2>1
<1>10. behind' => pull'.parked \/ pull'.kind \in {"fetched-dirty", "diverged", "failed"}
  <2> SUFFICES ASSUME behind'
               PROVE  pull'.kind \in {"fetched-dirty", "diverged", "failed"}
    OBVIOUS
  <2>1. local'.base # upstream /\ pull.parked = (head = "other")
    BY <1>1
  <2> QED
    BY <1>2, <2>1
<1>11. Left' /\ HookFollowsMove' /\ StaleExplained'
  BY <1>1, <1>9, <1>10 DEF Left, HookFollowsMove, StaleExplained
<1> QED
  BY <1>6, <1>7, <1>8, <1>11

LEMMA FinishStep == IInv /\ Finish => IInv'
<1> SUFFICES ASSUME IInv, Finish PROVE IInv'
  OBVIOUS
<1> USE DEF IInv
<1> DEFINE moved == pull.before # Tip
           over  == Outcome(pull.kind, moved, pull.parked)
<1>1. /\ step = "finish" /\ Conclude(sr, over)
      /\ owed' = (owed /\ step' # "hook")
      /\ UNCHANGED << machine, restarts, disturbed, behind >>
      /\ AtWork' = AtWork
  BY DEF Finish, AtWork, machine
<1>2. /\ over \in Outcomes /\ over.kind = pull.kind
      /\ over.moved = moved /\ over.parked = pull.parked
  <2> HIDE DEF moved
  <2>1. moved \in BOOLEAN
    BY DEF moved
  <2> QED
    BY <2>1 DEF Outcome, Outcomes, TypeOK, Pulls
<1>3. /\ sr \in Srs /\ sr.failures = streak
      /\ sr.alerted <=> streak >= AlertAfter
      /\ streak \in 0..MaxFailures
      /\ alerts = IF streak >= AlertAfter THEN 1 ELSE 0
  BY DEF Booked, TypeOK, Srs
<1> HIDE DEF over
<1>4. /\ sr' \in Srs /\ streak' \in 0..MaxFailures /\ Booked'
      /\ pull' = NoPull /\ step' \in {"idle", "hook"}
      /\ step' = "hook" <=> /\ pull.kind \notin {"failed", "diverged"}
                           /\ moved /\ ~pull.parked /\ Hook
      /\ sr'.kind = pull.kind
      /\ sr'.warnings = sr.warnings \cup Told(over)
  BY <1>1, <1>2, <1>3, ConcludeFacts
<1>5. owed => pull.kind = "failed" \/ step' = "hook"
  <2> SUFFICES ASSUME owed, pull.kind # "failed" PROVE step' = "hook"
    OBVIOUS
  <2>1. /\ Hook /\ ~pull.parked /\ pull.kind = "ff-pulled"
        /\ pull.before \in Branches /\ pull.before.base < local.base
    BY <1>1 DEF Left, Planned
  <2>2. Tip \in {local, NoTip}
    BY DEF Tip
  <2>3. local.base \in Nat /\ pull.before.base \in Nat
    BY <2>1, Constants DEF TypeOK, Branches
  <2>4. pull.before # local
    BY <2>1, <2>3
  <2>5. pull.before # NoTip
    BY <2>1 DEF Branches, NoTip
  <2> QED
    BY <1>4, <2>1, <2>2, <2>4, <2>5
<1>6. behind => sr'.warnings # {}
  <2> SUFFICES ASSUME behind PROVE Told(over) # {}
    BY <1>4
  <2>1. pull.parked \/ pull.kind \in {"fetched-dirty", "diverged", "failed"}
    BY <1>1 DEF Left
  <2> QED
    BY <1>2, <2>1 DEF Told, PullWarnings
<1>7. owed' \in BOOLEAN
  BY <1>1
<1>8. TypeOK'
  BY <1>1, <1>4, <1>7, Constants, NoPullTyped DEF TypeOK, Booked, Srs, machine
<1>9. Planned' /\ Left' /\ HookFollowsMove' /\ StaleExplained'
  BY <1>1, <1>4, <1>5, <1>6 DEF Planned, Left, HookFollowsMove, StaleExplained, machine
<1> QED
  BY <1>4, <1>8, <1>9

LEMMA RunHookStep == ASSUME NEW works \in BOOLEAN PROVE IInv /\ RunHook(works) => IInv'
<1> SUFFICES ASSUME IInv, RunHook(works) PROVE IInv'
  OBVIOUS
<1> USE DEF IInv
<1>1. /\ step = "hook" /\ step' = "idle"
      /\ UNCHANGED << machine, pull, restarts, history >>
      /\ sr' = IF works THEN sr ELSE [sr EXCEPT !.warnings = @ \cup {"post_pull"}]
      /\ AtWork' = AtWork
  BY DEF RunHook, AtWork, machine
<1>2. /\ sr' \in Srs /\ sr'.failures = sr.failures /\ sr'.alerted = sr.alerted
      /\ sr.warnings \subseteq sr'.warnings
  BY <1>1 DEF TypeOK, Srs, PullWarnings
<1>3. TypeOK' /\ Booked'
  BY <1>1, <1>2 DEF TypeOK, Booked, Srs, machine, history
<1>4. Planned' /\ Left' /\ HookFollowsMove' /\ StaleExplained'
  BY <1>1, <1>2 DEF Planned, Left, HookFollowsMove, StaleExplained, machine, history
<1> QED
  BY <1>3, <1>4

LEMMA RestartStep == IInv /\ Restart => IInv'
<1> SUFFICES ASSUME IInv, Restart PROVE IInv'
  OBVIOUS
<1> USE DEF IInv
<1>1. NewEntity \in Srs /\ NewEntity.failures = 0 /\ ~NewEntity.alerted
  BY Constants DEF NewEntity, Srs, Kinds
<1>2. TypeOK'
  <2>1. UNCHANGED machine
    BY DEF Restart
  <2>2. step' = "idle" /\ pull' \in Pulls /\ sr' \in Srs
    BY <1>1, NoPullTyped DEF Restart
  <2>3. restarts' \in 0..MaxRestarts /\ streak' \in 0..MaxFailures /\ alerts' \in {0, 1}
    BY Constants DEF Restart, TypeOK
  <2>4. owed' \in BOOLEAN /\ disturbed' \subseteq Sessions /\ behind' \in BOOLEAN
    BY DEF Restart, TypeOK
  <2> QED
    BY <2>1, <2>2, <2>3, <2>4 DEF TypeOK, Srs, machine
<1>3. Booked'
  BY <1>1, Constants DEF Restart, Booked
<1>4. Planned' /\ Left' /\ HookFollowsMove' /\ StaleExplained'
  BY DEF Restart, Planned, Left, HookFollowsMove, StaleExplained, AtWork, machine
<1> QED
  BY <1>2, <1>3, <1>4

\* The user, the sessions and origin move between any two steps of a pull, and
\* only ever forward where it matters: origin's branch grows, and a session whose
\* work ends or begins has not been disturbed since.
LEMMA WorldStep == IInv /\ World => IInv'
<1> SUFFICES ASSUME IInv, World PROVE IInv'
  OBVIOUS
<1> USE DEF IInv
<1>1. UNCHANGED << step, pull, sr, restarts, streak, alerts, owed, behind >>
  BY DEF World
<1>2. /\ repo' \in {"none", "local", "remote"} /\ head' \in {"default", "other"}
      /\ dirty' \in BOOLEAN /\ local' \in Branches /\ upstream' \in 0..MaxCommits
      /\ network' \in {"up", "slow", "down"}
      /\ sess' \in [Sessions -> {"idle", "working"}]
      /\ disturbed' \subseteq disturbed /\ disturbed' \subseteq AtWork'
      /\ local'.base = local.base /\ upstream' >= upstream
  <2> USE DEF TypeOK
  <2>0. upstream \in Nat
    BY Constants
  <2>a. disturbed \subseteq AtWork
    BY DEF Planned
  <2>8. sess' = sess /\ disturbed' = disturbed
        => /\ disturbed' \subseteq disturbed /\ disturbed' \subseteq AtWork'
           /\ sess' \in [Sessions -> {"idle", "working"}]
    BY <2>a DEF AtWork
  <2>1. CASE Publish /\ UNCHANGED disturbed
    <3>1. sess' = sess /\ disturbed' = disturbed
      BY <2>1 DEF Publish
    <3>2. /\ repo' \in {"none", "local", "remote"} /\ head' \in {"default", "other"}
          /\ dirty' \in BOOLEAN /\ local' \in Branches /\ upstream' \in 0..MaxCommits
          /\ network' \in {"up", "slow", "down"}
          /\ local'.base = local.base /\ upstream' >= upstream
      BY <2>1, <2>0, Constants DEF Publish
    <3> QED
      BY <2>8, <3>1, <3>2
  <2>2. CASE Commit /\ UNCHANGED disturbed
    <3>1. sess' = sess /\ disturbed' = disturbed
      BY <2>2 DEF Commit
    <3>2. /\ repo' \in {"none", "local", "remote"} /\ head' \in {"default", "other"}
          /\ dirty' \in BOOLEAN /\ local' \in Branches /\ upstream' \in 0..MaxCommits
          /\ network' \in {"up", "slow", "down"}
          /\ local'.base = local.base /\ upstream' >= upstream
      BY <2>2, <2>0 DEF Commit, Branches
    <3> QED
      BY <2>8, <3>1, <3>2
  <2>3. CASE Switch /\ UNCHANGED disturbed
    <3>1. sess' = sess /\ disturbed' = disturbed
      BY <2>3 DEF Switch
    <3>2. /\ repo' \in {"none", "local", "remote"} /\ head' \in {"default", "other"}
          /\ dirty' \in BOOLEAN /\ local' \in Branches /\ upstream' \in 0..MaxCommits
          /\ network' \in {"up", "slow", "down"}
          /\ local'.base = local.base /\ upstream' >= upstream
      BY <2>3, <2>0 DEF Switch
    <3> QED
      BY <2>8, <3>1, <3>2
  <2>4. CASE Edit /\ UNCHANGED disturbed
    <3>1. sess' = sess /\ disturbed' = disturbed
      BY <2>4 DEF Edit
    <3>2. /\ repo' \in {"none", "local", "remote"} /\ head' \in {"default", "other"}
          /\ dirty' \in BOOLEAN /\ local' \in Branches /\ upstream' \in 0..MaxCommits
          /\ network' \in {"up", "slow", "down"}
          /\ local'.base = local.base /\ upstream' >= upstream
      BY <2>4, <2>0 DEF Edit
    <3> QED
      BY <2>8, <3>1, <3>2
  <2>5. CASE SetUp /\ UNCHANGED disturbed
    <3>1. sess' = sess /\ disturbed' = disturbed
      BY <2>5 DEF SetUp
    <3>2. /\ repo' \in {"none", "local", "remote"} /\ head' \in {"default", "other"}
          /\ dirty' \in BOOLEAN /\ local' \in Branches /\ upstream' \in 0..MaxCommits
          /\ network' \in {"up", "slow", "down"}
          /\ local'.base = local.base /\ upstream' >= upstream
      BY <2>5, <2>0 DEF SetUp
    <3> QED
      BY <2>8, <3>1, <3>2
  <2>6. CASE NetworkChanges /\ UNCHANGED disturbed
    <3>1. sess' = sess /\ disturbed' = disturbed
      BY <2>6 DEF NetworkChanges
    <3>2. /\ repo' \in {"none", "local", "remote"} /\ head' \in {"default", "other"}
          /\ dirty' \in BOOLEAN /\ local' \in Branches /\ upstream' \in 0..MaxCommits
          /\ network' \in {"up", "slow", "down"}
          /\ local'.base = local.base /\ upstream' >= upstream
      BY <2>6, <2>0 DEF NetworkChanges
    <3> QED
      BY <2>8, <3>1, <3>2
  <2>7. ASSUME NEW s \in Sessions, SessionMoves(s)
        PROVE  /\ UNCHANGED << repo, head, dirty, local, upstream, network >>
               /\ disturbed' \subseteq disturbed /\ disturbed' \subseteq AtWork'
               /\ sess' \in [Sessions -> {"idle", "working"}]
    <3>1. /\ UNCHANGED << repo, head, dirty, local, upstream, network >>
          /\ sess' \in [Sessions -> {"idle", "working"}]
          /\ disturbed' = disturbed \ {s}
      BY <2>7 DEF SessionMoves
    <3>2. \A t \in Sessions \ {s} : sess'[t] = sess[t]
      BY <2>7 DEF SessionMoves
    <3>3. disturbed' \subseteq AtWork'
      BY <2>a, <3>1, <3>2 DEF AtWork
    <3> QED
      BY <3>1, <3>3
  <2> QED
    BY <2>0, <2>1, <2>2, <2>3, <2>4, <2>5, <2>6, <2>7 DEF World
<1>3. TypeOK'
  BY <1>1, <1>2 DEF TypeOK
<1>4. Booked'
  BY <1>1 DEF Booked
<1>5. Planned' /\ Left' /\ HookFollowsMove' /\ StaleExplained'
  <2>1. local.base <= upstream'
    BY <1>2, Constants DEF TypeOK, Planned, Branches
  <2>2. local.base \in Nat /\ upstream \in Nat /\ upstream' \in Nat /\ local.base <= upstream
    BY <1>2, Constants DEF TypeOK, Planned, Branches
  <2> QED
    BY <1>1, <1>2, <2>1, <2>2 DEF Planned, Left, HookFollowsMove, StaleExplained
<1> QED
  BY <1>3, <1>4, <1>5

LEMMA StutterStep == IInv /\ UNCHANGED vars => IInv'
BY DEF IInv, vars, machine, history, TypeOK, Booked, Planned, Left, AtWork,
       HookFollowsMove, StaleExplained

LEMMA NextPreserves == IInv /\ [Next]_vars => IInv'
BY FreshenStep, FreshenRaisesStep, InspectStep, RunGitStep, FinishStep, RunHookStep, RestartStep,
   WorldStep, StutterStep DEF Next, DaemonStep

\* The invariant holds in every reachable state of every checkout.
THEOREM FreshnessInvariant == Spec => []IInv
<1>1. Init => IInv
  BY InitEstablishes
<1>2. IInv /\ [Next]_vars => IInv'
  BY NextPreserves
<1> QED
  BY <1>1, <1>2, PTL DEF Spec

\* Every variable of freshen keeps its type, and no streak gets a second alert.
THEOREM FreshnessTyped == Spec => []TypeOK
<1>1. IInv => TypeOK
  BY DEF IInv
<1> QED
  BY <1>1, FreshnessInvariant, PTL

\* on_pull's latch and counter: whatever divergences, deferrals and skips lie in
\* between, a streak of failures is one alert.
THEOREM AlertsOnce == Spec => []OneAlertPerStreak
<1>1. IInv => OneAlertPerStreak
  BY DEF IInv, Booked, OneAlertPerStreak
<1> QED
  BY <1>1, FreshnessInvariant, PTL

\* pull's two looks at the branch: where freshen returns, a hook is lost only to a
\* command that failed after it had moved the branch.
THEOREM HooksFollow == Spec => []HookFollowsMove
<1>1. IInv => HookFollowsMove
  BY DEF IInv
<1> QED
  BY <1>1, FreshnessInvariant, PTL

\* on_pull's warnings: where freshen returns and the branch is left behind, there
\* is a warning.
THEOREM StalenessExplained == Spec => []StaleExplained
<1>1. IInv => StaleExplained
  BY DEF IInv
<1> QED
  BY <1>1, FreshnessInvariant, PTL

\* freshen's gate, a read of the sessions that the command runs long after: no pull
\* rewrites files under a session a second time, unless its read missed it.
THEOREM RewrittenAtMostOnce == Spec => RewrittenOnce
<1>1. IInv /\ [Next]_vars => [FilesMove => disturbed \subseteq pull.unread]_vars
  BY DEF IInv, Planned, FilesMove
<1> QED
  BY <1>1, FreshnessInvariant, PTL DEF Spec, RewrittenOnce

====
