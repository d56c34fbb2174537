---- MODULE MCConvergence ----
(* One repo, two session slots, two claude releases. *)
EXTENDS Daemon, TLC

CONSTANTS s1, s2

MCSessions == {s1, s2}
MCOffered == {[spawn |-> "worktree", createSessionInDir |-> TRUE]}
MCDefaults == [spawn |-> "worktree", createSessionInDir |-> TRUE]

Symmetry == Permutations(MCSessions)

====
