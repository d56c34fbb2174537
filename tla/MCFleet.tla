---- MODULE MCFleet ----
(* A fleet without sessions: any number of repos, coming and going. *)
EXTENDS Daemon, TLC

MCOffered == {[spawn |-> "worktree", createSessionInDir |-> TRUE]}
MCDefaults == [spawn |-> "worktree", createSessionInDir |-> TRUE]

====
