---- MODULE MCLifecycle ----
(* One repo over its whole life, with every setting it can be given. *)
EXTENDS Daemon, TLC

CONSTANTS s1

MCSessions == {s1}
Anchored == [spawn |-> "worktree", createSessionInDir |-> TRUE]
Anchorless == [spawn |-> "same-dir", createSessionInDir |-> FALSE]
MCOffered == {Anchored}
MCDefaults == Anchored
MCSameDir == {Anchorless}
AnySettings == {Anchored, Anchorless}

====
