---- MODULE MCRegistry ----
(* Two directories, one of them outside git, and the files of an upgrade. *)
EXTENDS RegistryFile, TLC

MCFlags == {Unset, [spawn |-> "worktree", capacity |-> 0], [spawn |-> "unset", capacity |-> 1]}

\* Nothing to migrate, one table, or one for each directory.
MCLegacy ==
    {Blank, (1 :> [spawn |-> "same-dir", capacity |-> 0]) @@ (2 :> NoEntry),
     (1 :> [spawn |-> "same-dir", capacity |-> 0]) @@ (2 :> [spawn |-> "unset", capacity |-> 1])}

MCRegistered == {Blank, (1 :> [spawn |-> "unset", capacity |-> 1]) @@ (2 :> NoEntry)}

====
