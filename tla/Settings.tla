---- MODULE Settings ----
(* Registry entries (config.py): what a directory's entry states.  Two       *)
(* settings are enough to tell laying one over another from replacing it.    *)
EXTENDS Integers, FiniteSets

CONSTANT Dirs   \* directories, by their canonical path

Entries == [spawn : {"unset", "worktree", "same-dir"}, capacity : {0, 1}]

\* An entry that states nothing: the globals apply.
Unset == [spawn |-> "unset", capacity |-> 0]

NoEntry == [spawn |-> "none", capacity |-> 0]

\* Every file of interest maps directories to settings; a missing or empty file
\* is one that names no directory.
Contents == [Dirs -> Entries \cup {NoEntry}]

Blank == [d \in Dirs |-> NoEntry]

Named(map) == {d \in Dirs : map[d] # NoEntry}

\* The settings `over` states, over the ones already there.
Overlay(under, over) ==
    [spawn    |-> IF over.spawn = "unset" THEN under.spawn ELSE over.spawn,
     capacity |-> IF over.capacity = 0 THEN under.capacity ELSE over.capacity]

\* A table is laid over the entry of its directory.  A directory that is not
\* registered gets none: an upgrade must not grow the supervised fleet.
WithTables(old, legacy) ==
    [d \in Dirs |-> IF d \in Named(old) \cap Named(legacy)
                    THEN Overlay(old[d], legacy[d]) ELSE old[d]]

\* Settings laid over an entry that may not exist yet.
Laid(was, over) == Overlay(IF was = NoEntry THEN Unset ELSE was, over)

\* The inferred mode, for an entry that states none.
SameDir(entry) ==
    IF entry.spawn = "unset" THEN [entry EXCEPT !.spawn = "same-dir"] ELSE entry

\* What groundcrew is asked: add or remove directories, or any other command.
Commands == [cmd : {"read", "add", "remove"}, dirs : SUBSET Dirs, flags : Entries]

NoCommand == [cmd |-> "none", dirs |-> {}, flags |-> Unset]

====
