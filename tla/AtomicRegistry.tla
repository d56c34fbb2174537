---- MODULE AtomicRegistry ----
(* What the registry and the migration of legacy settings promise to whoever *)
(* reads the files: a command changes the registry in one step, from the     *)
(* entries as they stand then and only once no legacy table is left, and the *)
(* tables go away only when the registry holds their settings.               *)
EXTENDS Settings

VARIABLES
    registry,  \* repos.toml as its readers see it
    tables,    \* the legacy tables of config.toml
    asked      \* the command under way that has not had its effect

Ask(command) ==
    /\ asked = NoCommand
    /\ asked' = command
    /\ UNCHANGED << registry, tables >>

\* It crashes, refuses, or has nothing to do.
GiveUp ==
    /\ asked' = NoCommand
    /\ UNCHANGED << registry, tables >>

LayTables ==
    /\ asked # NoCommand
    /\ registry' = WithTables(registry, tables)
    /\ UNCHANGED << tables, asked >>

DropTables ==
    /\ asked # NoCommand
    /\ registry = WithTables(registry, tables)
    /\ tables' = Blank
    /\ UNCHANGED << registry, asked >>

\* What the command was given, over what the entry states; and same-dir where
\* neither says how to spawn, if that is all the directory can do.
Add(dirs, inferred) ==
    /\ asked.cmd = "add" /\ tables = Blank
    /\ registry' = [d \in Dirs |->
                      LET entry == Laid(registry[d], asked.flags)
                      IN  IF d \notin dirs THEN registry[d]
                          ELSE IF d \in inferred THEN SameDir(entry) ELSE entry]
    /\ asked' = NoCommand
    /\ UNCHANGED tables

Remove ==
    /\ asked.cmd = "remove" /\ tables = Blank
    /\ registry' = [d \in Dirs |-> IF d \in asked.dirs THEN NoEntry ELSE registry[d]]
    /\ asked' = NoCommand
    /\ UNCHANGED tables

Init ==
    /\ registry \in Contents
    /\ tables \in Contents
    /\ asked = NoCommand

Next ==
    \/ \E command \in Commands : Ask(command)
    \/ GiveUp
    \/ LayTables \/ DropTables
    \/ \E dirs \in SUBSET asked.dirs, inferred \in SUBSET Dirs : Add(dirs, inferred)
    \/ Remove

Spec == Init /\ [][Next]_<< registry, tables, asked >>

====
