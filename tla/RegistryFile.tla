---- MODULE RegistryFile ----
(* The files groundcrew writes, and the commands that write them:            *)
(* atomic_write and the registry (config.py), add and remove (cli.py),       *)
(* seed_trust (claude_state.py) and the migration that every invocation runs *)
(* first (migrate.py).                                                       *)
(*                                                                           *)
(* An invocation reads, decides, and then writes its files in order, each    *)
(* through a temporary file: it opens (and so truncates) it, writes it, and  *)
(* renames it over the file.  It can crash between any two of those steps.   *)
(* Nothing locks the files: this module is about invocations that follow     *)
(* each other, TmpFile about what happens when two of them write at once.    *)
EXTENDS Settings

CONSTANTS
    Git,         \* directories that are git repositories
    Flags,       \* the settings `add` may be given
    Legacy,      \* the tables config.toml may still hold
    Registered,  \* the registries there may be at first
    DefaultSpawn,
    MaxCrashes   \* bound: invocations that crash

ASSUME RegistryAssumption ==
    /\ Git \subseteq Dirs
    /\ Flags \subseteq Entries
    /\ Legacy \subseteq Contents
    /\ Registered \subseteq Contents
    /\ DefaultSpawn \in {"worktree", "same-dir"}
    /\ MaxCrashes \in Nat

VARIABLES
    now,       \* what readers find in each file
    tmp,       \* what is in its temporary file
    command,   \* the invocation under way
    stage,     \* it migrates, or does what it was asked
    todo,      \* the files it has yet to write, and the text of each
    writing,   \* how far it is with the next one
    plain,     \* the legacy tables are written so that they can be moved
    crashes,
    original,  \* history: the legacy tables at first
    touched,   \* history: directories add or remove has been told of
    forgot     \* history: directories whose trust a session wrote away

invocation == << command, stage, todo, writing >>
history == << original, touched, forgot >>
vars == << now, tmp, invocation, plain, crashes, history >>

Files == {"config.toml.bak", ".claude.json", "repos.toml", "config.toml"}

Todos == [files : SUBSET Files, text : [Files -> Contents]]

Nothing == [files |-> {}, text |-> [f \in Files |-> Blank]]

TypeOK ==
    /\ now \in [Files -> Contents]
    /\ tmp \in [Files -> Contents]
    /\ command \in Commands \cup {NoCommand}
    /\ stage \in {"migrate", "command"}
    /\ todo \in Todos
    /\ writing \in {"no", "open", "written"}
    /\ plain \in BOOLEAN
    /\ crashes \in 0..MaxCrashes
    /\ original \in Contents
    /\ touched \subseteq Dirs
    /\ forgot \subseteq Dirs

----
(* What an invocation decides to write. *)

Text(backup, trust, registry, config) ==
    [f \in Files |-> CASE f = "config.toml.bak" -> backup
                       [] f = ".claude.json" -> trust
                       [] f = "repos.toml" -> registry
                       [] f = "config.toml" -> config]

\* The tables are copied over and config.toml is left as it is.
Migration_KeepsTables ==
    LET tables == now["config.toml"]
        known  == Named(tables) \cap Named(now["repos.toml"])
    IN  IF Named(tables) = {} THEN Nothing
        ELSE [files |-> {"config.toml.bak"} \cup (IF known = {} THEN {} ELSE {"repos.toml"}),
              text  |-> Text(tables, Blank, WithTables(now["repos.toml"], tables), Blank)]

\* migrate_config: the backup, the registry with each table laid over the entry
\* of its directory, if any has one, and a config.toml without tables.
Migration ==
    LET tables == now["config.toml"]
        known  == Named(tables) \cap Named(now["repos.toml"])
    IN  IF Named(tables) = {} THEN Nothing
        ELSE [files |-> {"config.toml.bak", "config.toml"}
                        \cup (IF known = {} THEN {} ELSE {"repos.toml"}),
              text  |-> Text(tables, Blank, WithTables(now["repos.toml"], tables), Blank)]

\* An unknown directory starts from nothing instead of from an empty entry.
AddedEntry_NoDefault(d, flags) == Overlay(now["repos.toml"][d], flags)

\* The entry `add` makes: same-dir is inferred where only the global default
\* asks for a worktree that git cannot provide.
AddedEntry(d, flags) ==
    LET entry == Laid(now["repos.toml"][d], flags)
    IN  IF d \notin Git /\ DefaultSpawn = "worktree" THEN SameDir(entry) ELSE entry

\* A worktree mode that somebody chose is refused outside git.
Addable(dirs, flags) ==
    {d \in dirs : d \in Git \/ Laid(now["repos.toml"][d], flags).spawn # "worktree"}

\* add: seed_trust, unless all of them are trusted, and save_registry.
Addition(dirs, flags) ==
    [files |-> {"repos.toml"}
               \cup (IF dirs \subseteq Named(now[".claude.json"]) THEN {} ELSE {".claude.json"}),
     text  |-> Text(Blank,
                    [d \in Dirs |-> IF d \in dirs THEN Unset ELSE now[".claude.json"][d]],
                    [d \in Dirs |-> IF d \in dirs THEN AddedEntry(d, flags)
                                    ELSE now["repos.toml"][d]],
                    Blank)]

Removal(dirs) ==
    [files |-> {"repos.toml"},
     text  |-> Text(Blank, Blank,
                    [d \in Dirs |-> IF d \in dirs THEN NoEntry ELSE now["repos.toml"][d]],
                    Blank)]

----
(* The invocation. *)

\* main migrates first.  An invocation that the migration aborts, over tables
\* it cannot move, changes nothing and is no step.
Invoke(c) ==
    /\ command = NoCommand
    /\ plain \/ Named(now["config.toml"]) = {}
    /\ command' = c
    /\ stage' = "migrate"
    /\ todo' = Migration
    /\ writing' = "no"
    /\ UNCHANGED << now, tmp, plain, crashes, history >>

\* The command itself: it reads the registry, and writes or gives up.
Proceed ==
    LET dirs  == IF command.cmd = "add" THEN Addable(command.dirs, command.flags)
                 ELSE command.dirs \cap Named(now["repos.toml"])
        quits == command.cmd = "read" \/ dirs = {}
    IN  /\ command # NoCommand /\ stage = "migrate" /\ todo.files = {}
        /\ command' = IF quits THEN NoCommand ELSE command
        /\ stage' = IF quits THEN "migrate" ELSE "command"
        /\ todo' = IF quits THEN Nothing
                   ELSE IF command.cmd = "add" THEN Addition(dirs, command.flags)
                                               ELSE Removal(dirs)
        /\ UNCHANGED << now, tmp, writing, plain, crashes, history >>

Ends ==
    /\ command' = NoCommand
    /\ stage' = "migrate"
    /\ todo' = Nothing
    /\ writing' = "no"

Exit ==
    /\ stage = "command" /\ todo.files = {}
    /\ Ends
    /\ UNCHANGED << now, tmp, plain, crashes, history >>

Crash ==
    /\ command # NoCommand
    /\ crashes < MaxCrashes
    /\ crashes' = crashes + 1
    /\ Ends
    /\ UNCHANGED << now, tmp, plain, history >>

Earlier_RegistryFirst(f) ==
    CASE f = "config.toml.bak" -> {}
      [] f = "repos.toml" -> {"config.toml.bak"}
      [] f = ".claude.json" -> {"config.toml.bak", "repos.toml"}
      [] f = "config.toml" -> {"config.toml.bak", ".claude.json", "repos.toml"}

Earlier_ConfigFirst(f) ==
    CASE f = "config.toml.bak" -> {}
      [] f = "config.toml" -> {"config.toml.bak"}
      [] f = ".claude.json" -> {"config.toml.bak", "config.toml"}
      [] f = "repos.toml" -> {"config.toml.bak", ".claude.json", "config.toml"}

\* The order of the writes: "The original goes first, then the settings, then
\* the tables go away", and for add trust before the registry.
Earlier(f) ==
    CASE f = "config.toml.bak" -> {}
      [] f = ".claude.json" -> {"config.toml.bak"}
      [] f = "repos.toml" -> {"config.toml.bak", ".claude.json"}
      [] f = "config.toml" -> {"config.toml.bak", ".claude.json", "repos.toml"}

Due(f) == f \in todo.files /\ todo.files \cap Earlier(f) = {}

\* The file itself is opened for writing.
OpenTmp_InPlace(f) ==
    /\ Due(f) /\ writing = "no"
    /\ now' = [now EXCEPT ![f] = Blank]
    /\ writing' = "open"
    /\ UNCHANGED << tmp, command, stage, todo, plain, crashes, history >>

\* atomic_write opens the temporary file, which truncates what a crash left.
OpenTmp(f) ==
    /\ Due(f) /\ writing = "no"
    /\ tmp' = [tmp EXCEPT ![f] = Blank]
    /\ writing' = "open"
    /\ UNCHANGED << now, command, stage, todo, plain, crashes, history >>

WriteTmp(f) ==
    /\ Due(f) /\ writing = "open"
    /\ tmp' = [tmp EXCEPT ![f] = todo.text[f]]
    /\ writing' = "written"
    /\ UNCHANGED << now, command, stage, todo, plain, crashes, history >>

Rename(f) ==
    /\ Due(f) /\ writing = "written"
    /\ now' = [now EXCEPT ![f] = tmp[f]]
    /\ tmp' = [tmp EXCEPT ![f] = Blank]
    /\ todo' = [todo EXCEPT !.files = @ \ {f}]
    /\ writing' = "no"
    /\ touched' = IF f = "repos.toml" /\ stage = "command"
                  THEN touched \cup command.dirs ELSE touched
    /\ UNCHANGED << command, stage, plain, crashes, original, forgot >>

----
(* Around the commands. *)

\* The user rewrites the tables the way the migration's error asks for.
RewriteTables ==
    /\ ~plain
    /\ plain' = TRUE
    /\ UNCHANGED << now, tmp, invocation, crashes, history >>

\* A live session writes ~/.claude.json back as it was before a directory was
\* trusted.
SessionForgets(d) ==
    /\ now' = [now EXCEPT ![".claude.json"][d] = NoEntry]
    /\ forgot' = forgot \cup {d}
    /\ UNCHANGED << tmp, invocation, plain, crashes, original, touched >>

----
Init ==
    /\ original \in Legacy
    /\ plain \in BOOLEAN
    /\ \E registry \in Registered :
          now = Text(Blank, [d \in Dirs |-> IF registry[d] = NoEntry THEN NoEntry ELSE Unset],
                     registry, original)
    /\ tmp = [f \in Files |-> Blank]
    /\ command = NoCommand
    /\ stage = "migrate"
    /\ todo = Nothing
    /\ writing = "no"
    /\ crashes = 0
    /\ touched = {}
    /\ forgot = {}

Run ==
    \/ Proceed
    \/ Exit
    \/ \E f \in Files : OpenTmp(f) \/ WriteTmp(f) \/ Rename(f)

Invocations ==
    [cmd : {"read"}, dirs : {{}}, flags : {Unset}]
    \cup [cmd : {"remove"}, dirs : SUBSET Dirs, flags : {Unset}]
    \cup [cmd : {"add"}, dirs : SUBSET Dirs, flags : Flags]

Next ==
    \/ \E c \in Invocations : Invoke(c)
    \/ Run
    \/ Crash
    \/ RewriteTables
    \/ \E d \in Dirs : SessionForgets(d)

Spec == Init /\ [][Next]_vars

\* A command that runs, runs on: it waits for nobody.  Nobody has to run one.
FairSpec == Spec /\ WF_vars(Run)

----
(* What must hold. *)

\* What has not had its effect yet: once the registry is written, only the exit
\* is left.
Waiting == stage = "migrate" \/ todo.files # {}

Registry == INSTANCE AtomicRegistry WITH
    registry <- now["repos.toml"],
    tables   <- now["config.toml"],
    asked    <- IF Waiting THEN command ELSE NoCommand

\* "so readers never see a torn file": the files implement one-step commands
\* and a migration that can be interrupted and repeated, wherever it crashes.
RegistryIsAtomic == Registry!Spec

\* Every registered directory is trusted, or the daemon would not start its
\* supervisor: trust goes first.  Only a session that rewrites the file at the
\* same time undoes it.
RegisteredIsTrusted ==
    Named(now["repos.toml"]) \subseteq Named(now[".claude.json"]) \cup forgot

\* A legacy table is never lost, wherever a migration crashes and however often
\* it is run again: it is still in config.toml, or the original is in the backup
\* and its settings are in the entry of its directory, if that has one and no
\* command has been told of it since.
TablesKept ==
    \A d \in Named(original) :
        \/ now["config.toml"][d] = original[d]
        \/ /\ now["config.toml.bak"] = original
           /\ \/ now["repos.toml"][d] = NoEntry
              \/ d \in touched
              \/ Overlay(now["repos.toml"][d], original[d]) = now["repos.toml"][d]

\* "a crash short of the last write migrates the same input again next run", and
\* so in the end it is done, if groundcrew is run at all.
Migrates ==
    []<>(command # NoCommand) => <>[](Named(now["config.toml"]) = {})

====
