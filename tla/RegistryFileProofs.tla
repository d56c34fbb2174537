---- MODULE RegistryFileProofs ----
(* For any directories, any entries and any crashes, invocations that follow *)
(* each other implement AtomicRegistry: readers see one-step commands.       *)
EXTENDS RegistryFile, TLAPS

\* Between invocations nothing is left over but temporary files.
AtRest ==
    command = NoCommand => stage = "migrate" /\ todo = Nothing /\ writing = "no"

\* What is renamed into place next is what was decided.
Prepared ==
    /\ todo.files = {} => writing = "no"
    /\ writing = "written" => \A f \in Files : Due(f) => tmp[f] = todo.text[f]

\* The migration under way is the one of the files as they are, whichever of its
\* writes are done.
Migrating ==
    stage = "migrate" =>
        /\ todo.files \subseteq {"config.toml.bak", "repos.toml", "config.toml"}
        /\ "config.toml" \notin todo.files => todo.files = {}
        /\ command # NoCommand /\ todo.files = {} => now["config.toml"] = Blank
        /\ "config.toml" \in todo.files =>
              /\ todo.text["config.toml"] = Blank
              /\ Named(now["config.toml"]) # {}
              /\ IF "config.toml.bak" \in todo.files
                 THEN todo.text["config.toml.bak"] = now["config.toml"]
                 ELSE now["config.toml.bak"] = now["config.toml"]
              /\ LET laid == WithTables(now["repos.toml"], now["config.toml"])
                 IN  IF "repos.toml" \in todo.files THEN todo.text["repos.toml"] = laid
                                                    ELSE now["repos.toml"] = laid

\* The result of adding some directories to the registry as it is.
Adds(dirs, flags, result) ==
    \E inferred \in SUBSET Dirs :
        result = [d \in Dirs |->
                    LET entry == Laid(now["repos.toml"][d], flags)
                    IN  IF d \notin dirs THEN now["repos.toml"][d]
                        ELSE IF d \in inferred THEN SameDir(entry) ELSE entry]

\* What the command makes of the registry as it is.
Effect(result) ==
    \/ /\ command.cmd = "add"
       /\ \E dirs \in SUBSET command.dirs : Adds(dirs, command.flags, result)
    \/ /\ command.cmd = "remove"
       /\ result = [d \in Dirs |-> IF d \in command.dirs THEN NoEntry
                                   ELSE now["repos.toml"][d]]

\* The command under way is decided on the registry as it still is.
Commanding ==
    stage = "command" =>
        /\ now["config.toml"] = Blank
        /\ todo.files \in {{".claude.json", "repos.toml"}, {"repos.toml"}, {}}
        /\ "repos.toml" \in todo.files => Effect(todo.text["repos.toml"])

\* Trust is there before an entry is, and no write takes it away.
TrustFirst ==
    /\ "repos.toml" \in todo.files /\ ".claude.json" \notin todo.files =>
          Named(todo.text["repos.toml"]) \subseteq Named(now[".claude.json"]) \cup forgot
    /\ ".claude.json" \in todo.files =>
          Named(todo.text["repos.toml"]) \cup Named(now["repos.toml"])
              \subseteq Named(todo.text[".claude.json"]) \cup forgot

\* The tables are untouched, or gone and accounted for.
Accounted ==
    \/ now["config.toml"] = original
    \/ /\ now["config.toml"] = Blank
       /\ now["config.toml.bak"] = original
       /\ \A d \in Named(original) :
             \/ now["repos.toml"][d] = NoEntry
             \/ d \in touched
             \/ Overlay(now["repos.toml"][d], original[d]) = now["repos.toml"][d]

IInv ==
    /\ TypeOK
    /\ AtRest
    /\ Prepared
    /\ Migrating
    /\ Commanding
    /\ TrustFirst
    /\ RegisteredIsTrusted
    /\ Accounted

----
(* Entries and files. *)

LEMMA EntryFacts ==
    /\ Unset \in Entries /\ NoEntry \notin Entries
    /\ \A under, over \in Entries : Overlay(under, over) \in Entries
    /\ \A under, over \in Entries :
          Overlay(Overlay(under, over), over) = Overlay(under, over)
    /\ \A entry \in Entries : SameDir(entry) \in Entries
<1>1. Unset \in Entries /\ NoEntry \notin Entries
  BY DEF Unset, NoEntry, Entries
<1>2. \A under, over \in Entries : Overlay(under, over) \in Entries
  BY DEF Overlay, Entries
<1>3. \A under, over \in Entries :
          Overlay(Overlay(under, over), over) = Overlay(under, over)
  BY DEF Overlay, Entries
<1>4. \A entry \in Entries : SameDir(entry) \in Entries
  BY DEF SameDir, Entries
<1> QED
  BY <1>1, <1>2, <1>3, <1>4

LEMMA LaidTyped ==
    ASSUME NEW was \in Entries \cup {NoEntry}, NEW over \in Entries
    PROVE  Laid(was, over) \in Entries
BY EntryFacts DEF Laid

LEMMA ContentsFacts ==
    /\ Blank \in Contents /\ Named(Blank) = {}
    /\ \A map \in Contents : Named(map) = {} => map = Blank
    /\ \A map \in Contents : \A d \in Named(map) : d \in Dirs /\ map[d] \in Entries
<1>1. Blank \in Contents /\ Named(Blank) = {}
  BY DEF Blank, Contents, Named
<1>2. ASSUME NEW map \in Contents, Named(map) = {} PROVE map = Blank
  BY <1>2 DEF Contents, Named, Blank
<1>3. ASSUME NEW map \in Contents, NEW d \in Named(map)
      PROVE  d \in Dirs /\ map[d] \in Entries
  BY DEF Contents, Named
<1> QED
  BY <1>1, <1>2, <1>3

\* Laying tables over the registry keeps its directories, and doing it again
\* changes nothing: an interrupted migration can be repeated.
LEMMA WithTablesFacts ==
    ASSUME NEW old \in Contents, NEW legacy \in Contents
    PROVE  LET new == WithTables(old, legacy)
           IN  /\ new \in Contents
               /\ Named(new) = Named(old)
               /\ WithTables(new, legacy) = new
               /\ \A d \in Named(legacy) : \/ new[d] = NoEntry
                                          \/ Overlay(new[d], legacy[d]) = new[d]
<1> DEFINE new == WithTables(old, legacy)
<1>1. ASSUME NEW d \in Dirs
      PROVE  new[d] = IF d \in Named(old) \cap Named(legacy)
                      THEN Overlay(old[d], legacy[d]) ELSE old[d]
  BY DEF WithTables
<1>2. ASSUME NEW d \in Named(old) \cap Named(legacy)
      PROVE  d \in Dirs /\ old[d] \in Entries /\ legacy[d] \in Entries
  BY ContentsFacts
<1>3. ASSUME NEW d \in Dirs
      PROVE  /\ new[d] \in Entries \cup {NoEntry}
             /\ new[d] = NoEntry <=> old[d] = NoEntry
  <2>1. old[d] \in Entries \cup {NoEntry} /\ (d \in Named(old) <=> old[d] # NoEntry)
    BY DEF Contents, Named
  <2>2. CASE d \in Named(old) \cap Named(legacy)
    <3>1. old[d] \in Entries /\ legacy[d] \in Entries /\ new[d] = Overlay(old[d], legacy[d])
      BY <2>2, <1>1, <1>2
    <3>2. Overlay(old[d], legacy[d]) \in Entries
      BY <3>1, EntryFacts
    <3> HIDE DEF new
    <3> QED
      BY <3>1, <3>2, EntryFacts
  <2>3. CASE d \notin Named(old) \cap Named(legacy)
    BY <2>1, <2>3, <1>1
  <2> QED
    BY <2>2, <2>3
<1>4. new \in Contents
  BY <1>3 DEF WithTables, Contents
<1>6. Named(new) = Named(old)
  BY <1>3 DEF Named
<1>7. ASSUME NEW d \in Dirs
      PROVE  (IF d \in Named(new) \cap Named(legacy)
              THEN Overlay(new[d], legacy[d]) ELSE new[d]) = new[d]
  BY <1>1, <1>2, <1>6, EntryFacts
<1>8. WithTables(new, legacy) = new
  <2>1. new = [d \in Dirs |-> new[d]]
    BY DEF WithTables
  <2> HIDE DEF new
  <2> QED
    BY <1>7, <2>1 DEF WithTables
<1>9. ASSUME NEW d \in Named(legacy)
      PROVE  new[d] = NoEntry \/ Overlay(new[d], legacy[d]) = new[d]
  BY <1>7 DEF Named
<1> QED
  BY <1>4, <1>6, <1>8, <1>9

LEMMA TextFacts ==
    ASSUME NEW a \in Contents, NEW b \in Contents, NEW c \in Contents, NEW d \in Contents
    PROVE  /\ Text(a, b, c, d) \in [Files -> Contents]
           /\ Text(a, b, c, d)["config.toml.bak"] = a
           /\ Text(a, b, c, d)[".claude.json"] = b
           /\ Text(a, b, c, d)["repos.toml"] = c
           /\ Text(a, b, c, d)["config.toml"] = d
BY DEF Text, Files

LEMMA NothingTyped == Nothing \in Todos /\ Nothing.files = {}
BY ContentsFacts DEF Nothing, Todos

\* The writes are in one order: no two files are due at once.
LEMMA OneDue ==
    ASSUME NEW f \in Files, NEW g \in Files, Due(f), Due(g)
    PROVE  f = g
BY DEF Due, Earlier, Files

----
(* What is decided. *)

LEMMA FilesTyped ==
    ASSUME TypeOK
    PROVE  /\ now["config.toml.bak"] \in Contents /\ now[".claude.json"] \in Contents
           /\ now["repos.toml"] \in Contents /\ now["config.toml"] \in Contents
BY DEF TypeOK, Files

LEMMA MigrationFacts ==
    ASSUME TypeOK
    PROVE  LET tables == now["config.toml"]
               laid   == WithTables(now["repos.toml"], tables)
           IN  /\ Migration \in Todos
               /\ Named(tables) = {} => Migration = Nothing
               /\ Named(tables) # {} =>
                     /\ Migration.files \subseteq
                            {"config.toml.bak", "repos.toml", "config.toml"}
                     /\ {"config.toml.bak", "config.toml"} \subseteq Migration.files
                     /\ Migration.text["config.toml.bak"] = tables
                     /\ Migration.text["config.toml"] = Blank
                     /\ Migration.text["repos.toml"] = laid
                     /\ "repos.toml" \notin Migration.files => now["repos.toml"] = laid
<1> DEFINE tables == now["config.toml"]
           registry == now["repos.toml"]
           known  == Named(tables) \cap Named(registry)
           laid   == WithTables(registry, tables)
           text   == Text(tables, Blank, laid, Blank)
           files  == {"config.toml.bak", "config.toml"}
                     \cup (IF known = {} THEN {} ELSE {"repos.toml"})
<1>1. tables \in Contents /\ registry \in Contents /\ laid \in Contents
  BY FilesTyped, WithTablesFacts
<1>2. Migration = IF Named(tables) = {} THEN Nothing ELSE [files |-> files, text |-> text]
  BY DEF Migration
<1>3. /\ text \in [Files -> Contents]
      /\ text["config.toml.bak"] = tables /\ text["config.toml"] = Blank
      /\ text["repos.toml"] = laid
  <2> HIDE DEF tables, laid
  <2> QED
    BY <1>1, TextFacts, ContentsFacts
<1>4. known = {} => registry = laid
  <2> SUFFICES ASSUME known = {} PROVE registry = laid
    OBVIOUS
  <2>1. registry = [d \in Dirs |-> registry[d]]
    BY <1>1 DEF Contents
  <2>2. laid = [d \in Dirs |-> registry[d]]
    BY DEF WithTables
  <2> QED
    BY <2>1, <2>2
<1>5. files \in SUBSET Files /\ ("repos.toml" \notin files => known = {})
  BY DEF Files
<1> HIDE DEF tables, registry, known, laid, text, files
<1>6. CASE Named(tables) = {}
  BY <1>2, <1>6, NothingTyped DEF tables
<1>7. CASE Named(tables) # {}
  <2>1. Migration.files = files /\ Migration.text = text
    BY <1>2, <1>7
  <2>2. Migration \in Todos
    BY <1>2, <1>3, <1>5, <1>7 DEF Todos
  <2>3. files \subseteq {"config.toml.bak", "repos.toml", "config.toml"}
        /\ {"config.toml.bak", "config.toml"} \subseteq files
    BY DEF files
  <2> QED
    BY <1>3, <1>4, <1>5, <1>7, <2>1, <2>2, <2>3 DEF tables, registry, laid
<1> QED
  BY <1>6, <1>7 DEF tables

LEMMA AdditionFacts ==
    ASSUME TypeOK, NEW dirs \in SUBSET Dirs, NEW flags \in Entries
    PROVE  LET add     == Addition(dirs, flags)
               trusted == Named(now[".claude.json"])
           IN  /\ add \in Todos
               /\ add.files = IF dirs \subseteq trusted THEN {"repos.toml"}
                              ELSE {".claude.json", "repos.toml"}
               /\ Named(add.text[".claude.json"]) = trusted \cup dirs
               /\ Named(add.text["repos.toml"]) = Named(now["repos.toml"]) \cup dirs
               /\ Adds(dirs, flags, add.text["repos.toml"])
<1> DEFINE registry == now["repos.toml"]
           trust    == now[".claude.json"]
           seeded   == [d \in Dirs |-> IF d \in dirs THEN Unset ELSE trust[d]]
           added    == [d \in Dirs |-> IF d \in dirs THEN AddedEntry(d, flags) ELSE registry[d]]
           text     == Text(Blank, seeded, added, Blank)
           files    == {"repos.toml"}
                       \cup (IF dirs \subseteq Named(trust) THEN {} ELSE {".claude.json"})
           inferred == IF DefaultSpawn = "worktree" THEN Dirs \ Git ELSE {}
           entry(d) == Laid(registry[d], flags)
           settled(d) == IF d \in inferred THEN SameDir(entry(d)) ELSE entry(d)
<1>1. registry \in Contents /\ trust \in Contents
  BY FilesTyped
<1>2. ASSUME NEW d \in Dirs
      PROVE  AddedEntry(d, flags) = settled(d) /\ AddedEntry(d, flags) \in Entries
  <2>1. AddedEntry(d, flags) = settled(d)
    BY DEF AddedEntry
  <2>2. entry(d) \in Entries
    <3>1. registry[d] \in Entries \cup {NoEntry}
      BY <1>1 DEF Contents
    <3> QED
      BY <3>1, LaidTyped
  <2> QED
    BY <2>1, <2>2, EntryFacts
<1>3. seeded \in Contents /\ Named(seeded) = Named(trust) \cup dirs
  <2>1. seeded \in Contents
    BY <1>1, EntryFacts DEF Contents
  <2>2. Unset # NoEntry
    BY EntryFacts
  <2> QED
    BY <2>1, <2>2 DEF Named
<1>4. added \in Contents /\ Named(added) = Named(registry) \cup dirs
  <2>1. ASSUME NEW d \in Dirs
        PROVE  /\ added[d] \in Entries \cup {NoEntry}
               /\ added[d] # NoEntry <=> registry[d] # NoEntry \/ d \in dirs
    BY <1>1, <1>2, EntryFacts DEF Contents
  <2>2. added \in Contents
    BY <2>1 DEF Contents
  <2> QED
    BY <2>1, <2>2 DEF Named
<1>5. added = [d \in Dirs |-> IF d \notin dirs THEN registry[d] ELSE settled(d)]
  BY <1>2
<1>6. Addition(dirs, flags) = [files |-> files, text |-> text]
  BY DEF Addition
<1>7. /\ text \in [Files -> Contents]
      /\ text[".claude.json"] = seeded /\ text["repos.toml"] = added
  <2> HIDE DEF seeded, added
  <2> QED
    BY <1>3, <1>4, TextFacts, ContentsFacts
<1>8. files \in SUBSET Files
  BY DEF Files
<1>9. inferred \in SUBSET Dirs
  OBVIOUS
<1>10. Adds(dirs, flags, added)
  <2> HIDE DEF added, inferred
  <2> QED
    BY <1>5, <1>9 DEF Adds
<1> HIDE DEF text, added, seeded, registry, trust
<1>11. /\ Addition(dirs, flags).files = files
       /\ Addition(dirs, flags).text = text
       /\ Addition(dirs, flags) \in Todos
  <2>1. [files |-> files, text |-> text] \in Todos
    BY <1>7, <1>8 DEF Todos
  <2> QED
    BY <1>6, <2>1
<1>12. files = IF dirs \subseteq Named(trust) THEN {"repos.toml"}
               ELSE {".claude.json", "repos.toml"}
  OBVIOUS
<1> QED
  BY <1>3, <1>4, <1>7, <1>10, <1>11, <1>12 DEF registry, trust

LEMMA RemovalFacts ==
    ASSUME TypeOK, NEW dirs \in SUBSET Dirs, NEW asked \in SUBSET Dirs,
           dirs = asked \cap Named(now["repos.toml"])
    PROVE  LET remove == Removal(dirs)
           IN  /\ remove \in Todos
               /\ remove.files = {"repos.toml"}
               /\ Named(remove.text["repos.toml"]) \subseteq Named(now["repos.toml"])
               /\ remove.text["repos.toml"] =
                     [d \in Dirs |-> IF d \in asked THEN NoEntry ELSE now["repos.toml"][d]]
<1> DEFINE registry == now["repos.toml"]
           rest == [d \in Dirs |-> IF d \in dirs THEN NoEntry ELSE registry[d]]
           text == Text(Blank, Blank, rest, Blank)
<1>1. registry \in Contents
  BY FilesTyped
<1>2. rest \in Contents /\ Named(rest) \subseteq Named(registry)
  <2>1. rest \in Contents
    BY <1>1 DEF Contents
  <2> QED
    BY <2>1 DEF Named
<1>3. rest = [d \in Dirs |-> IF d \in asked THEN NoEntry ELSE registry[d]]
  BY DEF Named
<1>4. Removal(dirs) = [files |-> {"repos.toml"}, text |-> text]
  BY DEF Removal
<1>5. text \in [Files -> Contents] /\ text["repos.toml"] = rest
  <2> HIDE DEF rest
  <2> QED
    BY <1>2, TextFacts, ContentsFacts
<1> HIDE DEF text, rest
<1>6. /\ Removal(dirs).files = {"repos.toml"} /\ Removal(dirs).text = text
      /\ Removal(dirs) \in Todos
  <2>1. [files |-> {"repos.toml"}, text |-> text] \in Todos
    BY <1>5 DEF Todos, Files
  <2> QED
    BY <1>4, <2>1
<1> QED
  BY <1>2, <1>3, <1>5, <1>6

----
(* The steps. *)

LEMMA InitEstablishes == Init => IInv
<1> SUFFICES ASSUME Init PROVE IInv
  OBVIOUS
<1> PICK registry \in Registered :
        now = Text(Blank, [d \in Dirs |-> IF registry[d] = NoEntry THEN NoEntry ELSE Unset],
                   registry, original)
  BY DEF Init
<1> DEFINE trust == [d \in Dirs |-> IF registry[d] = NoEntry THEN NoEntry ELSE Unset]
<1>1. registry \in Contents /\ original \in Contents /\ MaxCrashes \in Nat
  BY RegistryAssumption DEF Init
<1>2. trust \in Contents /\ Named(trust) = Named(registry)
  BY <1>1, EntryFacts DEF Contents, Named
<1>3. /\ now \in [Files -> Contents]
      /\ now[".claude.json"] = trust /\ now["repos.toml"] = registry
      /\ now["config.toml"] = original
  <2>1. now = Text(Blank, trust, registry, original)
    OBVIOUS
  <2>2. Blank \in Contents /\ trust \in Contents /\ registry \in Contents /\ original \in Contents
    BY <1>1, <1>2, ContentsFacts
  <2> HIDE DEF trust
  <2> DEFINE text == Text(Blank, trust, registry, original)
  <2>3. /\ text \in [Files -> Contents]
        /\ text[".claude.json"] = trust /\ text["repos.toml"] = registry
        /\ text["config.toml"] = original
    BY <2>2, TextFacts
  <2> HIDE DEF text
  <2>4. now = text
    BY <2>1 DEF text
  <2> QED
    BY <2>3, <2>4
<1> HIDE DEF trust
<1>4. /\ tmp \in [Files -> Contents] /\ command = NoCommand /\ stage = "migrate"
      /\ todo = Nothing /\ todo.files = {} /\ todo \in Todos /\ writing = "no"
      /\ crashes \in 0..MaxCrashes /\ touched = {} /\ forgot = {}
  BY <1>1, ContentsFacts, NothingTyped DEF Init
<1>5. plain \in BOOLEAN
  BY DEF Init
<1>6. TypeOK
  BY <1>1, <1>3, <1>4, <1>5 DEF TypeOK
<1>7. AtRest /\ Prepared /\ Migrating /\ Commanding /\ TrustFirst
  BY <1>4 DEF AtRest, Prepared, Migrating, Commanding, TrustFirst
<1>8. RegisteredIsTrusted /\ Accounted
  BY <1>2, <1>3 DEF RegisteredIsTrusted, Accounted
<1> QED
  BY <1>6, <1>7, <1>8 DEF IInv

LEMMA InvocationsTyped == Invocations \subseteq Commands
<1>1. Unset \in Entries /\ Flags \subseteq Entries
  BY EntryFacts, RegistryAssumption
<1> QED
  BY <1>1 DEF Invocations, Commands

LEMMA InvokeStep == ASSUME NEW c \in Invocations PROVE IInv /\ Invoke(c) => IInv'
<1> SUFFICES ASSUME IInv, Invoke(c) PROVE IInv'
  OBVIOUS
<1> USE DEF IInv
<1> DEFINE tables == now["config.toml"]
<1>1. /\ command = NoCommand /\ command' = c /\ stage' = "migrate"
      /\ todo' = Migration /\ writing' = "no"
      /\ UNCHANGED << now, tmp, plain, crashes, original, touched, forgot >>
  BY DEF Invoke, history
<1>2. c \in Commands /\ c # NoCommand
  BY InvocationsTyped DEF Commands, NoCommand
<1>3. /\ Migration \in Todos
      /\ Named(tables) = {} => Migration = Nothing
      /\ Named(tables) # {} =>
            /\ Migration.files \subseteq {"config.toml.bak", "repos.toml", "config.toml"}
            /\ {"config.toml.bak", "config.toml"} \subseteq Migration.files
            /\ Migration.text["config.toml.bak"] = tables
            /\ Migration.text["config.toml"] = Blank
            /\ Migration.text["repos.toml"] = WithTables(now["repos.toml"], tables)
            /\ "repos.toml" \notin Migration.files =>
                  now["repos.toml"] = WithTables(now["repos.toml"], tables)
  BY MigrationFacts
<1>4. TypeOK'
  BY <1>1, <1>2, <1>3 DEF TypeOK
<1>5. AtRest' /\ Prepared' /\ Commanding'
  BY <1>1, <1>2 DEF AtRest, Prepared, Commanding
<1>6. tables \in Contents /\ now["repos.toml"] \in Contents
  BY FilesTyped
<1>7. Migrating' /\ TrustFirst'
  <2>1. CASE Named(tables) = {}
    <3>1. tables = Blank
      BY <1>6, <2>1, ContentsFacts
    <3>2. todo'.files = {}
      BY <1>1, <1>3, <2>1, NothingTyped
    <3> QED
      BY <1>1, <3>1, <3>2 DEF Migrating, TrustFirst
  <2>2. CASE Named(tables) # {}
    <3>1. Migrating'
      BY <1>1, <1>3, <2>2 DEF Migrating
    <3>2. Named(WithTables(now["repos.toml"], tables)) = Named(now["repos.toml"])
      BY <1>6, WithTablesFacts
    <3>3. TrustFirst'
      BY <1>1, <1>3, <2>2, <3>2 DEF TrustFirst, RegisteredIsTrusted
    <3> QED
      BY <3>1, <3>3
  <2> QED
    BY <2>1, <2>2
<1>8. RegisteredIsTrusted' /\ Accounted'
  BY <1>1 DEF RegisteredIsTrusted, Accounted
<1> QED
  BY <1>4, <1>5, <1>7, <1>8

LEMMA EndsKeeps ==
    ASSUME IInv, Ends,
           UNCHANGED << now, tmp, plain, original, touched, forgot >>,
           crashes' \in 0..MaxCrashes
    PROVE  IInv'
<1>1. /\ command' = NoCommand /\ stage' = "migrate" /\ todo' = Nothing
      /\ todo' \in Todos /\ todo'.files = {} /\ writing' = "no"
  BY NothingTyped DEF Ends
<1>2. TypeOK'
  BY <1>1 DEF IInv, TypeOK
<1>3. AtRest' /\ Prepared' /\ Migrating' /\ Commanding' /\ TrustFirst'
  BY <1>1 DEF AtRest, Prepared, Migrating, Commanding, TrustFirst
<1>4. RegisteredIsTrusted' /\ Accounted'
  BY DEF IInv, RegisteredIsTrusted, Accounted
<1> QED
  BY <1>2, <1>3, <1>4 DEF IInv

LEMMA ProceedStep == IInv /\ Proceed => IInv'
<1> SUFFICES ASSUME IInv, Proceed PROVE IInv'
  OBVIOUS
<1> DEFINE dirs == IF command.cmd = "add" THEN Addable(command.dirs, command.flags)
                   ELSE command.dirs \cap Named(now["repos.toml"])
           quits == command.cmd = "read" \/ dirs = {}
           plan == IF command.cmd = "add" THEN Addition(dirs, command.flags)
                                          ELSE Removal(dirs)
<1>1. /\ command # NoCommand /\ stage = "migrate" /\ todo.files = {}
      /\ UNCHANGED << now, tmp, writing, plain, crashes, original, touched, forgot >>
      /\ IF quits THEN command' = NoCommand /\ stage' = "migrate" /\ todo' = Nothing
         ELSE command' = command /\ stage' = "command" /\ todo' = plan
  BY DEF Proceed, history
<1>2. /\ command \in Commands /\ command.dirs \in SUBSET Dirs /\ command.flags \in Entries
      /\ command.cmd \in {"read", "add", "remove"}
  BY <1>1 DEF IInv, TypeOK, Commands
<1>3. /\ dirs \in SUBSET Dirs
      /\ command.cmd = "add" => dirs \subseteq command.dirs
  BY <1>2 DEF Addable
<1>4. TypeOK
  BY DEF IInv
<1>5. now["config.toml"] = Blank /\ writing = "no"
  BY <1>1 DEF IInv, Migrating, Prepared
<1>6. RegisteredIsTrusted' /\ Accounted'
  BY <1>1 DEF IInv, RegisteredIsTrusted, Accounted
<1> HIDE DEF dirs, quits
<1>7. CASE quits
  <2>1. todo' \in Todos /\ todo'.files = {}
    BY <1>1, <1>7, NothingTyped
  <2>2. TypeOK'
    BY <1>1, <1>4, <1>7, <2>1 DEF TypeOK
  <2>3. AtRest' /\ Prepared' /\ Migrating' /\ Commanding' /\ TrustFirst'
    BY <1>1, <1>5, <1>7, <2>1 DEF AtRest, Prepared, Migrating, Commanding, TrustFirst
  <2> QED
    BY <1>6, <2>2, <2>3 DEF IInv
<1>8. ASSUME ~quits, todo' \in Todos,
             todo'.files \in {{".claude.json", "repos.toml"}, {"repos.toml"}},
             Effect(todo'.text["repos.toml"]), TrustFirst'
      PROVE  IInv'
  <2>1. /\ command' = command /\ stage' = "command"
        /\ UNCHANGED << now, tmp, writing, plain, crashes, original, touched, forgot >>
    BY <1>1, <1>8
  <2>2. TypeOK'
    BY <1>4, <1>8, <2>1 DEF TypeOK
  <2>3. AtRest' /\ Prepared' /\ Migrating'
    BY <1>1, <1>5, <2>1 DEF AtRest, Prepared, Migrating
  <2>4. Commanding'
    BY <1>5, <1>8, <2>1 DEF Commanding, Effect, Adds
  <2> QED
    BY <1>6, <1>8, <2>2, <2>3, <2>4 DEF IInv
<1>9. CASE ~quits /\ command.cmd = "add"
  <2> DEFINE add == Addition(dirs, command.flags)
             trusted == Named(now[".claude.json"])
  <2>1. /\ add \in Todos
        /\ add.files = IF dirs \subseteq trusted THEN {"repos.toml"}
                       ELSE {".claude.json", "repos.toml"}
        /\ Named(add.text[".claude.json"]) = trusted \cup dirs
        /\ Named(add.text["repos.toml"]) = Named(now["repos.toml"]) \cup dirs
        /\ Adds(dirs, command.flags, add.text["repos.toml"])
    <3>1. dirs \in SUBSET Dirs /\ command.flags \in Entries
      BY <1>2, <1>3
    <3> QED
      BY <3>1, <1>4, AdditionFacts
  <2> HIDE DEF add
  <2>2. todo' = add
    BY <1>1, <1>9 DEF add
  <2>3. Effect(todo'.text["repos.toml"])
    <3>1. dirs \in SUBSET command.dirs
      BY <1>3, <1>9
    <3> QED
      BY <1>9, <2>1, <2>2, <3>1 DEF Effect
  <2>4. Named(now["repos.toml"]) \subseteq trusted \cup forgot
    BY DEF IInv, RegisteredIsTrusted
  <2>5. TrustFirst'
    BY <1>1, <2>1, <2>2, <2>4 DEF TrustFirst
  <2> QED
    BY <1>8, <1>9, <2>1, <2>2, <2>3, <2>5
<1>10. CASE ~quits /\ command.cmd = "remove"
  <2> DEFINE remove == Removal(dirs)
  <2>1. dirs = command.dirs \cap Named(now["repos.toml"])
    BY <1>10 DEF dirs
  <2>2. /\ remove \in Todos
        /\ remove.files = {"repos.toml"}
        /\ Named(remove.text["repos.toml"]) \subseteq Named(now["repos.toml"])
        /\ remove.text["repos.toml"] =
              [d \in Dirs |-> IF d \in command.dirs THEN NoEntry ELSE now["repos.toml"][d]]
    BY <1>2, <1>3, <1>4, <2>1, RemovalFacts
  <2> HIDE DEF remove
  <2>3. todo' = remove
    BY <1>1, <1>10 DEF remove
  <2>4. Effect(todo'.text["repos.toml"])
    BY <1>10, <2>2, <2>3 DEF Effect
  <2>5. TrustFirst'
    BY <1>1, <2>2, <2>3 DEF TrustFirst, IInv, RegisteredIsTrusted
  <2> QED
    BY <1>8, <1>10, <2>2, <2>3, <2>4, <2>5
<1> QED
  BY <1>2, <1>7, <1>9, <1>10 DEF quits

LEMMA ExitStep == IInv /\ Exit => IInv'
<1> SUFFICES ASSUME IInv, Exit PROVE IInv'
  OBVIOUS
<1>1. /\ Ends
      /\ UNCHANGED << now, tmp, plain, original, touched, forgot >>
      /\ crashes' = crashes
  BY DEF Exit, history
<1>2. crashes' \in 0..MaxCrashes
  BY <1>1 DEF IInv, TypeOK
<1> QED
  BY <1>1, <1>2, EndsKeeps

LEMMA CrashStep == IInv /\ Crash => IInv'
<1> SUFFICES ASSUME IInv, Crash PROVE IInv'
  OBVIOUS
<1>1. /\ Ends
      /\ UNCHANGED << now, tmp, plain, original, touched, forgot >>
      /\ crashes < MaxCrashes /\ crashes' = crashes + 1
  BY DEF Crash, history
<1>2. crashes' \in 0..MaxCrashes
  BY <1>1, RegistryAssumption DEF IInv, TypeOK
<1> QED
  BY <1>1, <1>2, EndsKeeps

\* The writes of the temporary file, and whatever happens around the commands,
\* leave what readers see and what is planned as it is.
LEMMA PlanKept ==
    ASSUME IInv, TypeOK', Prepared',
           UNCHANGED << now, command, stage, todo, original, touched, forgot >>,
           command = NoCommand => writing' = "no"
    PROVE  IInv'
<1>1. AtRest' /\ Migrating' /\ Commanding' /\ TrustFirst'
  BY DEF IInv, AtRest, Migrating, Commanding, TrustFirst, Effect, Adds
<1>2. RegisteredIsTrusted' /\ Accounted'
  BY DEF IInv, RegisteredIsTrusted, Accounted
<1> QED
  BY <1>1, <1>2 DEF IInv

LEMMA DueFacts ==
    ASSUME IInv, NEW f \in Files, Due(f)
    PROVE  command # NoCommand /\ todo.files # {} /\ todo.text[f] \in Contents
BY NothingTyped DEF IInv, AtRest, Due, TypeOK, Todos

LEMMA OpenTmpStep == ASSUME NEW f \in Files PROVE IInv /\ OpenTmp(f) => IInv'
<1> SUFFICES ASSUME IInv, OpenTmp(f) PROVE IInv'
  OBVIOUS
<1>1. /\ tmp' = [tmp EXCEPT ![f] = Blank] /\ writing' = "open"
      /\ UNCHANGED << now, command, stage, todo, plain, crashes, original, touched, forgot >>
  BY DEF OpenTmp, history
<1>2. command # NoCommand /\ todo.files # {}
  BY DueFacts DEF OpenTmp
<1>3. TypeOK'
  BY <1>1, ContentsFacts DEF IInv, TypeOK
<1>4. Prepared'
  BY <1>1, <1>2 DEF Prepared
<1> QED
  BY <1>1, <1>2, <1>3, <1>4, PlanKept

LEMMA WriteTmpStep == ASSUME NEW f \in Files PROVE IInv /\ WriteTmp(f) => IInv'
<1> SUFFICES ASSUME IInv, WriteTmp(f) PROVE IInv'
  OBVIOUS
<1>1. /\ Due(f)
      /\ tmp' = [tmp EXCEPT ![f] = todo.text[f]] /\ writing' = "written"
      /\ UNCHANGED << now, command, stage, todo, plain, crashes, original, touched, forgot >>
  BY DEF WriteTmp, history
<1>2. command # NoCommand /\ todo.files # {} /\ todo.text[f] \in Contents
  BY <1>1, DueFacts
<1>3. TypeOK'
  BY <1>1, <1>2 DEF IInv, TypeOK
<1>4. Prepared'
  <2>1. ASSUME NEW g \in Files, Due(g)' PROVE tmp'[g] = todo'.text[g]
    <3>1. Due(g)
      BY <1>1, <2>1 DEF Due
    <3>2. g = f
      BY <1>1, <3>1, OneDue
    <3> QED
      BY <1>1, <3>2 DEF IInv, TypeOK
  <2> QED
    BY <1>1, <1>2, <2>1 DEF Prepared
<1> QED
  BY <1>1, <1>2, <1>3, <1>4, PlanKept

LEMMA RewriteTablesStep == IInv /\ RewriteTables => IInv'
<1> SUFFICES ASSUME IInv, RewriteTables PROVE IInv'
  OBVIOUS
<1>1. /\ plain' = TRUE
      /\ UNCHANGED << now, tmp, command, stage, todo, writing, crashes,
                      original, touched, forgot >>
  BY DEF RewriteTables, history, invocation
<1>2. plain' \in BOOLEAN
  BY <1>1
<1>3. TypeOK'
  BY <1>1, <1>2 DEF IInv, TypeOK
<1>4. Prepared'
  BY <1>1 DEF IInv, Prepared, Due
<1> QED
  BY <1>1, <1>3, <1>4, PlanKept DEF IInv, AtRest

LEMMA SessionForgetsStep == ASSUME NEW d \in Dirs PROVE IInv /\ SessionForgets(d) => IInv'
<1> SUFFICES ASSUME IInv, SessionForgets(d) PROVE IInv'
  OBVIOUS
<1> USE DEF IInv
<1> DEFINE trust == now[".claude.json"]
<1>1. /\ now' = [now EXCEPT ![".claude.json"][d] = NoEntry]
      /\ forgot' = forgot \cup {d}
      /\ UNCHANGED << tmp, command, stage, todo, writing, plain, crashes, original, touched >>
  BY DEF SessionForgets, invocation
<1>2. /\ now'[".claude.json"] = [trust EXCEPT ![d] = NoEntry]
      /\ now'["repos.toml"] = now["repos.toml"] /\ now'["config.toml"] = now["config.toml"]
      /\ now'["config.toml.bak"] = now["config.toml.bak"]
  BY <1>1 DEF TypeOK, Files
<1>3. [trust EXCEPT ![d] = NoEntry] \in Contents
      /\ Named(trust) \subseteq Named([trust EXCEPT ![d] = NoEntry]) \cup {d}
  <2>1. trust \in Contents
    BY FilesTyped
  <2> HIDE DEF trust
  <2>2. [trust EXCEPT ![d] = NoEntry] \in Contents
    BY <2>1 DEF Contents
  <2> QED
    BY <2>1, <2>2 DEF Contents, Named
<1>4. now' \in [Files -> Contents]
  BY <1>1, <1>3 DEF TypeOK
<1>5. TypeOK'
  BY <1>1, <1>4 DEF TypeOK
<1>6. AtRest' /\ Prepared'
  BY <1>1 DEF AtRest, Prepared, Due
<1>7. Migrating' /\ Commanding' /\ Accounted'
  BY <1>1, <1>2 DEF Migrating, Commanding, Effect, Adds, Accounted
<1>8. TrustFirst' /\ RegisteredIsTrusted'
  BY <1>1, <1>2, <1>3 DEF TrustFirst, RegisteredIsTrusted
<1> QED
  BY <1>5, <1>6, <1>7, <1>8

\* A rename puts one planned text in its place.
LEMMA RenameFacts ==
    ASSUME NEW f \in Files, IInv, Rename(f)
    PROVE  /\ Due(f) /\ command # NoCommand
           /\ todo.text[f] \in Contents
           /\ now' = [now EXCEPT ![f] = todo.text[f]]
           /\ now'[f] = todo.text[f]
           /\ \A g \in Files \ {f} : now'[g] = now[g]
           /\ tmp' = [tmp EXCEPT ![f] = Blank]
           /\ todo'.files = todo.files \ {f} /\ todo'.text = todo.text /\ todo' \in Todos
           /\ writing' = "no"
           /\ touched' = IF f = "repos.toml" /\ stage = "command"
                         THEN touched \cup command.dirs ELSE touched
           /\ UNCHANGED << command, stage, plain, crashes, original, forgot >>
<1>1. /\ Due(f) /\ writing = "written"
      /\ now' = [now EXCEPT ![f] = tmp[f]]
      /\ todo' = [todo EXCEPT !.files = @ \ {f}]
  BY DEF Rename
<1>2. tmp[f] = todo.text[f]
  BY <1>1 DEF IInv, Prepared
<1>3. now \in [Files -> Contents] /\ todo \in Todos
  BY DEF IInv, TypeOK
<1>4. todo'.files = todo.files \ {f} /\ todo'.text = todo.text /\ todo' \in Todos
  BY <1>1, <1>3 DEF Todos
<1> QED
  BY <1>1, <1>2, <1>3, <1>4, DueFacts DEF Rename

LEMMA RenameTyped == ASSUME NEW f \in Files, IInv, Rename(f) PROVE TypeOK' /\ AtRest' /\ Prepared'
<1>1. TypeOK'
  <2>1. touched' \subseteq Dirs
    <3>1. command \in Commands
      BY RenameFacts DEF IInv, TypeOK
    <3> QED
      BY <3>1, RenameFacts DEF IInv, TypeOK, Commands
  <2> QED
    BY <2>1, RenameFacts, ContentsFacts DEF IInv, TypeOK
<1>2. AtRest' /\ Prepared'
  BY RenameFacts DEF AtRest, Prepared
<1> QED
  BY <1>1, <1>2

LEMMA RenameBackup ==
    ASSUME IInv, Rename("config.toml.bak")
    PROVE  /\ stage = "migrate" /\ Migrating' /\ Commanding' /\ TrustFirst'
           /\ RegisteredIsTrusted' /\ Accounted'
<1> USE DEF IInv
<1> DEFINE f == "config.toml.bak"
<1>1. f \in Files /\ f \in todo.files
  BY DEF Files, Rename, Due
<1>2. stage = "migrate" /\ "config.toml" \in todo.files
  BY <1>1 DEF Commanding, Migrating, TypeOK
<1>3. now["config.toml"] = original
  BY <1>2, ContentsFacts DEF Migrating, Accounted
<1>4. /\ now'[f] = now["config.toml"]
      /\ now'["repos.toml"] = now["repos.toml"] /\ now'["config.toml"] = now["config.toml"]
      /\ now'[".claude.json"] = now[".claude.json"]
      /\ todo'.files = todo.files \ {f} /\ todo'.text = todo.text
      /\ UNCHANGED << command, stage, original, touched, forgot >>
  BY <1>1, <1>2, RenameFacts DEF Files, Migrating
<1>5. Migrating' /\ Commanding'
  BY <1>2, <1>4 DEF Migrating, Commanding
<1>6. TrustFirst' /\ RegisteredIsTrusted' /\ Accounted'
  BY <1>3, <1>4 DEF TrustFirst, RegisteredIsTrusted, Accounted
<1> QED
  BY <1>2, <1>5, <1>6

LEMMA RenameTrust ==
    ASSUME IInv, Rename(".claude.json")
    PROVE  /\ stage = "command" /\ "repos.toml" \in todo'.files
           /\ Migrating' /\ Commanding' /\ TrustFirst'
           /\ RegisteredIsTrusted' /\ Accounted'
<1> USE DEF IInv
<1> DEFINE f == ".claude.json"
<1>1. f \in Files /\ f \in todo.files
  BY DEF Files, Rename, Due
<1>2. stage = "command" /\ todo.files = {f, "repos.toml"}
  BY <1>1 DEF Commanding, Migrating, TypeOK
<1>3. /\ now'[f] = todo.text[f]
      /\ now'["repos.toml"] = now["repos.toml"] /\ now'["config.toml"] = now["config.toml"]
      /\ now'["config.toml.bak"] = now["config.toml.bak"]
      /\ todo'.files = {"repos.toml"} /\ todo'.text = todo.text
      /\ UNCHANGED << command, stage, original, forgot, touched >>
  BY <1>1, <1>2, RenameFacts DEF Files
<1>4. Migrating' /\ Commanding'
  BY <1>2, <1>3 DEF Migrating, Commanding, Effect, Adds
<1>5. TrustFirst' /\ RegisteredIsTrusted' /\ Accounted'
  BY <1>2, <1>3 DEF TrustFirst, RegisteredIsTrusted, Accounted
<1> QED
  BY <1>2, <1>3, <1>4, <1>5

LEMMA RenameRegistry ==
    ASSUME IInv, Rename("repos.toml")
    PROVE  Migrating' /\ Commanding' /\ TrustFirst' /\ RegisteredIsTrusted' /\ Accounted'
<1> USE DEF IInv
<1> DEFINE f == "repos.toml"
           new == todo.text[f]
<1>1. /\ f \in Files /\ f \in todo.files
      /\ "config.toml.bak" \notin todo.files /\ ".claude.json" \notin todo.files
  BY DEF Files, Rename, Due, Earlier
<1>2. /\ now'[f] = new
      /\ now'["config.toml"] = now["config.toml"] /\ now'[".claude.json"] = now[".claude.json"]
      /\ now'["config.toml.bak"] = now["config.toml.bak"]
      /\ todo'.files = todo.files \ {f} /\ todo'.text = todo.text
      /\ UNCHANGED << command, stage, original, forgot >>
      /\ touched' = IF stage = "command" THEN touched \cup command.dirs ELSE touched
  BY <1>1, RenameFacts DEF Files
<1>3. TrustFirst' /\ RegisteredIsTrusted'
  BY <1>1, <1>2 DEF TrustFirst, RegisteredIsTrusted
<1>4. CASE stage = "migrate"
  <2>1. /\ "config.toml" \in todo.files /\ Named(now["config.toml"]) # {}
        /\ new = WithTables(now[f], now["config.toml"])
    BY <1>1, <1>4 DEF Migrating
  <2>2. WithTables(new, now["config.toml"]) = new
    BY <2>1, FilesTyped, WithTablesFacts
  <2>3. Migrating' /\ Commanding'
    BY <1>1, <1>2, <1>4, <2>1, <2>2 DEF Migrating, Commanding
  <2>4. now["config.toml"] = original
    BY <2>1, ContentsFacts DEF Accounted
  <2>5. Accounted'
    BY <1>2, <2>4 DEF Accounted
  <2> QED
    BY <1>3, <2>3, <2>5
<1>5. CASE stage = "command"
  <2>1. todo'.files = {} /\ Effect(new) /\ now["config.toml"] = Blank
    BY <1>1, <1>2, <1>5 DEF Commanding
  <2>2. Migrating' /\ Commanding'
    BY <1>2, <1>5, <2>1 DEF Migrating, Commanding
  <2>3. ASSUME NEW d \in Dirs, d \notin command.dirs PROVE new[d] = now[f][d]
    BY <2>1, <2>3 DEF Effect, Adds
  <2>4. Accounted'
    <3>1. ASSUME NEW d \in Named(original),
                 \/ now[f][d] = NoEntry
                 \/ d \in touched
                 \/ Overlay(now[f][d], original[d]) = now[f][d]
          PROVE  \/ new[d] = NoEntry
                 \/ d \in touched'
                 \/ Overlay(new[d], original[d]) = new[d]
      <4>1. d \in Dirs
        BY DEF Named
      <4>2. CASE d \in command.dirs
        BY <1>2, <1>5, <4>2
      <4>3. CASE d \notin command.dirs
        BY <1>2, <1>5, <2>3, <3>1, <4>1, <4>3
      <4> QED
        BY <4>2, <4>3
    <3> QED
      BY <1>2, <3>1 DEF Accounted
  <2> QED
    BY <1>3, <2>2, <2>4
<1> QED
  BY <1>4, <1>5 DEF TypeOK

LEMMA RenameConfig ==
    ASSUME IInv, Rename("config.toml")
    PROVE  /\ stage = "migrate" /\ todo.text["config.toml"] = Blank
           /\ now["repos.toml"] = WithTables(now["repos.toml"], now["config.toml"])
           /\ Migrating' /\ Commanding' /\ TrustFirst'
           /\ RegisteredIsTrusted' /\ Accounted'
<1> USE DEF IInv
<1> DEFINE f == "config.toml"
<1>1. /\ f \in Files /\ f \in todo.files
      /\ "config.toml.bak" \notin todo.files /\ ".claude.json" \notin todo.files
      /\ "repos.toml" \notin todo.files
  BY DEF Files, Rename, Due, Earlier
<1>2. stage = "migrate"
  BY <1>1 DEF Commanding, TypeOK
<1>3. /\ todo.files = {f}
      /\ todo.text[f] = Blank /\ Named(now[f]) # {}
      /\ now["config.toml.bak"] = now[f]
      /\ now["repos.toml"] = WithTables(now["repos.toml"], now[f])
  BY <1>1, <1>2 DEF Migrating
<1>4. now[f] = original
  BY <1>3, ContentsFacts DEF Accounted
<1>5. /\ now'[f] = Blank
      /\ now'["repos.toml"] = now["repos.toml"] /\ now'[".claude.json"] = now[".claude.json"]
      /\ now'["config.toml.bak"] = now["config.toml.bak"]
      /\ todo'.files = {} /\ todo'.text = todo.text
      /\ UNCHANGED << command, stage, original, forgot >>
  BY <1>1, <1>3, RenameFacts DEF Files
<1>6. \A d \in Named(original) : \/ now["repos.toml"][d] = NoEntry
                                \/ Overlay(now["repos.toml"][d], original[d])
                                       = now["repos.toml"][d]
  BY <1>3, <1>4, FilesTyped, WithTablesFacts
<1>7. Migrating' /\ Commanding' /\ TrustFirst' /\ RegisteredIsTrusted'
  BY <1>2, <1>5 DEF Migrating, Commanding, TrustFirst, RegisteredIsTrusted
<1>8. Accounted'
  BY <1>3, <1>4, <1>5, <1>6 DEF Accounted
<1> QED
  BY <1>2, <1>3, <1>7, <1>8

LEMMA RenameStep == ASSUME NEW f \in Files PROVE IInv /\ Rename(f) => IInv'
<1> SUFFICES ASSUME IInv, Rename(f) PROVE IInv'
  OBVIOUS
<1>1. Migrating' /\ Commanding' /\ TrustFirst' /\ RegisteredIsTrusted' /\ Accounted'
  BY RenameBackup, RenameTrust, RenameRegistry, RenameConfig DEF Files
<1> QED
  BY <1>1, RenameTyped DEF IInv

LEMMA NextPreserves == IInv /\ [Next]_vars => IInv'
<1> SUFFICES ASSUME IInv, [Next]_vars PROVE IInv'
  OBVIOUS
<1>1. CASE Next
  BY <1>1, InvokeStep, ProceedStep, ExitStep, OpenTmpStep, WriteTmpStep, RenameStep,
     CrashStep, RewriteTablesStep, SessionForgetsStep DEF Next, Run
<1>2. CASE UNCHANGED vars
  <2>1. UNCHANGED << now, tmp, command, stage, todo, writing, plain, crashes,
                     original, touched, forgot >>
    BY <1>2 DEF vars, invocation, history
  <2>2. TypeOK' /\ Prepared' /\ (command = NoCommand => writing' = "no")
    BY <2>1 DEF IInv, TypeOK, Prepared, AtRest, Due
  <2> QED
    BY <2>1, <2>2, PlanKept
<1> QED
  BY <1>1, <1>2

\* The invariant holds in every reachable state.
THEOREM RegistryInvariant == Spec => []IInv
<1>1. Init => IInv
  BY InitEstablishes
<1>2. IInv /\ [Next]_vars => IInv'
  BY NextPreserves
<1> QED
  BY <1>1, <1>2, PTL DEF Spec

\* Every file is a map from directories to well-formed entries, whatever add and
\* the migration lay over each other.
THEOREM RegistryTyped == Spec => []TypeOK
<1>1. IInv => TypeOK
  BY DEF IInv
<1> QED
  BY <1>1, RegistryInvariant, PTL

\* cmd_add seeds trust before it saves the registry: every registered directory
\* is trusted unless a session has written its trust away.
THEOREM TrustPrecedes == Spec => []RegisteredIsTrusted
<1>1. IInv => RegisteredIsTrusted
  BY DEF IInv
<1> QED
  BY <1>1, RegistryInvariant, PTL

\* migrate_config loses no table, wherever it crashes and however often it is
\* run again.
THEOREM NoTableLost == Spec => []TablesKept
<1>1. IInv => TablesKept
  BY DEF IInv, Accounted, TablesKept
<1> QED
  BY <1>1, RegistryInvariant, PTL

----
(* The refinement. *)

RegistrySeen == now["repos.toml"]
TablesSeen == now["config.toml"]
AskedSeen == IF Waiting THEN command ELSE NoCommand

Abstract == << RegistrySeen, TablesSeen, AskedSeen >>

\* AtomicRegistry reads the settings as this module does.
LEMMA SameSettings ==
    /\ Registry!Contents = Contents
    /\ Registry!Blank = Blank
    /\ Registry!NoCommand = NoCommand
    /\ Registry!Commands = Commands
    /\ Registry!NoEntry = NoEntry
    /\ \A old, legacy : Registry!WithTables(old, legacy) = WithTables(old, legacy)
    /\ \A was, over : Registry!Laid(was, over) = Laid(was, over)
    /\ \A entry : Registry!SameDir(entry) = SameDir(entry)
<1>1. /\ Registry!NoEntry = NoEntry /\ Registry!Unset = Unset
      /\ Registry!Entries = Entries
  BY DEF Registry!NoEntry, NoEntry, Registry!Unset, Unset, Registry!Entries, Entries
<1>2. /\ Registry!Contents = Contents /\ Registry!Blank = Blank
      /\ Registry!NoCommand = NoCommand /\ Registry!Commands = Commands
  BY <1>1 DEF Registry!Contents, Contents, Registry!Blank, Blank, Registry!NoCommand,
              NoCommand, Registry!Commands, Commands
<1>3. \A under, over : Registry!Overlay(under, over) = Overlay(under, over)
  BY DEF Registry!Overlay, Overlay
<1>4. \A map : Registry!Named(map) = Named(map)
  BY <1>1 DEF Registry!Named, Named
<1>5. \A old, legacy : Registry!WithTables(old, legacy) = WithTables(old, legacy)
  BY <1>3, <1>4 DEF Registry!WithTables, WithTables
<1>6. \A was, over : Registry!Laid(was, over) = Laid(was, over)
  BY <1>1, <1>3 DEF Registry!Laid, Laid
<1>7. \A entry : Registry!SameDir(entry) = SameDir(entry)
  BY DEF Registry!SameDir, SameDir
<1> QED
  BY <1>1, <1>2, <1>5, <1>6, <1>7

LEMMA InitImplements == Init => Registry!Init
<1> SUFFICES ASSUME Init PROVE Registry!Init
  OBVIOUS
<1>1. TypeOK
  BY InitEstablishes DEF IInv
<1>2. now["repos.toml"] \in Contents /\ now["config.toml"] \in Contents
  BY <1>1, FilesTyped
<1>3. (IF Waiting THEN command ELSE NoCommand) = NoCommand
  BY DEF Init
<1> QED
  BY <1>2, <1>3, SameSettings DEF Registry!Init

\* A step that leaves what readers see, and what is asked, is a stutter.
LEMMA InvokeImplements ==
    ASSUME NEW c \in Invocations, IInv, Invoke(c)
    PROVE  Registry!Ask(c) /\ c \in Commands
<1>1. AskedSeen = NoCommand /\ AskedSeen' = c /\ UNCHANGED now
  BY DEF Invoke, AskedSeen, Waiting
<1>2. c \in Commands
  BY InvocationsTyped
<1> QED
  BY <1>1, <1>2, SameSettings DEF Registry!Ask, AskedSeen

LEMMA ProceedImplements ==
    ASSUME IInv, Proceed
    PROVE  Registry!GiveUp \/ UNCHANGED Abstract
<1> DEFINE dirs  == IF command.cmd = "add" THEN Addable(command.dirs, command.flags)
                    ELSE command.dirs \cap Named(now["repos.toml"])
           quits == command.cmd = "read" \/ dirs = {}
<1>1. /\ stage = "migrate" /\ UNCHANGED now
      /\ command' = IF quits THEN NoCommand ELSE command
      /\ stage' = IF quits THEN "migrate" ELSE "command"
      /\ todo' = IF quits THEN Nothing
                 ELSE IF command.cmd = "add" THEN Addition(dirs, command.flags)
                                             ELSE Removal(dirs)
  BY DEF Proceed
<1>2. CASE quits
  <2>1. AskedSeen' = NoCommand
    BY <1>1, <1>2 DEF AskedSeen
  <2> QED
    BY <1>1, <2>1, SameSettings DEF Registry!GiveUp, AskedSeen
<1>3. CASE ~quits
  <2>1. todo'.files # {}
    BY <1>1, <1>3 DEF Addition, Removal
  <2> QED
    BY <1>1, <1>3, <2>1 DEF Abstract, RegistrySeen, TablesSeen, AskedSeen, Waiting
<1> QED
  BY <1>2, <1>3

LEMMA EndsImplements ==
    ASSUME Ends, UNCHANGED now
    PROVE  Registry!GiveUp
<1>1. AskedSeen' = NoCommand
  BY DEF Ends, AskedSeen
<1> QED
  BY <1>1, SameSettings DEF Registry!GiveUp, AskedSeen

LEMMA RenameImplements ==
    ASSUME NEW f \in Files, IInv, Rename(f)
    PROVE  Registry!Next \/ UNCHANGED Abstract
<1>1. /\ Due(f) /\ command # NoCommand /\ UNCHANGED << command, stage >>
      /\ now'[f] = todo.text[f] /\ \A g \in Files \ {f} : now'[g] = now[g]
      /\ todo'.files = todo.files \ {f}
  BY RenameFacts
<1>2. Waiting
  BY <1>1 DEF Due, Waiting
<1>3. f \notin {"repos.toml", "config.toml"} => UNCHANGED << RegistrySeen, TablesSeen >>
  BY <1>1 DEF RegistrySeen, TablesSeen, Files
<1>4. CASE f = "config.toml.bak"
  <2>1. Waiting'
    BY <1>1, <1>4, RenameBackup DEF Waiting
  <2> QED
    BY <1>1, <1>2, <1>3, <1>4, <2>1 DEF Abstract, AskedSeen
<1>5. CASE f = ".claude.json"
  <2>1. Waiting'
    BY <1>5, RenameTrust DEF Waiting
  <2> QED
    BY <1>1, <1>2, <1>3, <1>5, <2>1 DEF Abstract, AskedSeen
<1>6. CASE f = "config.toml"
  <2>1. /\ stage = "migrate" /\ todo.text[f] = Blank
        /\ now["repos.toml"] = WithTables(now["repos.toml"], now["config.toml"])
    BY <1>6, RenameConfig
  <2>2. AskedSeen = command /\ AskedSeen' = command
    BY <1>1, <1>2, <2>1 DEF AskedSeen, Waiting
  <2>3. now'["repos.toml"] = now["repos.toml"] /\ now'["config.toml"] = Blank
    BY <1>1, <1>6, <2>1 DEF Files
  <2>4. Registry!DropTables
    BY <1>1, <2>1, <2>2, <2>3, SameSettings DEF Registry!DropTables, AskedSeen
  <2> QED
    BY <2>4 DEF Registry!Next
<1>7. CASE f = "repos.toml"
  <2>1. UNCHANGED TablesSeen /\ now'[f] = todo.text[f]
    BY <1>1, <1>7 DEF TablesSeen, Files
  <2>2. f \in todo.files /\ "config.toml.bak" \notin todo.files
    BY <1>1, <1>7 DEF Due, Earlier
  <2>3. CASE stage = "migrate"
    <3>1. todo.text[f] = WithTables(now[f], now["config.toml"])
      BY <1>7, <2>2, <2>3 DEF IInv, Migrating
    <3>2. AskedSeen = command /\ AskedSeen' = command
      BY <1>1, <1>2, <2>3 DEF AskedSeen, Waiting
    <3>3. Registry!LayTables
      BY <1>1, <1>7, <2>1, <3>1, <3>2, SameSettings DEF Registry!LayTables, AskedSeen, TablesSeen
    <3> QED
      BY <3>3 DEF Registry!Next
  <2>4. CASE stage = "command"
    <3>1. /\ todo'.files = {} /\ Effect(now'[f]) /\ now["config.toml"] = Blank
      BY <1>1, <1>7, <2>1, <2>2, <2>4 DEF IInv, Commanding, Due, Earlier
    <3>2. AskedSeen = command /\ AskedSeen' = NoCommand
      BY <1>1, <1>2, <2>4, <3>1 DEF AskedSeen, Waiting
    <3>3. CASE command.cmd = "add" /\ \E dirs \in SUBSET command.dirs :
                                          Adds(dirs, command.flags, now'[f])
      <4>1. PICK dirs \in SUBSET command.dirs : Adds(dirs, command.flags, now'[f])
        BY <3>3
      <4>2. PICK inferred \in SUBSET Dirs :
              now'[f] = [d \in Dirs |->
                           LET entry == Laid(now["repos.toml"][d], command.flags)
                           IN  IF d \notin dirs THEN now["repos.toml"][d]
                               ELSE IF d \in inferred THEN SameDir(entry) ELSE entry]
        BY <4>1 DEF Adds
      <4>3. Registry!Add(dirs, inferred)
        BY <1>7, <2>1, <3>1, <3>2, <3>3, <4>2, SameSettings
           DEF Registry!Add, AskedSeen, TablesSeen
      <4>4. \E ds \in SUBSET AskedSeen.dirs, i \in SUBSET Dirs : Registry!Add(ds, i)
        BY <3>2, <4>3
      <4> QED
        BY <4>4 DEF Registry!Next, AskedSeen
    <3>4. CASE command.cmd = "remove" /\ now'[f] = [d \in Dirs |->
                  IF d \in command.dirs THEN NoEntry ELSE now["repos.toml"][d]]
      <4>1. Registry!Remove
        BY <1>7, <2>1, <3>1, <3>2, <3>4, SameSettings DEF Registry!Remove, AskedSeen, TablesSeen
      <4> QED
        BY <4>1 DEF Registry!Next
    <3> QED
      BY <3>1, <3>3, <3>4 DEF Effect
  <2> QED
    BY <2>3, <2>4 DEF IInv, TypeOK
<1> QED
  BY <1>4, <1>5, <1>6, <1>7 DEF Files

LEMMA StepImplements ==
    IInv /\ [Next]_vars => Registry!Next \/ UNCHANGED Abstract
<1> SUFFICES ASSUME IInv, [Next]_vars PROVE Registry!Next \/ UNCHANGED Abstract
  OBVIOUS
<1>1. ASSUME NEW c \in Invocations, Invoke(c) PROVE Registry!Next
  BY <1>1, InvokeImplements, SameSettings DEF Registry!Next
<1>2. CASE Proceed
  BY <1>2, ProceedImplements DEF Registry!Next
<1>3. CASE Exit \/ Crash
  BY <1>3, EndsImplements DEF Exit, Crash, Registry!Next
<1>4. ASSUME NEW f \in Files, OpenTmp(f) \/ WriteTmp(f) PROVE UNCHANGED Abstract
  BY <1>4 DEF OpenTmp, WriteTmp, Abstract, RegistrySeen, TablesSeen, AskedSeen, Waiting
<1>5. ASSUME NEW f \in Files, Rename(f) PROVE Registry!Next \/ UNCHANGED Abstract
  BY <1>5, RenameImplements
<1>6. CASE RewriteTables
  BY <1>6 DEF RewriteTables, invocation, Abstract, RegistrySeen, TablesSeen, AskedSeen, Waiting
<1>7. ASSUME NEW d \in Dirs, SessionForgets(d) PROVE UNCHANGED Abstract
  <2>1. /\ now'["repos.toml"] = now["repos.toml"] /\ now'["config.toml"] = now["config.toml"]
        /\ UNCHANGED << command, stage, todo >>
    BY <1>7 DEF SessionForgets, invocation, IInv, TypeOK, Files
  <2> QED
    BY <2>1 DEF Abstract, RegistrySeen, TablesSeen, AskedSeen, Waiting
<1>8. CASE UNCHANGED vars
  BY <1>8 DEF vars, invocation, Abstract, RegistrySeen, TablesSeen, AskedSeen, Waiting
<1> QED
  BY <1>1, <1>2, <1>3, <1>4, <1>5, <1>6, <1>7, <1>8 DEF Next, Run

\* Invocations that follow each other implement AtomicRegistry: a reader of
\* repos.toml sees add, remove and the migration each take effect in one step,
\* wherever atomic_write is interrupted, and the legacy tables gone only after
\* their settings are in.
THEOREM RegistryAtomic == Spec => RegistryIsAtomic
<1>1. Init => Registry!Init
  BY InitImplements
<1>2. IInv /\ [Next]_vars => [Registry!Next]_<< now["repos.toml"], now["config.toml"],
                                 IF Waiting THEN command ELSE NoCommand >>
  BY StepImplements DEF Abstract, RegistrySeen, TablesSeen, AskedSeen
<1> QED
  BY <1>1, <1>2, RegistryInvariant, PTL DEF Spec, RegistryIsAtomic, Registry!Spec

====
