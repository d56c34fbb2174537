---- MODULE TmpFile ----
(* atomic_write (config.py) when several invocations write one file: the     *)
(* name of the temporary file is fixed, so they share it.  A name stands for *)
(* an inode, and a writer goes on with the inode it opened whatever happens  *)
(* to the name.                                                              *)
EXTENDS Naturals

CONSTANTS
    Writers,  \* invocations; each writes a text of its own
    Inodes,
    Old,      \* the inode of the file as it is at first
    None      \* the name does not exist

VARIABLES
    path, tmp,  \* the inodes behind the two names
    text,       \* what each inode holds
    fd,         \* the inode each writer has opened
    at          \* how far each writer is

vars == << path, tmp, text, fd, at >>

Texts == Writers \cup {"old", "empty", "torn"}

TypeOK ==
    /\ path \in Inodes
    /\ tmp \in Inodes \cup {None}
    /\ text \in [Inodes -> Texts]
    /\ fd \in [Writers -> Inodes \cup {None}]
    /\ at \in [Writers -> {"open", "write", "replace", "done", "failed"}]

\* An inode that no name and no writer holds.
Free == {i \in Inodes : i # path /\ i # tmp /\ \A w \in Writers : fd[w] # i}

\* open(tmp, "w") creates the file, or truncates the one that is there.
Open(w) ==
    /\ at[w] = "open"
    /\ \E i \in IF tmp = None THEN Free ELSE {tmp} :
          /\ tmp' = i
          /\ fd' = [fd EXCEPT ![w] = i]
          /\ text' = [text EXCEPT ![i] = "empty"]
    /\ at' = [at EXCEPT ![w] = "write"]
    /\ UNCHANGED path

\* The text is written from the start.  Where another has written meanwhile, the
\* tail of the longer text stays.
Write(w) ==
    /\ at[w] = "write"
    /\ \E new \in {w} \cup (IF text[fd[w]] \in {"empty", w} THEN {} ELSE {"torn"}) :
          text' = [text EXCEPT ![fd[w]] = new]
    /\ fd' = [fd EXCEPT ![w] = None]
    /\ at' = [at EXCEPT ![w] = "replace"]
    /\ UNCHANGED << path, tmp >>

\* tmp.replace(path) takes whatever is under the temporary name.
Replace(w) ==
    /\ at[w] = "replace"
    /\ tmp # None
    /\ path' = tmp
    /\ tmp' = None
    /\ at' = [at EXCEPT ![w] = "done"]
    /\ UNCHANGED << text, fd >>

\* Somebody else's rename took it: FileNotFoundError.
ReplaceFails(w) ==
    /\ at[w] = "replace"
    /\ tmp = None
    /\ at' = [at EXCEPT ![w] = "failed"]
    /\ UNCHANGED << path, tmp, text, fd >>

Init ==
    /\ path = Old
    /\ tmp = None
    /\ text = [i \in Inodes |-> IF i = Old THEN "old" ELSE "empty"]
    /\ fd = [w \in Writers |-> None]
    /\ at = [w \in Writers |-> "open"]

Next == \E w \in Writers : Open(w) \/ Write(w) \/ Replace(w) \/ ReplaceFails(w)

Spec == Init /\ [][Next]_vars

\* "Write via temp file + rename so readers never see a torn file."
NeverTorn == text[path] \notin {"empty", "torn"}

====
