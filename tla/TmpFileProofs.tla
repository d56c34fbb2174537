---- MODULE TmpFileProofs ----
(* What atomic_write does keep: a single writer is never seen half-way.      *)
EXTENDS TmpFile, TLAPS

\* Readers see a whole text, and what the writer is at is under the temporary
\* name alone.
Apart ==
    /\ NeverTorn
    /\ tmp # path
    /\ \A w \in Writers :
          /\ at[w] = "open" => tmp = None
          /\ at[w] = "write" => tmp # None /\ fd[w] = tmp /\ text[tmp] = "empty"
          /\ at[w] = "replace" => tmp # None /\ text[tmp] = w

\* One invocation writes at a time, and no text it writes is a torn one.
OneWriter ==
    /\ \A v, w \in Writers : v = w
    /\ {"empty", "torn"} \cap Writers = {}
    /\ Old \in Inodes /\ None \notin Inodes

LEMMA InitApart == ASSUME OneWriter, Init PROVE TypeOK /\ Apart
BY DEF OneWriter, Init, TypeOK, Texts, Apart, NeverTorn

LEMMA OpenApart ==
    ASSUME OneWriter, TypeOK, Apart, NEW w \in Writers, Open(w)
    PROVE  TypeOK' /\ Apart'
<1>1. tmp = None /\ Free \subseteq Inodes \ {path}
  BY DEF Open, Apart, Free
<1>2. PICK i \in Free :
          /\ tmp' = i /\ fd' = [fd EXCEPT ![w] = i]
          /\ text' = [text EXCEPT ![i] = "empty"]
          /\ at' = [at EXCEPT ![w] = "write"] /\ path' = path
  BY <1>1 DEF Open
<1>3. i \in Inodes /\ i # path
  BY <1>1
<1>4. TypeOK'
  BY <1>2, <1>3 DEF TypeOK, Texts
<1>5. text'[path'] = text[path] /\ text'[i] = "empty" /\ at'[w] = "write" /\ fd'[w] = i
  BY <1>2, <1>3 DEF TypeOK
<1>6. Apart'
  BY <1>2, <1>3, <1>5 DEF Apart, NeverTorn, OneWriter
<1> QED
  BY <1>4, <1>6

LEMMA WriteApart ==
    ASSUME OneWriter, TypeOK, Apart, NEW w \in Writers, Write(w)
    PROVE  TypeOK' /\ Apart'
<1>1. tmp \in Inodes /\ fd[w] = tmp /\ text[tmp] = "empty"
  BY DEF Write, Apart, TypeOK
<1>2. /\ text' = [text EXCEPT ![tmp] = w]
      /\ fd' = [fd EXCEPT ![w] = None] /\ at' = [at EXCEPT ![w] = "replace"]
      /\ UNCHANGED << path, tmp >>
  BY <1>1 DEF Write
<1>3. TypeOK'
  BY <1>1, <1>2 DEF TypeOK, Texts
<1>4. text'[path'] = text[path] /\ text'[tmp'] = w /\ at'[w] = "replace"
  BY <1>1, <1>2 DEF TypeOK, Apart
<1>5. Apart'
  BY <1>1, <1>2, <1>4 DEF Apart, NeverTorn, OneWriter, TypeOK
<1> QED
  BY <1>3, <1>5

LEMMA ReplaceApart ==
    ASSUME OneWriter, TypeOK, Apart, NEW w \in Writers, Replace(w) \/ ReplaceFails(w)
    PROVE  TypeOK' /\ Apart'
<1>1. at[w] = "replace" /\ tmp \in Inodes /\ text[tmp] = w
  BY DEF Replace, ReplaceFails, Apart, TypeOK
<1>2. /\ path' = tmp /\ tmp' = None /\ at' = [at EXCEPT ![w] = "done"]
      /\ UNCHANGED << text, fd >>
  BY <1>1 DEF Replace, ReplaceFails, Apart
<1>3. TypeOK'
  BY <1>1, <1>2 DEF TypeOK
<1>4. at'[w] = "done" /\ text'[path'] = w /\ tmp' # path'
  BY <1>1, <1>2 DEF TypeOK, OneWriter
<1>5. Apart'
  BY <1>4 DEF Apart, NeverTorn, OneWriter
<1> QED
  BY <1>3, <1>5

\* atomic_write as long as nobody else writes the same file: its readers see the
\* old text or the new one.
THEOREM OneWriterNeverTears == ASSUME OneWriter PROVE Spec => []NeverTorn
<1>1. Init => TypeOK /\ Apart
  BY InitApart
<1>2. TypeOK /\ Apart /\ [Next]_vars => TypeOK' /\ Apart'
  <2>1. CASE UNCHANGED vars
    BY <2>1 DEF vars, TypeOK, Apart, NeverTorn
  <2>2. CASE Next
    BY <2>2, OpenApart, WriteApart, ReplaceApart DEF Next
  <2> QED
    BY <2>1, <2>2
<1>3. Apart => NeverTorn
  BY DEF Apart
<1> QED
  BY <1>1, <1>2, <1>3, PTL DEF Spec

====
