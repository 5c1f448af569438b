--------------------------- MODULE FunctionsProofs ---------------------------
(***************************************************************************)
(* What holds of the functions MCFunctions runs, for every input: of       *)
(* DirectoryCopy for every tree of folders, however deep, of FileReading   *)
(* for every file and buffer, and of Conversions for every program name    *)
(* and argument, every sequence of calls of an MD5 stream, every packet    *)
(* and all bytes.                                                          *)
(***************************************************************************)
EXTENDS BytesProofs, DirectoryCopy, FileReading

-----------------------------------------------------------------------------
(***************************************************************************)
(* DirectoryCopy.  A file that was there is as it was until its entry is in *)
(* work, and every file is to come, in work, or has come to an end that the *)
(* two properties allow.                                                    *)
(***************************************************************************)
CopyTypeOK ==
    /\ target \in [Entry -> {"none", "old", "new"}]
    /\ asked \in [overwrite : BOOLEAN, ignored : SUBSET Files]
    /\ unreadable \subseteq Folder /\ todo \subseteq Entry /\ failed \subseteq Entry
    /\ had \subseteq Files
    /\ step \in [of : Entry \cup {NoEntry},
                 pc : {"next", "folder", "exists", "remove", "copy", "done"}]
    /\ copied \in {"no", "false", "true"}

\* What the step in work has found out about its entry.
InWork ==
    /\ step.pc = "next" <=> step.of = NoEntry
    /\ step.pc = "folder" => step.of \in Folder
    /\ step.pc \in {"exists", "remove", "copy"} => step.of \in Files \ asked.ignored
    /\ step.pc = "remove" => asked.overwrite
    /\ step.of \notin todo
    /\ copied # "no" => step.pc = "next"

\* A file that was there, before, at and after its turn.
OldKept(e) ==
    /\ e \in todo => target[e] = "old"
    /\ step.of = e /\ step.pc \in {"exists", "remove"} => target[e] = "old"
    /\ step.of = e /\ step.pc = "copy" => asked.overwrite
    /\ step.of = e /\ step.pc = "done" => target[e] # "none"

Accounted(e) ==
    \/ e \in todo
    \/ step.of = e /\ step.pc # "done"
    \/ target[e] = "new"
    \/ target[e] = "old" /\ ~asked.overwrite
    \/ e \in asked.ignored \cup failed

CopyInv ==
    /\ CopyTypeOK /\ InWork
    /\ CopyKeepsOld /\ \A e \in had : OldKept(e)
    /\ CopyComplete /\ (copied # "false" => \A e \in Files : Accounted(e))

-----------------------------------------------------------------------------
LEMMA CopyInitHolds == CopyInit => CopyInv
<1> SUFFICES ASSUME CopyInit PROVE CopyInv
  OBVIOUS
<1>1. CopyTypeOK
  BY CopyAssumption DEF CopyInit, CopyTypeOK, Before, Files, Idle
<1>2. InWork
  BY CopyAssumption DEF CopyInit, InWork, Idle
<1>3. CopyKeepsOld /\ \A e \in had : OldKept(e)
  BY CopyAssumption DEF CopyInit, CopyKeepsOld, OldKept, Idle, Files
<1>4. CopyComplete /\ \A e \in Files : Accounted(e)
  BY DEF CopyInit, CopyComplete, Accounted, Files
<1> QED BY <1>1, <1>2, <1>3, <1>4 DEF CopyInv

LEMMA StepGoes ==
    ASSUME CopyTypeOK, InWork, NEW from, NEW to, from # "next", Goes(from, to)
    PROVE  /\ step.pc = from /\ step'.of = step.of /\ step'.pc = to
           /\ step.of \in Entry /\ copied = "no" /\ step' = [of |-> step.of, pc |-> to]
BY DEF Goes, CopyTypeOK, InWork

LEMMA NextEntryHolds ==
    ASSUME CopyInv, NEW e \in Entry, NextEntry(e)
    PROVE  CopyInv'
<1>1. /\ step.pc = "next" /\ step.of = NoEntry /\ e \in todo /\ todo' = todo \ {e} /\ copied = "no"
      /\ step'.of = e /\ e # NoEntry
      /\ step'.pc = IF e \in Folder THEN "folder"
                    ELSE IF e \in asked.ignored THEN "done" ELSE "exists"
      /\ step' = [of |-> step'.of, pc |-> step'.pc]
      /\ UNCHANGED <<target, asked, unreadable, failed, copied, had>>
  BY CopyAssumption DEF NextEntry, Running, Idle
<1>2. CopyTypeOK'
  BY <1>1 DEF CopyInv, CopyTypeOK, Files
<1>3. InWork'
  BY <1>1 DEF CopyInv, InWork, Files
<1>6. \A f \in Files : f \in Entry /\ f # NoEntry /\ f \notin Folder
  BY CopyAssumption DEF Files
<1>4. CopyKeepsOld' /\ \A f \in had' : OldKept(f)'
  BY <1>1, <1>6 DEF CopyInv, CopyTypeOK, CopyKeepsOld, OldKept
<1>5. CopyComplete' /\ \A f \in Files : Accounted(f)'
  BY <1>1, <1>6 DEF CopyInv, CopyComplete, Accounted
<1> QED BY <1>2, <1>3, <1>4, <1>5 DEF CopyInv

\* A folder that is made is not a file, and what is there stays as it is.
LEMMA MakeFolderHolds ==
    ASSUME CopyInv, MakeFolder
    PROVE  CopyInv'
<1>1. /\ step.pc = "folder" /\ step'.of = step.of /\ step'.pc = "done"
      /\ step.of \in Folder /\ copied = "no" /\ step' = [of |-> step.of, pc |-> "done"]
      /\ UNCHANGED <<asked, unreadable, todo, failed, copied, had>>
  BY StepGoes DEF MakeFolder, CopyInv, InWork
<1>2. Above[step.of] \cup {step.of} \subseteq Folder
  BY <1>1, CopyAssumption
<1>3. /\ target' \in [Entry -> {"none", "old", "new"}]
      /\ \A e \in Files : target'[e] = target[e]
  BY <1>2 DEF MakeFolder, CopyInv, CopyTypeOK, Files
<1>4. CopyTypeOK' /\ InWork'
  BY <1>1, <1>3, CopyAssumption DEF CopyInv, CopyTypeOK, InWork, Files
<1>5. CopyKeepsOld' /\ \A e \in had' : OldKept(e)'
  BY <1>1, <1>3 DEF CopyInv, CopyTypeOK, CopyKeepsOld, OldKept, Files
<1>6. CopyComplete' /\ \A e \in Files : Accounted(e)'
  BY <1>1, <1>3 DEF CopyInv, CopyComplete, Accounted, Files
<1> QED BY <1>4, <1>5, <1>6 DEF CopyInv

LEMMA AskExistsHolds ==
    ASSUME CopyInv, AskExists
    PROVE  CopyInv'
<1> DEFINE to == IF target[step.of] = "none" THEN "copy"
                 ELSE IF asked.overwrite THEN "remove" ELSE "done"
<1>1. /\ step.pc = "exists" /\ step'.of = step.of /\ step'.pc = to
      /\ step.of \in Entry /\ copied = "no" /\ step' = [of |-> step.of, pc |-> to]
      /\ UNCHANGED <<target, asked, unreadable, todo, failed, copied, had>>
  BY StepGoes DEF AskExists, CopyInv
<1>2. step.of \in Files \ asked.ignored /\ target[step.of] \in {"none", "old", "new"}
  BY <1>1 DEF CopyInv, InWork, CopyTypeOK
<1>3. CopyTypeOK' /\ InWork'
  BY <1>1, <1>2 DEF CopyInv, CopyTypeOK, InWork, Files
<1>4. CopyKeepsOld' /\ \A e \in had' : OldKept(e)'
  BY <1>1 DEF CopyInv, CopyKeepsOld, OldKept
<1>5. CopyComplete' /\ \A e \in Files : Accounted(e)'
  BY <1>1, <1>2 DEF CopyInv, CopyComplete, Accounted
<1> QED BY <1>3, <1>4, <1>5 DEF CopyInv

LEMMA RemoveOrCopyHolds ==
    ASSUME CopyInv, RemoveOld \/ CopyFile
    PROVE  CopyInv'
<1>1. PICK to \in {"none", "new"} :
        /\ step.pc = IF to = "none" THEN "remove" ELSE "copy"
        /\ step'.of = step.of /\ step'.pc = IF to = "none" THEN "copy" ELSE "done"
        /\ step.of \in Entry /\ copied = "no"
        /\ step' = [of |-> step'.of, pc |-> step'.pc]
        /\ target' = [target EXCEPT ![step.of] = to]
        /\ UNCHANGED <<asked, unreadable, todo, failed, copied, had>>
  <2>1. CASE RemoveOld
    BY <2>1, StepGoes DEF RemoveOld, CopyInv
  <2>2. CASE CopyFile
    BY <2>2, StepGoes DEF CopyFile, CopyInv
  <2> QED BY <2>1, <2>2
<1>2. step.of \in Files \ asked.ignored
  BY <1>1 DEF CopyInv, InWork
<1>3. CopyTypeOK' /\ InWork'
  BY <1>1, <1>2 DEF CopyInv, CopyTypeOK, InWork, Files
<1>4. /\ target'[step.of] = to
      /\ \A e \in Entry \ {step.of} : target'[e] = target[e]
  BY <1>1 DEF CopyInv, CopyTypeOK
<1>5. had \subseteq Entry /\ step.of \notin todo /\ (to = "none" => asked.overwrite)
  BY <1>1 DEF CopyInv, CopyTypeOK, InWork, Files
<1>6. \A e \in had' : OldKept(e)'
  BY <1>1, <1>4, <1>5 DEF CopyInv, OldKept
<1>7. CopyKeepsOld'
  <2> SUFFICES ASSUME NEW e \in had, target'[e] # "old"
               PROVE  /\ asked.overwrite /\ e \notin asked.ignored
                      /\ target'[e] = "new" \/ step.of = e \/ e \in failed
    BY <1>1 DEF CopyKeepsOld
  <2>1. CASE e = step.of
    BY <1>1, <1>2, <1>5, <2>1 DEF CopyInv, OldKept
  <2>2. CASE e # step.of
    BY <1>1, <1>4, <1>5, <2>2 DEF CopyInv, CopyKeepsOld
  <2> QED BY <2>1, <2>2
<1>8. CopyComplete' /\ \A e \in Files : Accounted(e)'
  BY <1>1, <1>4 DEF CopyInv, CopyComplete, Accounted, Files
<1> QED BY <1>3, <1>6, <1>7, <1>8 DEF CopyInv

LEMMA EndEntryHolds ==
    ASSUME CopyInv, Throws \/ EntryDone \/ GiveUp
    PROVE  CopyInv'
<1>1. /\ step'.of = NoEntry /\ step'.pc = "next"
      /\ step' \in [of : Entry \cup {NoEntry},
                   pc : {"next", "folder", "exists", "remove", "copy", "done"}]
      /\ failed \subseteq failed' /\ failed' \subseteq failed \cup {step.of}
      /\ UNCHANGED <<target, asked, unreadable, todo, had>>
      /\ copied' \in {"no", "false", "true"}
  BY DEF Throws, EntryDone, GiveUp, Idle, CopyInv, CopyTypeOK
<1>2. CASE Throws
  <2>1. step.of \in Entry /\ failed' = failed \cup {step.of} /\ copied = "no" /\ copied' = "no"
    BY <1>2 DEF Throws, CopyInv, CopyTypeOK, InWork
  <2>2. CopyTypeOK' /\ InWork'
    BY <1>1, <2>1, CopyAssumption DEF CopyInv, CopyTypeOK, InWork
  <2>3. CopyKeepsOld' /\ \A e \in had' : OldKept(e)'
    BY <1>1, <2>1, CopyAssumption DEF CopyInv, CopyTypeOK, CopyKeepsOld, OldKept, Files
  <2>4. CopyComplete' /\ \A e \in Files : Accounted(e)'
    BY <1>1, <2>1 DEF CopyInv, CopyComplete, Accounted
  <2> QED BY <2>2, <2>3, <2>4 DEF CopyInv
<1>3. CASE EntryDone
  <2>1. /\ step.of \in Entry /\ failed' = failed /\ copied = "no" /\ copied' = "no"
        /\ step.pc = "done"
    BY <1>3 DEF EntryDone, CopyInv, CopyTypeOK, InWork
  <2>2. CopyTypeOK' /\ InWork'
    BY <1>1, <2>1, CopyAssumption DEF CopyInv, CopyTypeOK, InWork
  <2>3. CopyKeepsOld' /\ \A e \in had' : OldKept(e)'
    <3>1. \A e \in had : target[e] \in {"none", "old", "new"} /\ e # NoEntry
      BY CopyAssumption DEF CopyInv, CopyTypeOK, Files
    <3> QED BY <1>1, <2>1, <3>1 DEF CopyInv, CopyKeepsOld, OldKept
  <2>4. CopyComplete' /\ \A e \in Files : Accounted(e)'
    BY <1>1, <2>1 DEF CopyInv, CopyComplete, Accounted
  <2> QED BY <2>2, <2>3, <2>4 DEF CopyInv
<1>4. CASE GiveUp
  <2>1. copied' = "false" /\ step.pc \in {"next", "exists"} /\ failed' = failed
    BY <1>4 DEF GiveUp
  <2>2. CopyTypeOK' /\ InWork'
    BY <1>1, <2>1, CopyAssumption DEF CopyInv, CopyTypeOK, InWork
  <2>3. CopyKeepsOld' /\ \A e \in had' : OldKept(e)'
    <3>1. \A e \in had : e # NoEntry
      BY CopyAssumption DEF CopyInv, CopyTypeOK, Files
    <3> QED BY <1>1, <2>1, <3>1 DEF CopyInv, InWork, CopyKeepsOld, OldKept
  <2> QED BY <2>1, <2>2, <2>3 DEF CopyInv, CopyComplete
<1> QED BY <1>2, <1>3, <1>4

\* An entry that is still to come when the loop ends has an unreadable folder
\* above it: of those without one the topmost would have come.
LEMMA EndCopyHolds ==
    ASSUME CopyInv, EndCopy
    PROVE  CopyInv'
<1>1. /\ step = Idle /\ step.of = NoEntry /\ step.pc = "next" /\ copied = "no" /\ copied' = "true"
      /\ \A e \in todo : Above[e] \cap (todo \cup unreadable) # {}
      /\ UNCHANGED <<target, asked, unreadable, todo, step, failed, had>>
  BY DEF EndCopy, Running, Idle
<1>2. todo \subseteq Entry /\ \A e \in Entry : Above[e] \subseteq Entry
  BY CopyAssumption DEF CopyInv, CopyTypeOK
<1>3. \A e \in todo : Above[e] \cap unreadable # {}
  <2> DEFINE Blocked == {e \in todo : Above[e] \cap unreadable = {}}
             T == {Above[e] : e \in Blocked}
  <2> SUFFICES ASSUME Blocked # {} PROVE FALSE
    OBVIOUS
  <2>1. T \subseteq SUBSET Entry /\ T # {}
    BY <1>2
  <2>2. PICK A \in T : \A B \in T : B \subseteq A => B = A
    <3>1. IsWellFoundedOn(StrictSubsetOrdering(Entry), FiniteSubsetsOf(Entry))
      BY FS_StrictSubsetOrderingWellFounded
    <3>2. T \subseteq FiniteSubsetsOf(Entry)
      BY <2>1, CopyAssumption, FS_FiniteSubsetsOfFinite
    <3> HIDE DEF T
    <3>3. PICK A \in T : \A B \in T : <<B, A>> \notin StrictSubsetOrdering(Entry)
      BY <2>1, <3>1, <3>2, WFMin
    <3> QED BY <2>1, <3>3 DEF StrictSubsetOrdering
  <2>3. PICK e \in Blocked : A = Above[e]
    OBVIOUS
  <2>4. PICK d \in Above[e] : d \in todo
    BY <1>1
  <2>5. Above[d] \subseteq Above[e] /\ d \notin Above[d]
    BY <1>2, <2>4, CopyAssumption
  <2>6. Above[d] \in T
    BY <2>4, <2>5
  <2> QED BY <2>2, <2>3, <2>4, <2>5, <2>6
<1>4. CopyTypeOK' /\ InWork'
  BY <1>1 DEF CopyInv, CopyTypeOK, InWork
<1>5. CopyKeepsOld' /\ \A e \in had' : OldKept(e)'
  BY <1>1 DEF CopyInv, CopyKeepsOld, OldKept
<1>6. \A e \in Files : Accounted(e)'
  BY <1>1 DEF CopyInv, Accounted
<1>7. CopyComplete'
  <2>1. \A e \in Files : e # NoEntry
    BY CopyAssumption DEF Files
  <2>2. \A e \in Files : Accounted(e)
    BY <1>1 DEF CopyInv
  <2> QED BY <1>1, <1>3, <2>1, <2>2 DEF CopyComplete, Accounted
<1> QED BY <1>4, <1>5, <1>6, <1>7 DEF CopyInv

LEMMA CopyInvariant == CopySpec => []CopyInv
<1>1. ASSUME CopyInv, [CopyNext]_copyVars PROVE CopyInv'
  <2>1. CASE UNCHANGED copyVars
    BY <1>1, <2>1 DEF copyVars, CopyInv, CopyTypeOK, InWork, CopyKeepsOld, OldKept,
                      CopyComplete, Accounted
  <2> QED BY <1>1, <2>1, NextEntryHolds, MakeFolderHolds, AskExistsHolds, RemoveOrCopyHolds,
             EndEntryHolds, EndCopyHolds DEF CopyNext
<1> QED BY <1>1, CopyInitHolds, PTL DEF CopySpec

(***************************************************************************)
(* For every tree: without overwrite a copy takes nothing away, and with it *)
(* a file that was there is gone only while it is in work or if its own     *)
(* removal or copy went wrong (folder_util.cpp:275-291).                    *)
(***************************************************************************)
THEOREM OldFilesAreKept == CopySpec => []CopyKeepsOld
<1>1. CopyInv => CopyKeepsOld
  BY DEF CopyInv
<1> QED BY <1>1, CopyInvariant, PTL

(***************************************************************************)
(* For every tree: each hole of a copy that says "true" is a file over      *)
(* which an exception was thrown, or below a folder that could not be read  *)
(* (folder_util.cpp:261-263, 294-302).                                      *)
(***************************************************************************)
THEOREM HolesHaveAReason == CopySpec => []CopyComplete
<1>1. CopyInv => CopyComplete
  BY DEF CopyInv
<1> QED BY <1>1, CopyInvariant, PTL

-----------------------------------------------------------------------------
(***************************************************************************)
(* FileReading.  As long as the callback does not stop it the next read is  *)
(* where the last chunk ended.                                              *)
(***************************************************************************)
ChunkType == [at : Nat, size : Nat]
EndOf(c) == c.at + c.size

FileTypeOK ==
    /\ length \in Nat /\ file_size \in Nat /\ offset \in Nat
    /\ chunks \in Seq(ChunkType)
    /\ reading \in {"no", "yes", "stopped"}

FileInv ==
    /\ FileTypeOK
    /\ ChunksJoin
    /\ reading # "stopped" =>
        offset = IF chunks = <<>> THEN 0 ELSE EndOf(chunks[Len(chunks)])

LEMMA ChunkHolds ==
    ASSUME FileInv, Chunk
    PROVE  FileInv'
<1> DEFINE c == [at |-> offset, size |-> Got]
<1>1. Got \in Nat /\ Got > 0 /\ c \in ChunkType /\ EndOf(c) = Advance
  BY FileAssumption DEF Chunk, FileInv, FileTypeOK, Got, ChunkType, EndOf, Advance
<1>2. /\ chunks' = Append(chunks, c) /\ chunks \in Seq(ChunkType) /\ reading = "yes"
      /\ UNCHANGED <<length, file_size>>
      /\ \/ reading' = "stopped" /\ offset' = offset
         \/ reading' = "yes" /\ offset' = Advance
  BY DEF Chunk, FileInv, FileTypeOK
<1> HIDE DEF c
<1>3. /\ chunks' \in Seq(ChunkType) /\ Len(chunks') = Len(chunks) + 1 /\ Len(chunks) \in Nat
      /\ chunks'[Len(chunks) + 1] = c
      /\ \A i \in 1 .. Len(chunks) : chunks'[i] = chunks[i]
      /\ DOMAIN chunks' = 1 .. Len(chunks) + 1 /\ DOMAIN chunks = 1 .. Len(chunks)
  BY <1>1, <1>2
<1>4. FileTypeOK'
  BY <1>1, <1>2, <1>3 DEF FileInv, FileTypeOK, EndOf, ChunkType
<1>5. ChunksJoin'
  <2> SUFFICES ASSUME NEW i \in DOMAIN chunks'
               PROVE  /\ chunks'[i].size > 0
                      /\ chunks'[i].at = IF i = 1 THEN 0 ELSE EndOf(chunks'[i - 1])
    BY <1>2 DEF ChunksJoin, EndOf
  <2>1. CASE i \in 1 .. Len(chunks)
    <3>1. i # 1 => i - 1 \in 1 .. Len(chunks)
      BY <1>3, <2>1
    <3> QED BY <1>3, <2>1, <3>1 DEF FileInv, ChunksJoin, EndOf
  <2>2. CASE i = Len(chunks) + 1
    <3>1. chunks'[i].size = Got /\ chunks'[i].at = offset
      BY <1>3, <2>2 DEF c
    <3>2. CASE chunks = <<>>
      BY <1>1, <1>2, <1>3, <2>2, <3>1, <3>2 DEF FileInv
    <3>3. CASE chunks # <<>>
      <4>1. Len(chunks) \in 1 .. Len(chunks) /\ i - 1 = Len(chunks) /\ i # 1
        BY <1>2, <1>3, <2>2, <3>3
      <4> QED BY <1>1, <1>2, <1>3, <3>1, <3>3, <4>1 DEF FileInv
    <3> QED BY <3>2, <3>3
  <2> QED BY <1>3, <2>1, <2>2
<1> QED BY <1>1, <1>2, <1>3, <1>4, <1>5 DEF FileInv

LEMMA FileInvariant == FileSpec => []FileInv
<1>1. FileInit => FileInv
  BY FileAssumption DEF FileInit, FileInv, FileTypeOK, ChunksJoin
<1>2. ASSUME FileInv, [FileNext]_fileVars PROVE FileInv'
  <2>1. CASE EndReading
    BY <1>2, <2>1 DEF EndReading, More, FileInv, FileTypeOK, ChunksJoin, EndOf
  <2>2. ASSUME NEW n \in 0 .. kMaxFile, Resize(n) PROVE FileInv'
    BY <1>2, <2>2, FileAssumption DEF Resize, FileInv, FileTypeOK, ChunksJoin
  <2>3. CASE UNCHANGED fileVars
    BY <1>2, <2>3 DEF fileVars, FileInv, FileTypeOK, ChunksJoin
  <2> QED BY <1>2, <2>1, <2>2, <2>3, ChunkHolds DEF FileNext
<1> QED BY <1>1, <1>2, PTL DEF FileSpec

(***************************************************************************)
(* For every buffer size and file, and whatever other programs do to the    *)
(* file meanwhile, the chunks join without a gap or an overlap              *)
(* (file.cpp:124-133).                                                      *)
(***************************************************************************)
THEOREM ReadsJoin == FileSpec => []ChunksJoin
<1>1. FileInv => ChunksJoin
  BY DEF FileInv
<1> QED BY <1>1, FileInvariant, PTL

-----------------------------------------------------------------------------
(***************************************************************************)
(* Command lines.  A program name and arguments of any characters, escaped *)
(* one by one, are split where they were joined: Reads says that reading a *)
(* text takes the split from one state to another, and texts read one      *)
(* after the other add up.                                                 *)
(***************************************************************************)
Text == Seq(Character)
EscapeState == [out : Text, slashes : Nat]
Opened == [out |-> <<Quote>>, slashes |-> 0]

LEMMA RepeatType ==
    ASSUME NEW c \in Character, NEW n \in Nat
    PROVE  Repeat(c, n) \in Text /\ Len(Repeat(c, n)) = n
BY DEF Repeat, Text

LEMMA EscapeCharType ==
    ASSUME NEW st \in EscapeState, NEW c \in Character
    PROVE  EscapeChar(st, c) \in EscapeState
<1>1. st.out \in Text /\ st.slashes \in Nat
  BY DEF EscapeState
<1>2. CASE c = Backslash
  BY <1>1, <1>2 DEF EscapeChar, EscapeState
<1>3. CASE c # Backslash
  <2> DEFINE n == IF c = Quote THEN 2 * st.slashes + 1 ELSE st.slashes
  <2>1. n \in Nat
    BY <1>1
  <2>2. EscapeChar(st, c) = [out |-> st.out \o Repeat(Backslash, n) \o <<c>>, slashes |-> 0]
    BY <1>3 DEF EscapeChar
  <2> HIDE DEF n
  <2>3. Repeat(Backslash, n) \in Text
    BY <2>1, RepeatType, CharacterAssumption
  <2>4. st.out \o Repeat(Backslash, n) \o <<c>> \in Text
    BY <1>1, <2>3 DEF Text
  <2> QED BY <2>2, <2>4 DEF EscapeState
<1> QED BY <1>2, <1>3

\* EscapeArg's fold, position by position.
LEMMA EscapeFold ==
    ASSUME NEW arg \in Text
    PROVE  \E f \in [0 .. Len(arg) -> EscapeState] :
              /\ f[0] = Opened
              /\ \A i \in 1 .. Len(arg) : f[i] = EscapeChar(f[i - 1], arg[i])
              /\ FoldLeft(EscapeChar, Opened, arg) = f[Len(arg)]
<1> DEFINE n == Len(arg)
           F == [p \in EscapeState \X (1 .. n) |-> EscapeChar(p[1], arg[p[2]])]
           Iter(g) == g = [s \in SUBSET (1 .. n) |->
                             IF s = {} THEN Opened ELSE EscapeChar(g[s \ {Max(s)}], arg[Max(s)])]
           it == CHOOSE g : Iter(g)
           f == [i \in 0 .. n |-> it[1 .. i]]
<1>1. n \in Nat /\ (\A i \in 1 .. n : arg[i] \in Character) /\ DOMAIN arg = 1 .. n
  BY DEF Text
<1>2. FoldLeft(EscapeChar, Opened, arg) = it[1 .. n]
  BY <1>1 DEF FoldLeft, MapThenFoldSet
<1>3. Opened \in EscapeState
  BY CharacterAssumption DEF Opened, EscapeState, Text
<1>4. \A x \in EscapeState, i \in 1 .. n :
         F[<<x, i>>] = EscapeChar(x, arg[i]) /\ F[<<x, i>>] \in EscapeState
  BY <1>1, EscapeCharType
<1> HIDE DEF n, F, it, f
<1>5. PICK g : Folded(g, F, Opened, EscapeState, n)
  BY <1>1, <1>3, <1>4, FoldSteps DEF Keeps
<1>6. Iter(g)
  <2>1. \A s \in SUBSET (1 .. n) : s # {} => g[s] = EscapeChar(g[s \ {Max(s)}], arg[Max(s)])
    BY <1>4, <1>5 DEF Folded
  <2> QED BY <1>5, <2>1 DEF Folded
<1>7. Iter(it)
  BY <1>6 DEF it
<1>8. it[1 .. 0] = Opened /\ \A i \in 1 .. n : it[1 .. i] = EscapeChar(it[1 .. i - 1], arg[i])
  <2>1. \A s \in SUBSET (1 .. n) :
           it[s] = IF s = {} THEN Opened ELSE EscapeChar(it[s \ {Max(s)}], arg[Max(s)])
    BY <1>7
  <2> HIDE DEF Iter
  <2>2. ASSUME NEW i \in 1 .. n PROVE it[1 .. i] = EscapeChar(it[1 .. i - 1], arg[i])
    <3>1. Max(1 .. i) = i /\ (1 .. i) \ {i} = 1 .. i - 1
      BY <1>1, GreatestUpTo
    <3>2. 1 .. i \in SUBSET (1 .. n) /\ 1 .. i # {}
      BY <1>1
    <3> QED BY <2>1, <3>1, <3>2
  <2>3. {} \in SUBSET (1 .. n) /\ 1 .. 0 = {}
    OBVIOUS
  <2> QED BY <2>1, <2>2, <2>3
<1>9. f[0] = Opened /\ \A i \in 1 .. n : f[i] = EscapeChar(f[i - 1], arg[i])
  BY <1>1, <1>8 DEF f
<1>10. f \in [0 .. n -> EscapeState]
  <2> DEFINE G == {i \in 0 .. n : f[i] \in EscapeState}
  <2>1. 0 \in G
    BY <1>1, <1>3, <1>9
  <2>2. \A i \in 1 .. n : i - 1 \in G => i \in G
    BY <1>1, <1>9, EscapeCharType
  <2>3. \A i \in 0 .. n : i \in G
    BY <1>1, <2>1, <2>2, Upward
  <2> QED BY <2>3 DEF f
<1>11. FoldLeft(EscapeChar, Opened, arg) = f[n]
  BY <1>1, <1>2 DEF f
<1> QED BY <1>9, <1>10, <1>11 DEF n

-----------------------------------------------------------------------------
SplitState == [words : Seq(Text), word : Text, begun : BOOLEAN, quoted : BOOLEAN, slashes : Nat]
At(ws, w, b, q, n) == [words |-> ws, word |-> w, begun |-> b, quoted |-> q, slashes |-> n]
Yes == TRUE
No == FALSE
Between(ws) == At(ws, <<>>, No, No, 0)

LEMMA AtType ==
    ASSUME NEW ws \in Seq(Text), NEW w \in Text, NEW b \in BOOLEAN, NEW q \in BOOLEAN, NEW n \in Nat
    PROVE  At(ws, w, b, q, n) \in SplitState
BY DEF At, SplitState, Yes, No

LEMMA YesNo == Yes \in BOOLEAN /\ No \in BOOLEAN /\ \A q \in BOOLEAN : q = Yes \/ q = No
BY DEF Yes, No

\* SplitChar, case by case, from a state written as At.
LEMMA SplitSlash ==
    ASSUME NEW ws, NEW w, NEW b, NEW q, NEW n
    PROVE  SplitChar(At(ws, w, b, q, n), Backslash) = At(ws, w, b, q, n + 1)
BY DEF SplitChar, At

LEMMA SplitEscapedQuote ==
    ASSUME NEW ws, NEW w, NEW q, NEW b, NEW n \in Nat, n % 2 = 1
    PROVE  SplitChar(At(ws, w, b, q, n), Quote) =
             At(ws, Append(w \o Repeat(Backslash, n \div 2), Quote), Yes, q, 0)
BY DEF SplitChar, At, Yes, No, Quote, Backslash

LEMMA SplitQuote ==
    ASSUME NEW ws, NEW w, NEW b, NEW n \in Nat, n % 2 # 1
    PROVE  /\ SplitChar(At(ws, w, b, Yes, n), Quote) =
                At(ws, w \o Repeat(Backslash, n \div 2), Yes, No, 0)
           /\ SplitChar(At(ws, w, b, No, n), Quote) =
                At(ws, w \o Repeat(Backslash, n \div 2), Yes, Yes, 0)
BY DEF SplitChar, At, Yes, No, Quote, Backslash

\* A space outside quotes ends the word, if there is one.
LEMMA SplitSpace ==
    ASSUME NEW ws, NEW w, NEW n \in Nat
    PROVE  SplitChar(At(ws, w, Yes, No, n), Space) = Between(Append(ws, w \o Repeat(Backslash, n)))
BY DEF SplitChar, EndWord, At, Yes, No, Between, Quote, Backslash, Space

LEMMA SplitSpace2 ==
    ASSUME NEW ws, NEW w, NEW n \in Nat, n > 0
    PROVE  SplitChar(At(ws, w, No, No, n), Space) = Between(Append(ws, w \o Repeat(Backslash, n)))
BY DEF SplitChar, EndWord, At, Yes, No, Between, Quote, Backslash, Space

LEMMA SplitStateIsAt ==
    ASSUME NEW st \in SplitState
    PROVE  st = At(st.words, st.word, st.begun, st.quoted, st.slashes)
BY DEF SplitState, At

LEMMA SplitSpace3 ==
    ASSUME NEW ws \in Seq(Text), NEW w \in Text, NEW n \in Nat, n = 0
    PROVE  SplitChar(At(ws, w, No, No, n), Space) = At(ws, w \o Repeat(Backslash, n), No, No, 0)
<1> DEFINE p == [At(ws, w, No, No, n) EXCEPT !.word = w \o Repeat(Backslash, n),
                    !.slashes = 0, !.begun = No]
<1>1. p.words = ws /\ p.word = w \o Repeat(Backslash, n) /\ p.begun = No /\ p.quoted = No /\ p.slashes = 0
  BY DEF At, Yes, No
<1>2. p \in SplitState
  <2>1. At(ws, w, No, No, n) \in SplitState
    BY AtType, YesNo
  <2>2. w \o Repeat(Backslash, n) \in Text
    BY RepeatType, CharacterAssumption DEF Text
  <2> QED BY <2>1, <2>2 DEF SplitState, No
<1>3. SplitChar(At(ws, w, No, No, n), Space) = EndWord(p)
  BY DEF SplitChar, At, Yes, No, Quote, Backslash, Space
<1>4. EndWord(p) = p
  BY <1>1 DEF EndWord, No
<1> HIDE DEF p
<1> QED BY <1>1, <1>2, <1>3, <1>4, SplitStateIsAt

LEMMA SplitPlain ==
    ASSUME NEW ws, NEW w, NEW b, NEW q, NEW n \in Nat,
           NEW c, c # Backslash, c # Quote, c # Space
    PROVE  SplitChar(At(ws, w, b, q, n), c) =
             At(ws, Append(w \o Repeat(Backslash, n), c), Yes, q, 0)
BY DEF SplitChar, At, Yes, No, Quote, Backslash, Space

LEMMA SplitQuoted ==
    ASSUME NEW ws, NEW w, NEW b, NEW n \in Nat, NEW c, c # Backslash, c # Quote
    PROVE  SplitChar(At(ws, w, b, Yes, n), c) =
             At(ws, Append(w \o Repeat(Backslash, n), c), Yes, Yes, 0)
BY DEF SplitChar, At, Yes, No, Quote, Backslash, Space

LEMMA SplitCharType ==
    ASSUME NEW st \in SplitState, NEW c \in Character
    PROVE  SplitChar(st, c) \in SplitState
<1> DEFINE ws == st.words  w == st.word  b == st.begun  q == st.quoted  n == st.slashes
<1>1. ws \in Seq(Text) /\ w \in Text /\ b \in BOOLEAN /\ q \in BOOLEAN /\ n \in Nat
  BY DEF SplitState
<1>2. st = At(ws, w, b, q, n)
  BY SplitStateIsAt
<1> HIDE DEF ws, w, b, q, n
<1>3. n \div 2 \in Nat /\ n + 1 \in Nat
  BY <1>1
<1>4. Repeat(Backslash, n \div 2) \in Text /\ Repeat(Backslash, n) \in Text
  BY <1>1, <1>3, RepeatType, CharacterAssumption
<1>5. w \o Repeat(Backslash, n \div 2) \in Text /\ w \o Repeat(Backslash, n) \in Text
  BY <1>1, <1>4 DEF Text
<1>6. /\ Append(w \o Repeat(Backslash, n \div 2), Quote) \in Text
      /\ Append(w \o Repeat(Backslash, n), c) \in Text
      /\ Append(ws, w \o Repeat(Backslash, n)) \in Seq(Text)
  <2>1. Quote \in Character
    BY CharacterAssumption
  <2> QED BY <1>1, <1>5, <2>1 DEF Text
<1>7. CASE c = Backslash
  BY <1>1, <1>2, <1>3, <1>7, SplitSlash, AtType, YesNo
<1>8. CASE c = Quote
  <2>1. CASE n % 2 = 1
    <3>1. SplitChar(st, c) = At(ws, Append(w \o Repeat(Backslash, n \div 2), Quote), Yes, q, 0)
      BY <1>1, <1>2, <1>8, <2>1, SplitEscapedQuote
    <3> QED BY <1>1, <1>6, <3>1, AtType, YesNo
  <2>2. CASE n % 2 # 1
    <3>1. PICK z \in BOOLEAN :
            SplitChar(st, c) = At(ws, w \o Repeat(Backslash, n \div 2), Yes, z, 0)
      <4>1. CASE q = Yes
        BY <1>1, <1>2, <1>8, <2>2, <4>1, SplitQuote, YesNo
      <4>2. CASE q = No
        BY <1>1, <1>2, <1>8, <2>2, <4>2, SplitQuote, YesNo
      <4> QED BY <1>1, <4>1, <4>2, YesNo
    <3> QED BY <1>1, <1>5, <3>1, AtType, YesNo
  <2> QED BY <2>1, <2>2
<1>9. CASE c = Space /\ q = No
  <2>1. Between(Append(ws, w \o Repeat(Backslash, n))) \in SplitState
    <3>1. <<>> \in Text
      BY DEF Text
    <3> QED BY <1>6, <3>1, AtType, YesNo DEF Between
  <2>2. At(ws, w \o Repeat(Backslash, n), No, No, 0) \in SplitState
    BY <1>1, <1>5, AtType, YesNo
  <2>3. CASE b = Yes
    BY <1>1, <1>2, <1>9, <2>1, <2>3, SplitSpace
  <2>4. CASE b = No /\ n > 0
    BY <1>1, <1>2, <1>9, <2>1, <2>4, SplitSpace2
  <2>5. CASE b = No /\ n = 0
    BY <1>1, <1>2, <1>9, <2>2, <2>5, SplitSpace3
  <2>6. (b = Yes \/ b = No) /\ (n > 0 \/ n = 0)
    BY <1>1 DEF Yes, No
  <2> QED BY <2>3, <2>4, <2>5, <2>6
<1>10. CASE c # Backslash /\ c # Quote /\ c # Space
  <2>1. SplitChar(st, c) = At(ws, Append(w \o Repeat(Backslash, n), c), Yes, q, 0)
    <3>1. n \in Nat
      BY <1>1
    <3>2. SplitChar(At(ws, w, b, q, n), c) = At(ws, Append(w \o Repeat(Backslash, n), c), Yes, q, 0)
      BY ONLY <1>10, <3>1, SplitPlain
    <3> QED BY ONLY <1>2, <3>2
  <2> QED BY <1>1, <1>6, <2>1, AtType, YesNo
<1>11. CASE c = Space /\ q = Yes
  <2>1. SplitChar(st, c) = At(ws, Append(w \o Repeat(Backslash, n), c), Yes, Yes, 0)
    <3>1. c # Backslash /\ c # Quote
      BY <1>11 DEF Space, Backslash, Quote
    <3>2. n \in Nat
      BY <1>1
    <3>3. SplitChar(At(ws, w, b, Yes, n), c) = At(ws, Append(w \o Repeat(Backslash, n), c), Yes, Yes, 0)
      BY ONLY <3>1, <3>2, SplitQuoted
    <3> QED BY ONLY <1>2, <1>11, <3>3
  <2> QED BY <1>1, <1>6, <2>1, AtType, YesNo
<1>12. q = Yes \/ q = No
  BY <1>1 DEF Yes, No
<1> QED BY <1>7, <1>8, <1>9, <1>10, <1>11, <1>12

(***************************************************************************)
(* Reading: from the state a the program's split gets to b over the text.  *)
(***************************************************************************)
Reading(f, a, text, b) ==
    /\ f \in [0 .. Len(text) -> SplitState]
    /\ f[0] = a /\ f[Len(text)] = b
    /\ \A i \in 1 .. Len(text) : f[i] = SplitChar(f[i - 1], text[i])
Reads(a, text, b) == \E f : Reading(f, a, text, b)

\* The split of a text is such a reading of it.
LEMMA SplitFold ==
    ASSUME NEW base \in SplitState, NEW line \in Text
    PROVE  \E f \in [0 .. Len(line) -> SplitState] :
              /\ f[0] = base
              /\ \A i \in 1 .. Len(line) : f[i] = SplitChar(f[i - 1], line[i])
              /\ FoldLeft(SplitChar, base, line) = f[Len(line)]
<1> DEFINE n == Len(line)
           F == [p \in SplitState \X (1 .. n) |-> SplitChar(p[1], line[p[2]])]
           Iter(g) == g = [s \in SUBSET (1 .. n) |->
                             IF s = {} THEN base ELSE SplitChar(g[s \ {Max(s)}], line[Max(s)])]
           it == CHOOSE g : Iter(g)
           f == [i \in 0 .. n |-> it[1 .. i]]
<1>0. n \in Nat
  BY DEF Text
<1>1. n \in Nat /\ (\A i \in 1 .. n : line[i] \in Character) /\ DOMAIN line = 1 .. n
  BY DEF Text
<1>2. FoldLeft(SplitChar, base, line) = it[1 .. n]
  BY <1>1 DEF FoldLeft, MapThenFoldSet
<1>3. base \in SplitState
  OBVIOUS
<1>4. \A x \in SplitState, i \in 1 .. n :
         F[<<x, i>>] = SplitChar(x, line[i]) /\ F[<<x, i>>] \in SplitState
  BY <1>1, SplitCharType
<1> HIDE DEF n, F, it, f
<1>5. PICK g : Folded(g, F, base, SplitState, n)
  BY <1>1, <1>3, <1>4, FoldSteps DEF Keeps
<1>6. Iter(g)
  <2>1. \A s \in SUBSET (1 .. n) : s # {} => g[s] = SplitChar(g[s \ {Max(s)}], line[Max(s)])
    BY <1>4, <1>5 DEF Folded
  <2> QED BY <1>5, <2>1 DEF Folded
<1>7. Iter(it)
  BY <1>6 DEF it
<1>8. it[1 .. 0] = base /\ \A i \in 1 .. n : it[1 .. i] = SplitChar(it[1 .. i - 1], line[i])
  <2>1. \A s \in SUBSET (1 .. n) :
           it[s] = IF s = {} THEN base ELSE SplitChar(it[s \ {Max(s)}], line[Max(s)])
    BY <1>7
  <2> HIDE DEF Iter
  <2>2. ASSUME NEW i \in 1 .. n PROVE it[1 .. i] = SplitChar(it[1 .. i - 1], line[i])
    <3>1. Max(1 .. i) = i /\ (1 .. i) \ {i} = 1 .. i - 1
      BY <1>1, GreatestUpTo
    <3>2. 1 .. i \in SUBSET (1 .. n) /\ 1 .. i # {}
      BY <1>0
    <3> QED BY <2>1, <3>1, <3>2
  <2>3. {} \in SUBSET (1 .. n) /\ 1 .. 0 = {}
    OBVIOUS
  <2> QED BY <2>1, <2>2, <2>3
<1>9. f[0] = base /\ \A i \in 1 .. n : f[i] = SplitChar(f[i - 1], line[i])
  BY <1>1, <1>8 DEF f
<1>10. f \in [0 .. n -> SplitState]
  <2> DEFINE G == {i \in 0 .. n : f[i] \in SplitState}
  <2>1. 0 \in G
    BY <1>1, <1>3, <1>9
  <2>2. \A i \in 1 .. n : i - 1 \in G => i \in G
    BY <1>1, <1>9, SplitCharType
  <2>3. \A i \in 0 .. n : i \in G
    BY <1>1, <2>1, <2>2, Upward
  <2> QED BY <2>3 DEF f
<1>11. FoldLeft(SplitChar, base, line) = f[n]
  BY <1>1, <1>2 DEF f
<1> QED BY <1>9, <1>10, <1>11 DEF n

LEMMA SplitReads ==
    ASSUME NEW a \in SplitState, NEW text \in Text
    PROVE  Reads(a, text, FoldLeft(SplitChar, a, text))
<1>1. PICK f \in [0 .. Len(text) -> SplitState] :
              /\ f[0] = a
              /\ \A i \in 1 .. Len(text) : f[i] = SplitChar(f[i - 1], text[i])
              /\ FoldLeft(SplitChar, a, text) = f[Len(text)]
  BY SplitFold
<1> QED BY <1>1 DEF Reads, Reading

LEMMA ReadsOnce ==
    ASSUME NEW a, NEW b, NEW c, NEW text \in Text, Reads(a, text, b), Reads(a, text, c)
    PROVE  b = c
<1>1. PICK f : Reading(f, a, text, b)
  BY DEF Reads
<1>2. PICK g : Reading(g, a, text, c)
  BY DEF Reads
<1> DEFINE n == Len(text)
           G == {i \in 0 .. n : f[i] = g[i]}
<1>3. n \in Nat
  BY DEF Text
<1>4. 0 \in G
  BY <1>1, <1>2, <1>3 DEF Reading
<1>5. \A i \in 1 .. n : i - 1 \in G => i \in G
  BY <1>1, <1>2, <1>3 DEF Reading
<1>6. \A i \in 0 .. n : i \in G
  <2> HIDE DEF G
  <2> QED BY <1>3, <1>4, <1>5, Upward
<1>7. f[n] = g[n]
  BY <1>3, <1>6
<1> QED BY <1>1, <1>2, <1>7 DEF Reading

LEMMA ReadsOne ==
    ASSUME NEW a \in SplitState, NEW c \in Character
    PROVE  Reads(a, <<c>>, SplitChar(a, c))
<1> DEFINE f == [i \in 0 .. 1 |-> IF i = 0 THEN a ELSE SplitChar(a, c)]
<1>1. SplitChar(a, c) \in SplitState
  BY SplitCharType
<1>2. Reading(f, a, <<c>>, SplitChar(a, c))
  BY <1>1 DEF Reading
<1> QED BY <1>2 DEF Reads

LEMMA ReadsThen ==
    ASSUME NEW a, NEW b, NEW c, NEW s \in Text, NEW t \in Text, Reads(a, s, b), Reads(b, t, c)
    PROVE  Reads(a, s \o t, c)
<1>1. PICK f : Reading(f, a, s, b)
  BY DEF Reads
<1>2. PICK g : Reading(g, b, t, c)
  BY DEF Reads
<1> DEFINE m == Len(s)
           n == Len(t)
           h == [i \in 0 .. m + n |-> IF i <= m THEN f[i] ELSE g[i - m]]
<1>3. m \in Nat /\ n \in Nat /\ Len(s \o t) = m + n
  BY DEF Text
<1>4. /\ f \in [0 .. m -> SplitState] /\ f[0] = a /\ f[m] = b
      /\ \A i \in 1 .. m : f[i] = SplitChar(f[i - 1], s[i])
      /\ g \in [0 .. n -> SplitState] /\ g[0] = b /\ g[n] = c
      /\ \A i \in 1 .. n : g[i] = SplitChar(g[i - 1], t[i])
  BY <1>1, <1>2 DEF Reading
<1>5. (\A i \in 1 .. m : (s \o t)[i] = s[i]) /\ \A i \in m + 1 .. m + n : (s \o t)[i] = t[i - m]
  BY DEF Text
<1> HIDE DEF m, n
<1>6. h \in [0 .. m + n -> SplitState] /\ h[0] = a
  BY <1>3, <1>4
<1>7. h[m + n] = c
  BY <1>3, <1>4
<1>8. ASSUME NEW i \in 1 .. m + n PROVE h[i] = SplitChar(h[i - 1], (s \o t)[i])
  <2>1. CASE i <= m
    BY <1>3, <1>4, <1>5, <2>1
  <2>2. CASE i = m + 1
    <3>1. h[i] = g[1] /\ h[i - 1] = g[0] /\ 1 \in 1 .. n
      BY <1>3, <1>4, <2>2
    <3>2. (s \o t)[i] = t[1]
      BY <1>3, <1>5, <2>2
    <3> QED BY <1>4, <3>1, <3>2
  <2>3. CASE i > m + 1
    <3>1. h[i] = g[i - m] /\ h[i - 1] = g[i - m - 1] /\ i - m \in 1 .. n
      BY <1>3, <1>4, <2>3
    <3>2. (s \o t)[i] = t[i - m]
      BY <1>3, <1>5, <2>3
    <3> QED BY <1>4, <3>1, <3>2
  <2> QED BY <1>3, <2>1, <2>2, <2>3
<1> HIDE DEF h
<1>9. Reading(h, a, s \o t, c)
  BY <1>3, <1>6, <1>7, <1>8 DEF Reading
<1> QED BY <1>9 DEF Reads

LEMMA ReadsSlashes ==
    ASSUME NEW ws \in Seq(Text), NEW w \in Text, NEW b \in BOOLEAN, NEW q \in BOOLEAN, NEW n \in Nat
    PROVE  Reads(At(ws, w, b, q, 0), Repeat(Backslash, n), At(ws, w, b, q, n))
<1> DEFINE f == [i \in 0 .. n |-> At(ws, w, b, q, i)]
           text == Repeat(Backslash, n)
<1>1. Len(text) = n /\ \A i \in 1 .. n : text[i] = Backslash
  BY DEF Repeat
<1>2. f \in [0 .. n -> SplitState]
  BY AtType
<1>3. ASSUME NEW i \in 1 .. n PROVE f[i] = SplitChar(f[i - 1], Backslash)
  <2>1. i - 1 \in 0 .. n /\ (i - 1) + 1 = i
    OBVIOUS
  <2>2. f[i - 1] = At(ws, w, b, q, i - 1)
    BY <2>1
  <2> QED BY <2>1, <2>2, SplitSlash
<1>4. f[0] = At(ws, w, b, q, 0) /\ f[n] = At(ws, w, b, q, n)
  OBVIOUS
<1> HIDE DEF f, text
<1>5. Reading(f, At(ws, w, b, q, 0), text, At(ws, w, b, q, n))
  BY <1>1, <1>2, <1>3, <1>4 DEF Reading
<1> QED BY <1>5 DEF Reads, text

-----------------------------------------------------------------------------
\* The first i characters.
Prefix(s, i) == [k \in 1 .. i |-> s[k]]

LEMMA PrefixEnds ==
    ASSUME NEW s \in Text
    PROVE  Prefix(s, 0) = <<>> /\ Prefix(s, Len(s)) = s
<1>1. s = [k \in 1 .. Len(s) |-> s[k]]
  BY DEF Text
<1>2. Prefix(s, 0) = <<>>
  BY DEF Prefix
<1>3. Prefix(s, Len(s)) = s
  BY <1>1 DEF Prefix
<1> QED BY <1>2, <1>3

LEMMA PrefixNext ==
    ASSUME NEW s \in Text, NEW i \in 1 .. Len(s)
    PROVE  Prefix(s, i - 1) \in Text /\ Prefix(s, i) = Append(Prefix(s, i - 1), s[i])
<1>1. Len(s) \in Nat /\ \A k \in 1 .. Len(s) : s[k] \in Character
  BY DEF Text
<1>2. i \in Nat \ {0} /\ i - 1 \in Nat /\ \A k \in 1 .. i : k \in 1 .. Len(s)
  BY <1>1
<1>3. Prefix(s, i - 1) \in Seq(Character) /\ Len(Prefix(s, i - 1)) = i - 1
  BY <1>1, <1>2 DEF Prefix
<1>4. Append(Prefix(s, i - 1), s[i]) = [k \in 1 .. i |-> s[k]]
  BY <1>1, <1>2, <1>3 DEF Prefix
<1> QED BY <1>3, <1>4 DEF Prefix, Text

LEMMA Repeats ==
    ASSUME NEW c \in Character
    PROVE  /\ Repeat(c, 0) = <<>>
           /\ \A n \in Nat : Repeat(c, n + 1) = Append(Repeat(c, n), c)
<1>1. Repeat(c, 0) = <<>>
  BY DEF Repeat
<1>2. ASSUME NEW n \in Nat PROVE Repeat(c, n + 1) = Append(Repeat(c, n), c)
  <2>1. Repeat(c, n) \in Seq(Character) /\ Len(Repeat(c, n)) = n
    BY DEF Repeat
  <2>2. Append(Repeat(c, n), c) = [k \in 1 .. n + 1 |-> c]
    BY <2>1 DEF Repeat
  <2> QED BY <2>2 DEF Repeat
<1> QED BY <1>1, <1>2

LEMMA Joined ==
    ASSUME NEW s \in Text, NEW t \in Text, NEW c \in Character
    PROVE  /\ s \o t \in Text /\ Append(s, c) \in Text /\ <<c>> \in Text
           /\ s \o <<>> = s
           /\ s \o <<c>> = Append(s, c)
           /\ s \o Append(t, c) = Append(s \o t, c)
<1>1. s \o t \in Text /\ Append(s, c) \in Text /\ <<c>> \in Text /\ s \o <<>> = s
  BY DEF Text
<1>2. s \o <<c>> = Append(s, c)
  BY DEF Text
<1>3. s \o Append(t, c) = Append(s \o t, c)
  <2>1. Len(s \o Append(t, c)) = Len(s) + Len(t) + 1 /\ Len(Append(s \o t, c)) = Len(s) + Len(t) + 1
    BY DEF Text
  <2>2. \A i \in 1 .. Len(s) + Len(t) + 1 : (s \o Append(t, c))[i] = Append(s \o t, c)[i]
    BY DEF Text
  <2>3. s \o Append(t, c) \in Seq(Character) /\ Append(s \o t, c) \in Seq(Character)
    BY DEF Text
  <2> QED BY <2>1, <2>2, <2>3, SeqEqual
<1> QED BY <1>1, <1>2, <1>3

-----------------------------------------------------------------------------
(***************************************************************************)
(* A quoted argument.  While it is written, the split of what is out so    *)
(* far is inside the quotes, with the argument so far but for the          *)
(* backslashes not yet written.                                            *)
(***************************************************************************)
Inside(ws, w) == At(ws, w, Yes, Yes, 0)

LEMMA InsideStep ==
    ASSUME NEW ws \in Seq(Text), NEW w \in Text, NEW a, NEW st \in EscapeState, NEW c \in Character,
           Reads(a, st.out, Inside(ws, w))
    PROVE  \E v \in Text :
             /\ Reads(a, EscapeChar(st, c).out, Inside(ws, v))
             /\ v \o Repeat(Backslash, EscapeChar(st, c).slashes) =
                   Append(w \o Repeat(Backslash, st.slashes), c)
<1> DEFINE n == st.slashes
<1>1. st.out \in Text /\ n \in Nat
  BY DEF EscapeState
<1>2. Repeat(Backslash, n) \in Text /\ w \o Repeat(Backslash, n) \in Text
  BY <1>1, RepeatType, CharacterAssumption, Joined
<1>3. CASE c = Backslash
  <2>1. EscapeChar(st, c).out = st.out /\ EscapeChar(st, c).slashes = n + 1
    BY <1>3 DEF EscapeChar, EscapeState
  <2>2. w \o Repeat(Backslash, n + 1) = Append(w \o Repeat(Backslash, n), c)
    <3>1. Backslash \in Character
      BY CharacterAssumption
    <3>2. Repeat(Backslash, n + 1) = Append(Repeat(Backslash, n), Backslash)
      BY <1>1, <3>1, Repeats
    <3>3. w \o Append(Repeat(Backslash, n), Backslash) = Append(w \o Repeat(Backslash, n), Backslash)
      BY <1>2, <3>1, Joined
    <3> QED BY <1>3, <3>2, <3>3
  <2> QED BY <2>1, <2>2
<1>4. ASSUME NEW m \in Nat, NEW v \in Text,
             EscapeChar(st, c) = [out |-> st.out \o Repeat(Backslash, m) \o <<c>>, slashes |-> 0],
             SplitChar(At(ws, w, Yes, Yes, m), c) = Inside(ws, v),
             v = Append(w \o Repeat(Backslash, n), c)
      PROVE  /\ Reads(a, EscapeChar(st, c).out, Inside(ws, v))
             /\ v \o Repeat(Backslash, EscapeChar(st, c).slashes) =
                   Append(w \o Repeat(Backslash, n), c)
  <2>1. Repeat(Backslash, m) \in Text /\ st.out \o Repeat(Backslash, m) \in Text /\ <<c>> \in Text
    BY <1>1, RepeatType, CharacterAssumption, Joined
  <2>2. Reads(Inside(ws, w), Repeat(Backslash, m), At(ws, w, Yes, Yes, m))
    BY YesNo, ReadsSlashes DEF Inside
  <2>3. Reads(a, st.out \o Repeat(Backslash, m), At(ws, w, Yes, Yes, m))
    BY <1>1, <2>1, <2>2, ReadsThen
  <2>4. At(ws, w, Yes, Yes, m) \in SplitState
    BY YesNo, AtType
  <2>5. Reads(At(ws, w, Yes, Yes, m), <<c>>, Inside(ws, v))
    BY <1>4, <2>4, ReadsOne
  <2>6. Reads(a, st.out \o Repeat(Backslash, m) \o <<c>>, Inside(ws, v))
    BY <2>1, <2>3, <2>5, ReadsThen
  <2>7. EscapeChar(st, c).out = st.out \o Repeat(Backslash, m) \o <<c>> /\ EscapeChar(st, c).slashes = 0
    BY <1>4
  <2>8. v \o Repeat(Backslash, 0) = v
    BY Repeats, Joined, CharacterAssumption
  <2> QED BY <1>4, <2>6, <2>7, <2>8
<1> DEFINE v == Append(w \o Repeat(Backslash, n), c)
<1>5. v \in Text
  BY <1>2, Joined
<1>6. CASE c = Quote
  <2> DEFINE m == 2 * n + 1
  <2>1. m \in Nat /\ m % 2 = 1 /\ m \div 2 = n
    BY <1>1
  <2>2. EscapeChar(st, c) = [out |-> st.out \o Repeat(Backslash, m) \o <<c>>, slashes |-> 0]
    BY <1>6 DEF EscapeChar, Quote, Backslash
  <2> HIDE DEF m, n
  <2>3. SplitChar(At(ws, w, Yes, Yes, m), c) = Inside(ws, v)
    BY <1>6, <2>1, SplitEscapedQuote DEF Inside
  <2> HIDE DEF v
  <2>4. v = Append(w \o Repeat(Backslash, n), c)
    BY DEF v
  <2> QED BY <1>4, <1>5, <2>1, <2>2, <2>3, <2>4 DEF n
<1>7. CASE c # Quote /\ c # Backslash
  <2>1. EscapeChar(st, c) = [out |-> st.out \o Repeat(Backslash, n) \o <<c>>, slashes |-> 0]
    BY <1>7 DEF EscapeChar
  <2> HIDE DEF n
  <2>2. SplitChar(At(ws, w, Yes, Yes, n), c) = Inside(ws, v)
    BY <1>1, <1>7, SplitQuoted DEF Inside
  <2> HIDE DEF v
  <2>3. v = Append(w \o Repeat(Backslash, n), c)
    BY DEF v
  <2> QED BY <1>1, <1>4, <1>5, <2>1, <2>2, <2>3 DEF n
<1> QED BY <1>3, <1>6, <1>7

LEMMA QuotedReads ==
    ASSUME NEW ws \in Seq(Text), NEW arg \in Text, ToSet(arg) \cap {Space, Quote} # {}
    PROVE  /\ EscapeArg(arg) \in Text
           /\ Reads(Between(ws), EscapeArg(arg) \o <<Space>>, Between(Append(ws, arg)))
<1> DEFINE n == Len(arg)
           a == Between(ws)
<1>0. Quote \in Character /\ Backslash \in Character /\ Space \in Character
  BY CharacterAssumption
<1>1. PICK f \in [0 .. Len(arg) -> EscapeState] :
              /\ f[0] = Opened
              /\ \A i \in 1 .. Len(arg) : f[i] = EscapeChar(f[i - 1], arg[i])
              /\ FoldLeft(EscapeChar, Opened, arg) = f[Len(arg)]
  BY EscapeFold
<1> DEFINE So(i) == \E w \in Text : /\ Reads(a, f[i].out, Inside(ws, w))
                                    /\ w \o Repeat(Backslash, f[i].slashes) = Prefix(arg, i)
           G == {i \in 0 .. n : So(i)}
<1>2. n \in Nat /\ \A i \in 1 .. n : arg[i] \in Character
  BY DEF Text
<1>3. a \in SplitState /\ <<>> \in Text
  <2>1. <<>> \in Text
    BY DEF Text
  <2> QED BY <2>1, YesNo, AtType DEF Between
<1>4. So(0)
  <2>1. f[0].out = <<Quote>> /\ f[0].slashes = 0
    BY <1>1 DEF Opened
  <2>2. Reads(a, <<Quote>>, SplitChar(a, Quote))
    BY <1>0, <1>3, ReadsOne
  <2>3. SplitChar(a, Quote) = At(ws, <<>> \o Repeat(Backslash, 0), Yes, Yes, 0)
    <3>1. 0 % 2 # 1 /\ 0 \div 2 = 0 /\ 0 \in Nat
      OBVIOUS
    <3>2. SplitChar(At(ws, <<>>, No, No, 0), Quote) = At(ws, <<>> \o Repeat(Backslash, 0 \div 2), Yes, Yes, 0)
      BY ONLY <3>1, SplitQuote
    <3> QED BY <3>1, <3>2 DEF Between
  <2>4. <<>> \o Repeat(Backslash, 0) = <<>>
    BY <1>0, <1>3, Repeats, Joined
  <2>5. Prefix(arg, 0) = <<>>
    BY PrefixEnds
  <2>6. Reads(a, f[0].out, Inside(ws, <<>>))
    BY <2>1, <2>2, <2>3, <2>4 DEF Inside
  <2>7. <<>> \o Repeat(Backslash, f[0].slashes) = Prefix(arg, 0)
    BY <2>1, <2>4, <2>5
  <2> QED BY <1>3, <2>6, <2>7
<1>5. ASSUME NEW i \in 1 .. n, So(i - 1) PROVE So(i)
  <2>1. PICK w \in Text : /\ Reads(a, f[i - 1].out, Inside(ws, w))
                          /\ w \o Repeat(Backslash, f[i - 1].slashes) = Prefix(arg, i - 1)
    BY <1>5
  <2>2. f[i - 1] \in EscapeState /\ arg[i] \in Character /\ f[i] = EscapeChar(f[i - 1], arg[i])
    BY <1>1, <1>2, SMTT(30)
  <2>3. PICK v \in Text : /\ Reads(a, f[i].out, Inside(ws, v))
                          /\ v \o Repeat(Backslash, f[i].slashes) =
                                Append(w \o Repeat(Backslash, f[i - 1].slashes), arg[i])
    BY <2>1, <2>2, InsideStep, SMTT(30)
  <2>4. Prefix(arg, i) = Append(Prefix(arg, i - 1), arg[i])
    BY PrefixNext
  <2> QED BY <2>1, <2>3, <2>4
<1>6. So(n)
  <2> HIDE DEF So
  <2>1. 0 \in G
    BY <1>2, <1>4
  <2>2. \A i \in 1 .. n : i - 1 \in G => i \in G
    BY <1>2, <1>5
  <2>3. \A i \in 0 .. n : i \in G
    <3> HIDE DEF G
    <3> QED BY <1>2, <2>1, <2>2, Upward
  <2> QED BY <1>2, <2>3
<1> DEFINE st == f[n]
           m == st.slashes
<1>7. PICK w \in Text : Reads(a, st.out, Inside(ws, w)) /\ w \o Repeat(Backslash, m) = arg
  BY <1>6, PrefixEnds
<1>8. st \in EscapeState /\ st.out \in Text /\ m \in Nat
  BY <1>1, <1>2 DEF EscapeState
<1>9. EscapeArg(arg) = st.out \o Repeat(Backslash, 2 * m) \o <<Quote>>
  <2>1. EscapeArg(arg) = LET e == FoldLeft(EscapeChar, [out |-> <<Quote>>, slashes |-> 0], arg)
                         IN  e.out \o Repeat(Backslash, 2 * e.slashes) \o <<Quote>>
    BY DEF EscapeArg
  <2> QED BY <1>1, <2>1 DEF Opened
<1> HIDE DEF st, m, a, G, n
<1>10. 2 * m \in Nat /\ (2 * m) % 2 # 1 /\ (2 * m) \div 2 = m
  BY <1>8
<1>11. /\ Repeat(Backslash, 2 * m) \in Text /\ st.out \o Repeat(Backslash, 2 * m) \in Text
       /\ <<Quote>> \in Text /\ <<Space>> \in Text
       /\ st.out \o Repeat(Backslash, 2 * m) \o <<Quote>> \in Text
  <2>1. Repeat(Backslash, 2 * m) \in Text
    BY <1>0, <1>10, RepeatType
  <2>2. <<Quote>> \in Text /\ <<Space>> \in Text
    BY <1>0, <1>8, Joined
  <2>3. st.out \o Repeat(Backslash, 2 * m) \in Text
    BY <1>0, <1>8, <2>1, Joined
  <2> QED BY <1>0, <2>1, <2>2, <2>3, Joined
<1>12. Reads(a, st.out \o Repeat(Backslash, 2 * m), At(ws, w, Yes, Yes, 2 * m))
  <2>1. Reads(Inside(ws, w), Repeat(Backslash, 2 * m), At(ws, w, Yes, Yes, 2 * m))
    BY <1>10, YesNo, ReadsSlashes DEF Inside
  <2> QED BY <1>7, <1>8, <1>11, <2>1, ReadsThen
<1>13. Reads(a, st.out \o Repeat(Backslash, 2 * m) \o <<Quote>>, At(ws, arg, Yes, No, 0))
  <2>1. At(ws, w, Yes, Yes, 2 * m) \in SplitState
    BY <1>10, YesNo, AtType
  <2>2. Reads(At(ws, w, Yes, Yes, 2 * m), <<Quote>>, SplitChar(At(ws, w, Yes, Yes, 2 * m), Quote))
    BY <1>0, <2>1, ReadsOne
  <2>3. SplitChar(At(ws, w, Yes, Yes, 2 * m), Quote) = At(ws, w \o Repeat(Backslash, (2 * m) \div 2), Yes, No, 0)
    BY <1>10, SplitQuote
  <2>4. SplitChar(At(ws, w, Yes, Yes, 2 * m), Quote) = At(ws, arg, Yes, No, 0)
    BY <1>7, <1>10, <2>3
  <2>5. Reads(At(ws, w, Yes, Yes, 2 * m), <<Quote>>, At(ws, arg, Yes, No, 0))
    BY <2>2, <2>4
  <2> QED BY <1>11, <1>12, <2>5, ReadsThen
<1>14. Reads(At(ws, arg, Yes, No, 0), <<Space>>, Between(Append(ws, arg)))
  <2>1. At(ws, arg, Yes, No, 0) \in SplitState
    BY YesNo, AtType
  <2>2. SplitChar(At(ws, arg, Yes, No, 0), Space) = Between(Append(ws, arg \o Repeat(Backslash, 0)))
    BY SplitSpace
  <2>3. arg \o Repeat(Backslash, 0) = arg
    BY <1>0, Repeats, Joined
  <2> QED BY <1>0, <2>1, <2>2, <2>3, ReadsOne
<1>15. Reads(a, EscapeArg(arg) \o <<Space>>, Between(Append(ws, arg)))
  BY <1>9, <1>11, <1>13, <1>14, ReadsThen
<1> QED BY <1>9, <1>11, <1>15 DEF a

(***************************************************************************)
(* An argument without spaces and quotes is written as it is.              *)
(***************************************************************************)
LEMMA BareReads ==
    ASSUME NEW ws \in Seq(Text), NEW arg \in Text, ToSet(arg) \cap {Space, Quote} = {}
    PROVE  /\ EscapeArg(arg) \in Text
           /\ Reads(Between(ws), EscapeArg(arg) \o <<Space>>,
                    Between(IF arg = <<>> THEN ws ELSE Append(ws, arg)))
<1> DEFINE n == Len(arg)
           a == Between(ws)
           end == SplitChar(FoldLeft(SplitChar, a, arg), Space)
<1>0. Quote \in Character /\ Backslash \in Character /\ Space \in Character
  BY CharacterAssumption
<1>1. n \in Nat /\ \A i \in 1 .. n : arg[i] \in Character /\ arg[i] # Space /\ arg[i] # Quote
  <2>1. \A i \in 1 .. n : arg[i] \in ToSet(arg)
    BY DEF ToSet, Text
  <2> QED BY <2>1 DEF Text
<1>2. a \in SplitState /\ <<>> \in Text /\ EscapeArg(arg) = arg
  <2>1. <<>> \in Text
    BY DEF Text
  <2> QED BY <2>1, YesNo, AtType DEF Between, EscapeArg
<1>3. PICK f \in [0 .. Len(arg) -> SplitState] :
              /\ f[0] = a
              /\ \A i \in 1 .. Len(arg) : f[i] = SplitChar(f[i - 1], arg[i])
              /\ FoldLeft(SplitChar, a, arg) = f[Len(arg)]
  BY <1>2, SplitFold
<1> DEFINE So(i) == \E w \in Text, m \in Nat :
              /\ w \o Repeat(Backslash, m) = Prefix(arg, i)
              /\ f[i] = At(ws, w, Yes, No, m) \/ (w = <<>> /\ f[i] = At(ws, w, No, No, m))
           G == {i \in 0 .. n : So(i)}
<1>4. So(0)
  <2>1. <<>> \o Repeat(Backslash, 0) = <<>> /\ Prefix(arg, 0) = <<>>
    BY <1>0, <1>2, Repeats, Joined, PrefixEnds
  <2>2. f[0] = At(ws, <<>>, No, No, 0)
    BY <1>3 DEF Between
  <2> QED BY <1>2, <2>1, <2>2
<1>5. ASSUME NEW i \in 1 .. n, So(i - 1) PROVE So(i)
  <2>1. PICK w \in Text, m \in Nat :
              /\ w \o Repeat(Backslash, m) = Prefix(arg, i - 1)
              /\ f[i - 1] = At(ws, w, Yes, No, m) \/ (w = <<>> /\ f[i - 1] = At(ws, w, No, No, m))
    BY <1>5
  <2> DEFINE c == arg[i]
  <2>2. c \in Character /\ c # Space /\ c # Quote /\ f[i] = SplitChar(f[i - 1], c)
    BY <1>1, <1>3
  <2>3. Prefix(arg, i) = Append(w \o Repeat(Backslash, m), c)
    BY <2>1, PrefixNext
  <2>4. Repeat(Backslash, m) \in Text /\ w \o Repeat(Backslash, m) \in Text
    BY <1>0, RepeatType, Joined
  <2> HIDE DEF c
  <2>5. CASE c = Backslash
    <3>1. w \o Repeat(Backslash, m + 1) = Prefix(arg, i)
      <4>1. Repeat(Backslash, m + 1) = Append(Repeat(Backslash, m), Backslash)
        BY <1>0, Repeats
      <4>2. w \o Append(Repeat(Backslash, m), Backslash) = Append(w \o Repeat(Backslash, m), Backslash)
        BY <1>0, <2>4, Joined
      <4> QED BY <2>3, <2>5, <4>1, <4>2
    <3>2. f[i] = At(ws, w, Yes, No, m + 1) \/ (w = <<>> /\ f[i] = At(ws, w, No, No, m + 1))
      BY <2>1, <2>2, <2>5, SplitSlash
    <3>3. m + 1 \in Nat
      OBVIOUS
    <3> QED BY <3>1, <3>2, <3>3
  <2>6. CASE c # Backslash
    <3> DEFINE v == Append(w \o Repeat(Backslash, m), c)
    <3>1. f[i] = At(ws, v, Yes, No, 0)
      <4>1. CASE f[i - 1] = At(ws, w, Yes, No, m)
        BY <2>2, <2>6, <4>1, SplitPlain
      <4>2. CASE f[i - 1] = At(ws, w, No, No, m)
        BY <2>2, <2>6, <4>2, SplitPlain
      <4> QED BY <2>1, <4>1, <4>2
    <3>2. v \in Text /\ v \o Repeat(Backslash, 0) = v
      BY <1>0, <2>2, <2>4, Repeats, Joined
    <3> QED BY <2>3, <3>1, <3>2
  <2> QED BY <2>5, <2>6
<1>6. So(n)
  <2> HIDE DEF So
  <2>1. 0 \in G
    BY <1>1, <1>4
  <2>2. \A i \in 1 .. n : i - 1 \in G => i \in G
    BY <1>1, <1>5
  <2>3. \A i \in 0 .. n : i \in G
    <3> HIDE DEF G
    <3> QED BY <1>1, <2>1, <2>2, Upward
  <2> QED BY <1>1, <2>3
<1>7. PICK w \in Text, m \in Nat :
              /\ w \o Repeat(Backslash, m) = arg
              /\ f[n] = At(ws, w, Yes, No, m) \/ (w = <<>> /\ f[n] = At(ws, w, No, No, m))
  BY <1>6, PrefixEnds
<1>8. ASSUME arg # <<>> PROVE SplitChar(f[n], Space) = Between(Append(ws, arg))
  <2>1. f[n] = At(ws, w, Yes, No, m) \/ (f[n] = At(ws, w, No, No, m) /\ m > 0)
    <3>1. m = 0 => w \o Repeat(Backslash, m) = w
      BY <1>0, Repeats, Joined, ZenonT(40)
    <3> QED BY <1>7, <1>8, <3>1
  <2>2. SplitChar(f[n], Space) = Between(Append(ws, w \o Repeat(Backslash, m)))
    BY <2>1, SplitSpace, SplitSpace2
  <2> QED BY <1>7, <2>2
<1>9. ASSUME arg = <<>> PROVE SplitChar(f[n], Space) = Between(ws)
  <2>1. n = 0 /\ f[n] = a
    BY <1>3, <1>9
  <2>2. SplitChar(At(ws, <<>>, No, No, 0), Space) = At(ws, <<>> \o Repeat(Backslash, 0), No, No, 0)
    BY <1>2, SplitSpace3
  <2>3. <<>> \o Repeat(Backslash, 0) = <<>>
    BY <1>0, <1>2, Repeats, Joined
  <2> QED BY <2>1, <2>2, <2>3 DEF Between
<1>10. SplitChar(f[n], Space) = Between(IF arg = <<>> THEN ws ELSE Append(ws, arg))
  BY <1>8, <1>9
<1>11. Reads(a, arg, f[n]) /\ f[n] \in SplitState
  <2>1. Reads(a, arg, FoldLeft(SplitChar, a, arg))
    BY <1>2, SplitReads
  <2> QED BY <1>1, <1>3, <2>1
<1>12. Reads(f[n], <<Space>>, SplitChar(f[n], Space)) /\ <<Space>> \in Text
  BY <1>0, <1>11, ReadsOne, Joined
<1>13. Reads(a, arg \o <<Space>>, SplitChar(f[n], Space))
  BY <1>11, <1>12, ReadsThen
<1> QED BY <1>2, <1>10, <1>13

\* Any argument: the split is between arguments again after the space behind it.
Texts == Seq(Text)
Longer(line, arg) == line \o <<Space>> \o EscapeArg(arg)

LEMMA ArgumentReads ==
    ASSUME NEW ws \in Seq(Text), NEW arg \in Text
    PROVE  /\ EscapeArg(arg) \in Text /\ Given(ws, arg) \in Seq(Text)
           /\ Reads(Between(ws), EscapeArg(arg) \o <<Space>>, Between(Given(ws, arg)))
<1>1. Given(ws, arg) \in Seq(Text)
  BY DEF Given
<1>2. CASE ToSet(arg) \cap {Space, Quote} = {}
  BY <1>1, <1>2, BareReads DEF Given
<1>3. CASE ToSet(arg) \cap {Space, Quote} # {}
  <2>1. arg # <<>>
    BY <1>3 DEF ToSet
  <2> QED BY <1>1, <1>3, <2>1, QuotedReads DEF Given
<1> QED BY <1>2, <1>3

LEMMA EscapeArgType ==
    ASSUME NEW arg \in Text
    PROVE  EscapeArg(arg) \in Text
<1>1. <<>> \in Seq(Text)
  OBVIOUS
<1> QED BY <1>1, ArgumentReads

LEMMA GivenType ==
    ASSUME NEW ws \in Texts, NEW arg \in Text
    PROVE  Given(ws, arg) \in Texts
BY ArgumentReads DEF Texts

LEMMA LineType ==
    ASSUME NEW line \in Text, NEW arg \in Text
    PROVE  Longer(line, arg) \in Text
<1>1. <<Space>> \in Text
  BY CharacterAssumption, Joined
<1>2. EscapeArg(arg) \in Text
  BY EscapeArgType
<1> QED BY <1>1, <1>2, Joined, CharacterAssumption DEF Longer

\* The command line, and what is given, argument by argument.
LEMMA LineFold ==
    ASSUME NEW exe \in Text, NEW args \in Texts
    PROVE  \E f \in [0 .. Len(args) -> Text] :
              /\ f[0] = EscapeArg(exe)
              /\ \A i \in 1 .. Len(args) : f[i] = Longer(f[i - 1], args[i])
              /\ BuildCommandLine(exe, args) = f[Len(args)]
<1> DEFINE n == Len(args)
           F == [p \in Text \X (1 .. n) |-> Longer(p[1], args[p[2]])]
           Iter(g) == g = [s \in SUBSET (1 .. n) |->
                             IF s = {} THEN EscapeArg(exe) ELSE Longer(g[s \ {Max(s)}], args[Max(s)])]
           it == CHOOSE g : Iter(g)
           f == [i \in 0 .. n |-> it[1 .. i]]
<1>0. n \in Nat
  BY DEF Texts
<1>1. n \in Nat /\ (\A i \in 1 .. n : args[i] \in Text) /\ DOMAIN args = 1 .. n
  BY DEF Texts
<1>2. BuildCommandLine(exe, args) = it[1 .. n]
  BY <1>1 DEF FoldLeft, MapThenFoldSet, BuildCommandLine, Longer
<1>3. EscapeArg(exe) \in Text
  BY EscapeArgType
<1>4. \A x \in Text, i \in 1 .. n :
         F[<<x, i>>] = Longer(x, args[i]) /\ F[<<x, i>>] \in Text
  BY <1>1, LineType
<1> HIDE DEF n, F, it, f
<1>5. PICK g : Folded(g, F, EscapeArg(exe), Text, n)
  BY <1>1, <1>3, <1>4, FoldSteps DEF Keeps
<1>6. Iter(g)
  <2>1. \A s \in SUBSET (1 .. n) : s # {} => g[s] = Longer(g[s \ {Max(s)}], args[Max(s)])
    BY <1>4, <1>5 DEF Folded
  <2> QED BY <1>5, <2>1 DEF Folded
<1>7. Iter(it)
  BY <1>6 DEF it
<1>8. it[1 .. 0] = EscapeArg(exe) /\ \A i \in 1 .. n : it[1 .. i] = Longer(it[1 .. i - 1], args[i])
  <2>1. \A s \in SUBSET (1 .. n) :
           it[s] = IF s = {} THEN EscapeArg(exe) ELSE Longer(it[s \ {Max(s)}], args[Max(s)])
    BY <1>7
  <2> HIDE DEF Iter
  <2>2. ASSUME NEW i \in 1 .. n PROVE it[1 .. i] = Longer(it[1 .. i - 1], args[i])
    <3>1. Max(1 .. i) = i /\ (1 .. i) \ {i} = 1 .. i - 1
      BY <1>1, GreatestUpTo
    <3>2. 1 .. i \in SUBSET (1 .. n) /\ 1 .. i # {}
      BY <1>0
    <3> QED BY <2>1, <3>1, <3>2
  <2>3. {} \in SUBSET (1 .. n) /\ 1 .. 0 = {}
    OBVIOUS
  <2> QED BY <2>1, <2>2, <2>3
<1>9. f[0] = EscapeArg(exe) /\ \A i \in 1 .. n : f[i] = Longer(f[i - 1], args[i])
  BY <1>1, <1>8 DEF f
<1>10. f \in [0 .. n -> Text]
  <2> DEFINE G == {i \in 0 .. n : f[i] \in Text}
  <2>1. 0 \in G
    BY <1>1, <1>3, <1>9
  <2>2. \A i \in 1 .. n : i - 1 \in G => i \in G
    BY <1>1, <1>9, LineType
  <2>3. \A i \in 0 .. n : i \in G
    BY <1>1, <2>1, <2>2, Upward
  <2> QED BY <2>3 DEF f
<1>11. BuildCommandLine(exe, args) = f[n]
  BY <1>1, <1>2 DEF f
<1> QED BY <1>9, <1>10, <1>11 DEF n

LEMMA GivenFold ==
    ASSUME NEW seq \in Texts
    PROVE  \E f \in [0 .. Len(seq) -> Texts] :
              /\ f[0] = <<>>
              /\ \A i \in 1 .. Len(seq) : f[i] = Given(f[i - 1], seq[i])
              /\ FoldLeft(Given, <<>>, seq) = f[Len(seq)]
<1> DEFINE n == Len(seq)
           F == [p \in Texts \X (1 .. n) |-> Given(p[1], seq[p[2]])]
           Iter(g) == g = [s \in SUBSET (1 .. n) |->
                             IF s = {} THEN <<>> ELSE Given(g[s \ {Max(s)}], seq[Max(s)])]
           it == CHOOSE g : Iter(g)
           f == [i \in 0 .. n |-> it[1 .. i]]
<1>0. n \in Nat
  BY DEF Texts
<1>1. n \in Nat /\ (\A i \in 1 .. n : seq[i] \in Text) /\ DOMAIN seq = 1 .. n
  BY DEF Texts
<1>2. FoldLeft(Given, <<>>, seq) = it[1 .. n]
  BY <1>1 DEF FoldLeft, MapThenFoldSet
<1>3. <<>> \in Texts
  BY DEF Texts
<1>4. \A x \in Texts, i \in 1 .. n :
         F[<<x, i>>] = Given(x, seq[i]) /\ F[<<x, i>>] \in Texts
  BY <1>1, GivenType
<1> HIDE DEF n, F, it, f
<1>5. PICK g : Folded(g, F, <<>>, Texts, n)
  BY <1>1, <1>3, <1>4, FoldSteps DEF Keeps
<1>6. Iter(g)
  <2>1. \A s \in SUBSET (1 .. n) : s # {} => g[s] = Given(g[s \ {Max(s)}], seq[Max(s)])
    BY <1>4, <1>5 DEF Folded
  <2> QED BY <1>5, <2>1 DEF Folded
<1>7. Iter(it)
  BY <1>6 DEF it
<1>8. it[1 .. 0] = <<>> /\ \A i \in 1 .. n : it[1 .. i] = Given(it[1 .. i - 1], seq[i])
  <2>1. \A s \in SUBSET (1 .. n) :
           it[s] = IF s = {} THEN <<>> ELSE Given(it[s \ {Max(s)}], seq[Max(s)])
    BY <1>7
  <2> HIDE DEF Iter
  <2>2. ASSUME NEW i \in 1 .. n PROVE it[1 .. i] = Given(it[1 .. i - 1], seq[i])
    <3>1. Max(1 .. i) = i /\ (1 .. i) \ {i} = 1 .. i - 1
      BY <1>1, GreatestUpTo
    <3>2. 1 .. i \in SUBSET (1 .. n) /\ 1 .. i # {}
      BY <1>0
    <3> QED BY <2>1, <3>1, <3>2
  <2>3. {} \in SUBSET (1 .. n) /\ 1 .. 0 = {}
    OBVIOUS
  <2> QED BY <2>1, <2>2, <2>3
<1>9. f[0] = <<>> /\ \A i \in 1 .. n : f[i] = Given(f[i - 1], seq[i])
  BY <1>1, <1>8 DEF f
<1>10. f \in [0 .. n -> Texts]
  <2> DEFINE G == {i \in 0 .. n : f[i] \in Texts}
  <2>1. 0 \in G
    BY <1>1, <1>3, <1>9
  <2>2. \A i \in 1 .. n : i - 1 \in G => i \in G
    BY <1>1, <1>9, GivenType
  <2>3. \A i \in 0 .. n : i \in G
    BY <1>1, <2>1, <2>2, Upward
  <2> QED BY <2>3 DEF f
<1>11. FoldLeft(Given, <<>>, seq) = f[n]
  BY <1>1, <1>2 DEF f
<1> QED BY <1>9, <1>10, <1>11 DEF n

-----------------------------------------------------------------------------
LEMMA Associative ==
    ASSUME NEW s \in Text, NEW t \in Text, NEW u \in Text
    PROVE  (s \o t) \o u = s \o (t \o u)
BY ConcatAssociative DEF Text

\* What arrives is what was given, whatever the program and its arguments.
LEMMA LineArrives ==
    ASSUME NEW exe \in Text, NEW args \in Texts
    PROVE  SplitCommandLine(BuildCommandLine(exe, args)) = Arriving(exe, args)
<1> DEFINE n == Len(args)
           seq == <<exe>> \o args
           a == Between(<<>>)
           line == BuildCommandLine(exe, args)
<1>1. PICK f \in [0 .. Len(args) -> Text] :
              /\ f[0] = EscapeArg(exe)
              /\ \A i \in 1 .. Len(args) : f[i] = Longer(f[i - 1], args[i])
              /\ BuildCommandLine(exe, args) = f[Len(args)]
  BY LineFold
<1>2. /\ n \in Nat /\ seq \in Texts /\ Len(seq) = n + 1
      /\ seq[1] = exe /\ \A i \in 1 .. n : args[i] \in Text /\ seq[i + 1] = args[i]
  BY DEF Texts
<1>3. PICK g \in [0 .. Len(seq) -> Texts] :
              /\ g[0] = <<>>
              /\ \A i \in 1 .. Len(seq) : g[i] = Given(g[i - 1], seq[i])
              /\ FoldLeft(Given, <<>>, seq) = g[Len(seq)]
  BY <1>2, GivenFold
<1>4. <<Space>> \in Text
  BY CharacterAssumption, Joined
<1> DEFINE G == {i \in 0 .. n : Reads(a, f[i] \o <<Space>>, Between(g[i + 1]))}
<1>5. 0 \in G
  <2>1. g[1] = Given(<<>>, exe)
    BY <1>2, <1>3
  <2>2. <<>> \in Seq(Text)
    OBVIOUS
  <2>3. Reads(a, EscapeArg(exe) \o <<Space>>, Between(Given(<<>>, exe)))
    BY <2>2, ArgumentReads
  <2> QED BY <1>1, <1>2, <2>1, <2>3
<1>6. ASSUME NEW i \in 1 .. n, i - 1 \in G PROVE i \in G
  <2>1. g[i + 1] = Given(g[i], args[i]) /\ g[i] \in Texts /\ args[i] \in Text
    <3>1. i + 1 \in 1 .. Len(seq) /\ (i + 1) - 1 = i /\ i \in 0 .. Len(seq) /\ seq[i + 1] = args[i]
      BY <1>2
    <3>2. g[i + 1] = Given(g[(i + 1) - 1], seq[i + 1]) /\ g[i] \in Texts
      BY <1>3, <3>1
    <3> QED BY <1>2, <3>1, <3>2
  <2>2. Reads(a, f[i - 1] \o <<Space>>, Between(g[i]))
    BY <1>2, <1>6
  <2>3. Reads(Between(g[i]), EscapeArg(args[i]) \o <<Space>>, Between(g[i + 1]))
    <3>1. g[i] \in Seq(Text)
      BY <2>1 DEF Texts
    <3> QED BY <2>1, <3>1, ArgumentReads
  <2>4. f[i - 1] \in Text /\ f[i] = (f[i - 1] \o <<Space>>) \o EscapeArg(args[i])
    <3>1. i - 1 \in 0 .. Len(args) /\ i \in 1 .. Len(args)
      BY <1>2
    <3>2. f[i - 1] \in Text /\ f[i] = Longer(f[i - 1], args[i])
      BY <1>1, <3>1
    <3> QED BY <3>2 DEF Longer
  <2>5. EscapeArg(args[i]) \in Text
    BY <2>1, EscapeArgType
  <2>6. f[i - 1] \o <<Space>> \in Text /\ EscapeArg(args[i]) \o <<Space>> \in Text
    BY <1>4, <2>4, <2>5 DEF Text
  <2>7. Reads(a, (f[i - 1] \o <<Space>>) \o (EscapeArg(args[i]) \o <<Space>>), Between(g[i + 1]))
    BY <2>2, <2>3, <2>6, ReadsThen
  <2>8. (f[i - 1] \o <<Space>>) \o (EscapeArg(args[i]) \o <<Space>>) = f[i] \o <<Space>>
    <3> DEFINE x == f[i - 1] \o <<Space>>
               y == EscapeArg(args[i])
               z == <<Space>>
    <3>1. x \in Text /\ y \in Text /\ z \in Text /\ f[i] = x \o y
      BY <1>4, <2>4, <2>5, <2>6
    <3> HIDE DEF x, y, z
    <3>2. (x \o y) \o z = x \o (y \o z)
      BY <3>1, Associative
    <3>3. x \o (y \o z) = f[i] \o z
      BY <3>1, <3>2
    <3> QED BY <3>3 DEF x, y, z
  <2> QED BY <2>7, <2>8
<1>7. Reads(a, line \o <<Space>>, Between(g[n + 1]))
  <2>1. \A i \in 1 .. n : i - 1 \in G => i \in G
    BY <1>6
  <2>2. \A i \in 0 .. n : i \in G
    <3> HIDE DEF G
    <3> QED BY <1>2, <1>5, <2>1, Upward
  <2> QED BY <1>1, <1>2, <2>2
<1> DEFINE st == FoldLeft(SplitChar, a, line)
<1>8. a \in SplitState /\ line \in Text
  <2>1. <<>> \in Text /\ <<>> \in Seq(Text)
    BY DEF Text
  <2>2. a \in SplitState
    BY <2>1, YesNo, AtType DEF Between
  <2>3. line \in Text
    BY <1>1, <1>2
  <2> QED BY <2>2, <2>3
<1> HIDE DEF a, line
<1>9. Reads(a, line, st) /\ st \in SplitState
  <2>1. Reads(a, line, st)
    BY <1>8, SplitReads
  <2>2. PICK h : Reading(h, a, line, st)
    BY <2>1 DEF Reads
  <2>3. Len(line) \in Nat
    BY <1>8 DEF Text
  <2> HIDE DEF st
  <2> QED BY <2>1, <2>2, <2>3 DEF Reading
<1> HIDE DEF st
<1>10. Reads(a, line \o <<Space>>, SplitChar(st, Space))
  <2>1. Reads(st, <<Space>>, SplitChar(st, Space))
    BY <1>9, ReadsOne, CharacterAssumption
  <2> QED BY <1>4, <1>8, <1>9, <2>1, ReadsThen
<1>11. SplitChar(st, Space) = Between(g[n + 1])
  <2>1. line \o <<Space>> \in Text
    BY <1>4, <1>8 DEF Text
  <2> QED BY <1>7, <1>10, <2>1, ReadsOnce
<1>12. SplitCommandLine(line) = EndWord(SplitChar(st, Space)).words
  BY DEF SplitCommandLine, st, a, Between, At, No
<1>13. EndWord(Between(g[n + 1])).words = g[n + 1]
  BY DEF EndWord, Between, At, No
<1>14. Arriving(exe, args) = g[n + 1]
  BY <1>2, <1>3 DEF Arriving
<1> QED BY <1>11, <1>12, <1>13, <1>14 DEF line

-----------------------------------------------------------------------------
(***************************************************************************)
(* MD5.  A stream has absorbed a sequence of bytes if its state is of the  *)
(* whole blocks and its buffer holds the rest; every update keeps this, so *)
(* a digest is of all bytes, and one that fits in the block leaves it.     *)
(***************************************************************************)
LEMMA DivParts ==
    ASSUME NEW c \in Nat
    PROVE  /\ Block \in Nat /\ Block > 0
           /\ c \div Block \in Nat /\ c % Block \in Nat /\ c % Block < Block
           /\ c = (c \div Block) * Block + (c % Block)
BY Md5Assumption

LEMMA Product ==
    ASSUME NEW a \in Nat, NEW b \in Nat, a < b
    PROVE  a * Block \in Nat /\ b * Block \in Nat /\ a * Block + Block <= b * Block
BY Md5Assumption

LEMMA DivOf ==
    ASSUME NEW q \in Nat, NEW r \in Nat, r < Block, NEW c, c = q * Block + r
    PROVE  c \in Nat /\ c \div Block = q /\ c % Block = r
<1>1. c \in Nat /\ Block \in Nat /\ q * Block \in Nat
  BY Md5Assumption
<1> DEFINE p == c \div Block  s == c % Block
<1>2. p \in Nat /\ s \in Nat /\ s < Block /\ c = p * Block + s
  BY <1>1, DivParts
<1> HIDE DEF p, s
<1>3. ~(p < q)
  <2> SUFFICES ASSUME p < q PROVE FALSE
    OBVIOUS
  <2>1. p * Block + Block <= q * Block /\ p * Block \in Nat
    BY <1>2, Product
  <2> QED BY <1>1, <1>2, <2>1
<1>4. ~(q < p)
  <2> SUFFICES ASSUME q < p PROVE FALSE
    OBVIOUS
  <2>1. q * Block + Block <= p * Block /\ p * Block \in Nat
    BY <1>2, Product
  <2> QED BY <1>1, <1>2, <2>1
<1>5. p = q
  BY <1>2, <1>3, <1>4
<1>6. s = r
  BY <1>1, <1>2, <1>5
<1> QED BY <1>1, <1>5, <1>6 DEF p, s

\* c bytes are q blocks and r more bytes.
Cut(c, q, r) == q = c \div Block /\ r = c % Block

LEMMA CutOf ==
    ASSUME NEW c \in Nat, NEW q, NEW r, Cut(c, q, r)
    PROVE  /\ Block \in Nat /\ q \in Nat /\ r \in Nat /\ r < Block
           /\ q * Block \in Nat /\ c = q * Block + r
<1>1. Block \in Nat /\ q \in Nat /\ r \in Nat /\ r < Block /\ c = q * Block + r
  BY DivParts DEF Cut
<1>2. q * Block \in Nat
  BY <1>1
<1> QED BY <1>1, <1>2

LEMMA CutIs ==
    ASSUME NEW q \in Nat, NEW r \in Nat, r < Block, NEW c, c = q * Block + r
    PROVE  c \in Nat /\ Cut(c, q, r)
BY DivOf DEF Cut

LEMMA SizesMore ==
    ASSUME NEW c \in Nat, NEW q, NEW index, Cut(c, q, index), NEW l \in Nat, l >= Block - index,
           NEW e, NEW r, Cut(l - (Block - index), e, r)
    PROVE  /\ e \in Nat /\ r \in Nat /\ r < Block /\ e * Block \in Nat
           /\ l = (Block - index) + e * Block + r /\ Cut(c + l, q + 1 + e, r)
           /\ (q + 1 + e) * Block = q * Block + Block + e * Block
<1>1. Block \in Nat /\ q \in Nat /\ index \in Nat /\ index < Block /\ c = q * Block + index /\ q * Block \in Nat
  BY CutOf
<1> DEFINE d == l - (Block - index)
<1>2. d \in Nat /\ l = (Block - index) + d
  BY <1>1
<1>3. Cut(d, e, r)
  OBVIOUS
<1> HIDE DEF d
<1>4. e \in Nat /\ r \in Nat /\ r < Block /\ d = e * Block + r /\ e * Block \in Nat
  BY <1>2, <1>3, CutOf
<1>5. (q + 1 + e) * Block = q * Block + Block + e * Block
  BY <1>1, <1>4
<1>6. q + 1 + e \in Nat /\ c + l = (q + 1 + e) * Block + r
  BY <1>1, <1>2, <1>4, <1>5
<1>7. Cut(c + l, q + 1 + e, r)
  BY <1>4, <1>6, CutIs
<1>8. l = (Block - index) + e * Block + r
  BY <1>1, <1>2, <1>4
<1> QED BY <1>4, <1>5, <1>7, <1>8

LEMMA SizesLess ==
    ASSUME NEW c \in Nat, NEW q, NEW index, Cut(c, q, index), NEW l \in Nat, ~(l >= Block - index)
    PROVE  Cut(c + l, q, index + l)
<1>1. Block \in Nat /\ q \in Nat /\ index \in Nat /\ index < Block /\ c = q * Block + index /\ q * Block \in Nat
  BY CutOf
<1>2. index + l \in Nat /\ index + l < Block /\ c + l = q * Block + (index + l)
  BY <1>1
<1> QED BY <1>1, <1>2, CutIs

Buffers == [1 .. Block -> Int]
Blocks == Seq(Seq(Int))
Streams == [state : Blocks, count : Nat, buffer : Buffers, finished : BOOLEAN]

\* state has the first q blocks of s, and buffer the r bytes behind them.
Whole(state, s, q) ==
    /\ Len(state) = q
    /\ \A b \in 1 .. q : Len(state[b]) = Block /\ \A k \in 1 .. Block : state[b][k] = s[(b - 1) * Block + k]
Left(buffer, s, q, r) == \A k \in 1 .. r : buffer[k] = s[q * Block + k]

\* m has taken in the sequence s.
Absorbed(m, s) ==
    /\ m.count = Len(s)
    /\ \A q, r : Cut(Len(s), q, r) => Whole(m.state, s, q) /\ Left(m.buffer, s, q, r)

LEMMA Overwritten ==
    ASSUME NEW buffer \in Buffers, NEW index \in Nat, NEW t \in Seq(Int)
    PROVE  /\ Overwrite(buffer, index, t) \in Buffers
           /\ \A k \in 1 .. Block : Overwrite(buffer, index, t)[k] =
                IF k > index /\ k - index <= Len(t) THEN t[k - index] ELSE buffer[k]
<1>1. Block \in Nat
  BY Md5Assumption
<1>2. \A k \in 1 .. Block : buffer[k] \in Int
  BY DEF Buffers
<1>3. \A k \in 1 .. Block : k > index /\ k - index <= Len(t) => t[k - index] \in Int
  BY <1>1
<1> QED BY <1>2, <1>3 DEF Overwrite, Buffers

LEMMA BufferIsSequence ==
    ASSUME NEW buffer \in Buffers
    PROVE  buffer \in Seq(Int) /\ Len(buffer) = Block
BY Md5Assumption DEF Buffers

(***************************************************************************)
(* update, when the bytes of t reach the end of the buffer, with e more    *)
(* blocks and r bytes behind it, and when they do not.                     *)
(***************************************************************************)
Reaches(m, t, q, index, e, r) ==
    Cut(m.count, q, index) /\ Len(t) >= Block - index /\ Cut(Len(t) - (Block - index), e, r)
Reached(u, m, t, index, e, r) ==
    /\ u \in Streams /\ u.count = m.count + Len(t)
    /\ Len(u.state) = Len(m.state) + 1 + e
    /\ \A b \in 1 .. Len(m.state) : u.state[b] = m.state[b]
    /\ Len(u.state[Len(m.state) + 1]) = Block
    /\ \A k \in 1 .. index : u.state[Len(m.state) + 1][k] = m.buffer[k]
    /\ \A k \in index + 1 .. Block : u.state[Len(m.state) + 1][k] = t[k - index]
    /\ \A b \in 1 .. e : Len(u.state[Len(m.state) + 1 + b]) = Block
    /\ \A b \in 1 .. e : \A k \in 1 .. Block :
         u.state[Len(m.state) + 1 + b][k] = t[(Block - index) + (b - 1) * Block + k]
    /\ \A k \in 1 .. r : u.buffer[k] = t[(Block - index) + e * Block + k]
    /\ \A k \in 1 .. Block : k > r => u.buffer[k] = u.state[Len(m.state) + 1][k]

Stays(m, t, q, index) == Cut(m.count, q, index) /\ ~(Len(t) >= Block - index)
Stayed(u, m, t, index) ==
    /\ u \in Streams /\ u.count = m.count + Len(t) /\ u.state = m.state
    /\ \A k \in 1 .. index : u.buffer[k] = m.buffer[k]
    /\ \A k \in index + 1 .. index + Len(t) : u.buffer[k] = t[k - index]

LEMMA UpdateMore ==
    ASSUME NEW m \in Streams, NEW t \in Seq(Int), NEW q, NEW index, NEW e, NEW r,
           Reaches(m, t, q, index, e, r)
    PROVE  Reached(Update(m, t), m, t, index, e, r)
<1>0. Cut(m.count, q, index) /\ Len(t) >= Block - index /\ Cut(Len(t) - (Block - index), e, r)
  BY DEF Reaches
<1> DEFINE p == Block - index
           full == Overwrite(m.buffer, index, SubSeq(t, 1, p))
           rest == SubSeq(t, p + e * Block + 1, Len(t))
           piece == [b \in 1 .. e |-> SubSeq(t, p + (b - 1) * Block + 1, p + b * Block)]
           last == Overwrite(full, 0, rest)
           state == Append(m.state, full) \o piece
           u == [m EXCEPT !.count = @ + Len(t), !.finished = FALSE, !.state = state, !.buffer = last]
<1>1. m.state \in Blocks /\ m.count \in Nat /\ m.buffer \in Buffers /\ Len(t) \in Nat /\ Len(m.state) \in Nat
  BY DEF Streams, Blocks
<1>2. Block \in Nat /\ q \in Nat /\ index \in Nat /\ index < Block
  BY <1>0, <1>1, CutOf
<1>3. e \in Nat /\ r \in Nat /\ r < Block /\ Len(t) = p + e * Block + r /\ e * Block \in Nat
  BY <1>0, <1>1, SizesMore
<1>4. p \in Nat /\ p <= Len(t) /\ p + index = Block
  BY <1>0, <1>1, <1>2
<1>5. /\ SubSeq(t, 1, p) \in Seq(Int) /\ Len(SubSeq(t, 1, p)) = p
      /\ \A i \in 1 .. p : SubSeq(t, 1, p)[i] = t[i]
  <2>1. 0 \in Nat /\ 0 + p <= Len(t) /\ 0 + 1 = 1 /\ 0 + p = p
    BY <1>4
  <2> QED BY <1>4, <2>1, Slice
<1>6. full \in Buffers /\ \A k \in 1 .. Block : full[k] = IF k <= index THEN m.buffer[k] ELSE t[k - index]
  <2> DEFINE s == SubSeq(t, 1, p)
  <2>1. \A k \in 1 .. Block : full[k] = IF k > index /\ k - index <= Len(s) THEN s[k - index] ELSE m.buffer[k]
    BY <1>1, <1>2, <1>5, Overwritten
  <2>2. full \in Buffers
    BY <1>1, <1>2, <1>5, Overwritten
  <2>3. s \in Seq(Int) /\ Len(s) = p /\ \A i \in 1 .. p : s[i] = t[i]
    BY <1>5
  <2> HIDE DEF s, p, full
  <2>4. \A k \in 1 .. Block : k > index => k - index \in 1 .. p
    BY <1>2, <1>4
  <2> QED BY <1>2, <1>4, <2>1, <2>2, <2>3, <2>4
<1>7. /\ rest \in Seq(Int) /\ Len(rest) = r /\ \A i \in 1 .. r : rest[i] = t[p + e * Block + i]
  <2> DEFINE f == p + e * Block
  <2>1. f \in Nat /\ f + r = Len(t)
    BY <1>3, <1>4
  <2> HIDE DEF f, p
  <2>2. SubSeq(t, f + 1, f + r) \in Seq(Int) /\ Len(SubSeq(t, f + 1, f + r)) = r /\ \A i \in 1 .. r : SubSeq(t, f + 1, f + r)[i] = t[f + i]
    BY <1>3, <2>1, Slice
  <2> QED BY <2>1, <2>2 DEF f
<1>8. /\ last \in Buffers /\ \A k \in 1 .. r : last[k] = t[p + e * Block + k]
      /\ \A k \in 1 .. Block : k > r => last[k] = full[k]
  <2>1. full \in Buffers /\ rest \in Seq(Int) /\ 0 \in Nat
    BY <1>6, <1>7
  <2>2. \A i \in 1 .. r : rest[i] = t[p + e * Block + i]
    BY <1>7
  <2> HIDE DEF full, rest, p
  <2>3. last \in Buffers
    BY <2>1, Overwritten
  <2>4. \A k \in 1 .. Block : last[k] = IF k > 0 /\ k - 0 <= Len(rest) THEN rest[k - 0] ELSE full[k]
    BY <2>1, Overwritten
  <2> HIDE DEF last
  <2>5. \A k \in 1 .. r : last[k] = rest[k]
    <3> SUFFICES ASSUME NEW k \in 1 .. r PROVE last[k] = rest[k]
      OBVIOUS
    <3>1. k \in 1 .. Block /\ k > 0 /\ k - 0 = k /\ k <= Len(rest)
      BY <1>2, <1>3, <1>7
    <3> QED BY <2>4, <3>1
  <2>6. ASSUME NEW k \in 1 .. Block, k > r PROVE last[k] = full[k]
    <3>1. ~(k - 0 <= Len(rest))
      BY <1>2, <1>3, <1>7, <2>6
    <3> QED BY <2>4, <3>1
  <2> QED BY <2>2, <2>3, <2>5, <2>6
<1>9. \A b \in 1 .. e : /\ piece[b] \in Seq(Int) /\ Len(piece[b]) = Block
                        /\ \A k \in 1 .. Block : piece[b][k] = t[p + (b - 1) * Block + k]
  <2> SUFFICES ASSUME NEW b \in 1 .. e
               PROVE  /\ piece[b] \in Seq(Int) /\ Len(piece[b]) = Block
                      /\ \A k \in 1 .. Block : piece[b][k] = t[p + (b - 1) * Block + k]
    OBVIOUS
  <2> DEFINE f == p + (b - 1) * Block  s == SubSeq(t, f + 1, f + Block)
  <2>1. b - 1 \in Nat /\ b - 1 < e /\ b \in Nat
    BY <1>3
  <2>2. (b - 1) * Block \in Nat /\ (b - 1) * Block + Block <= e * Block /\ (b - 1) * Block + Block = b * Block
    BY <1>2, <1>3, <2>1, Product
  <2>3. f \in Nat /\ f + Block <= Len(t) /\ f + Block = p + b * Block
    <3> DEFINE x == (b - 1) * Block  y == e * Block  z == b * Block
    <3>1. x \in Nat /\ x + Block <= y /\ x + Block = z /\ y \in Nat /\ Len(t) = p + y + r /\ f = p + x
      BY <1>3, <2>2
    <3> HIDE DEF x, y, z, f, p
    <3>2. f \in Nat /\ f + Block <= Len(t) /\ f + Block = p + z
      BY <1>2, <1>3, <1>4, <3>1
    <3> QED BY <3>2 DEF z
  <2>4. piece[b] = s
    BY <2>3
  <2> HIDE DEF f, p
  <2>5. s \in Seq(Int) /\ Len(s) = Block /\ \A k \in 1 .. Block : s[k] = t[f + k]
    BY <1>2, <2>3, Slice
  <2> HIDE DEF s, piece
  <2> QED BY <2>4, <2>5 DEF f
<1>10. full \in Seq(Int) /\ Len(full) = Block
  BY <1>6, BufferIsSequence
<1>11. piece \in Blocks /\ Len(piece) = e
  <2>1. \A b \in 1 .. e : piece[b] \in Seq(Int)
    BY <1>9
  <2>2. piece = [b \in 1 .. e |-> piece[b]]
    OBVIOUS
  <2> HIDE DEF piece
  <2> QED BY <1>3, <2>1, <2>2, SMTT(30) DEF Blocks
<1> HIDE DEF full, piece, last, p
<1>12. /\ state \in Blocks /\ Len(state) = Len(m.state) + 1 + e
       /\ \A b \in 1 .. Len(m.state) : state[b] = m.state[b]
       /\ state[Len(m.state) + 1] = full
       /\ \A b \in 1 .. e : state[Len(m.state) + 1 + b] = piece[b]
  <2> DEFINE a == Append(m.state, full)
  <2>1. /\ a \in Blocks /\ Len(a) = Len(m.state) + 1
        /\ \A b \in 1 .. Len(m.state) : a[b] = m.state[b]
        /\ a[Len(m.state) + 1] = full
    BY <1>1, <1>10 DEF Blocks
  <2> HIDE DEF a
  <2>2. /\ a \o piece \in Blocks /\ Len(a \o piece) = Len(a) + Len(piece)
        /\ \A i \in 1 .. Len(a) + Len(piece) : (a \o piece)[i] = IF i <= Len(a) THEN a[i] ELSE piece[i - Len(a)]
    BY <1>11, <2>1, ConcatProperties DEF Blocks
  <2> DEFINE z == a \o piece
  <2>3. z \in Blocks /\ Len(z) = Len(m.state) + 1 + e
    BY <1>11, <2>1, <2>2
  <2>4. \A b \in 1 .. Len(m.state) + 1 : z[b] = a[b]
    BY <1>1, <1>3, <1>11, <2>1, <2>2
  <2>5. \A b \in 1 .. e : z[Len(m.state) + 1 + b] = piece[b]
    <3> SUFFICES ASSUME NEW b \in 1 .. e PROVE z[Len(m.state) + 1 + b] = piece[b]
      OBVIOUS
    <3> DEFINE i == Len(m.state) + 1 + b
    <3>1. i \in 1 .. Len(a) + Len(piece) /\ ~(i <= Len(a)) /\ i - Len(a) = b
      BY <1>1, <1>3, <1>11, <2>1
    <3> HIDE DEF i
    <3>2. z[i] = piece[b]
      BY <2>2, <3>1
    <3> QED BY <3>2 DEF i
  <2>6. state = z
    BY DEF a
  <2>7. \A b \in 1 .. Len(m.state) : z[b] = m.state[b]
    BY <1>1, <2>1, <2>4
  <2>8. z[Len(m.state) + 1] = full
    BY <1>1, <2>1, <2>4
  <2> HIDE DEF z, state
  <2> QED BY <2>3, <2>5, <2>6, <2>7, <2>8
<1> HIDE DEF state
<1>13. u \in Streams /\ u.count = m.count + Len(t) /\ u.state = state /\ u.buffer = last
  <2>1. m.count + Len(t) \in Nat /\ FALSE \in BOOLEAN
    BY <1>1
  <2> QED BY <1>8, <1>12, <2>1 DEF Streams
<1>14. Update(m, t) = u
  BY <1>0 DEF Update, u, state, last, full, piece, p, Cut
<1> HIDE DEF u
<1>15. \A k \in 1 .. index : full[k] = m.buffer[k]
  BY <1>2, <1>6
<1>16. \A k \in index + 1 .. Block : full[k] = t[k - index]
  BY <1>2, <1>6
<1> DEFINE n == Len(m.state) + 1
<1>17. state[n] = full /\ \A b \in 1 .. e : state[n + b] = piece[b]
  BY <1>12
<1>18. /\ u.state[n] = full /\ \A b \in 1 .. e : u.state[n + b] = piece[b]
       /\ Len(u.state) = n + e /\ \A b \in 1 .. Len(m.state) : u.state[b] = m.state[b]
  BY <1>12, <1>13, <1>17
<1>19. /\ Len(u.state[n]) = Block
       /\ \A k \in 1 .. index : u.state[n][k] = m.buffer[k]
       /\ \A k \in index + 1 .. Block : u.state[n][k] = t[k - index]
  BY <1>10, <1>15, <1>16, <1>18
<1>20. /\ \A b \in 1 .. e : Len(u.state[n + b]) = Block
       /\ \A b \in 1 .. e : \A k \in 1 .. Block : u.state[n + b][k] = t[p + (b - 1) * Block + k]
  BY <1>9, <1>18
<1>21. \A k \in 1 .. r : u.buffer[k] = t[p + e * Block + k]
  BY <1>8, <1>13
<1>22. \A k \in 1 .. Block : k > r => u.buffer[k] = u.state[n][k]
  BY <1>8, <1>13, <1>18
<1> QED BY <1>13, <1>14, <1>18, <1>19, <1>20, <1>21, <1>22 DEF p, Reached

LEMMA UpdateLess ==
    ASSUME NEW m \in Streams, NEW t \in Seq(Int), NEW q, NEW index, Stays(m, t, q, index)
    PROVE  Stayed(Update(m, t), m, t, index)
<1>0. Cut(m.count, q, index) /\ ~(Len(t) >= Block - index)
  BY DEF Stays
<1> DEFINE last == Overwrite(m.buffer, index, t)
           u == [m EXCEPT !.count = @ + Len(t), !.finished = FALSE, !.buffer = last]
<1>1. m.state \in Blocks /\ m.count \in Nat /\ m.buffer \in Buffers /\ Len(t) \in Nat
  BY DEF Streams
<1>2. Block \in Nat /\ index \in Nat /\ index < Block
  BY <1>0, <1>1, CutOf
<1>3. /\ last \in Buffers
      /\ \A k \in 1 .. Block : last[k] = IF k > index /\ k - index <= Len(t) THEN t[k - index] ELSE m.buffer[k]
  BY <1>1, <1>2, Overwritten
<1> HIDE DEF last
<1>4. u \in Streams /\ u.count = m.count + Len(t) /\ u.state = m.state /\ u.buffer = last
  <2>1. m.count + Len(t) \in Nat /\ FALSE \in BOOLEAN
    BY <1>1
  <2> QED BY <1>1, <1>3, <2>1 DEF Streams
<1>5. Update(m, t) = u
  BY <1>0 DEF Update, u, last, Cut
<1>6. \A k \in 1 .. index : last[k] = m.buffer[k]
  BY <1>2, <1>3
<1>7. ASSUME NEW k \in index + 1 .. index + Len(t)
      PROVE  last[k] = t[k - index]
  <2>1. ~(Len(t) >= Block - index)
    BY <1>0
  <2>2. k \in 1 .. Block /\ k > index /\ k - index <= Len(t)
    BY <1>1, <1>2, <2>1
  <2> QED BY <1>3, <2>2
<1> HIDE DEF u
<1> QED BY <1>4, <1>5, <1>6, <1>7 DEF Stayed

LEMMA JoinedAt ==
    ASSUME NEW s \in Seq(Int), NEW t \in Seq(Int)
    PROVE  /\ s \o t \in Seq(Int) /\ Len(s) \in Nat /\ Len(t) \in Nat /\ Len(s \o t) = Len(s) + Len(t)
           /\ \A i \in 1 .. Len(s) : (s \o t)[i] = s[i]
           /\ \A i \in 1 .. Len(t) : (s \o t)[Len(s) + i] = t[i]
OBVIOUS

\* A whole block that was behind the first blocks of s is one of s \o t.
LEMMA BlockBefore ==
    ASSUME NEW s \in Seq(Int), NEW t \in Seq(Int), NEW q, NEW index, Cut(Len(s), q, index),
           NEW b \in 1 .. q, NEW k \in 1 .. Block
    PROVE  (s \o t)[(b - 1) * Block + k] = s[(b - 1) * Block + k]
<1>1. Len(s) \in Nat
  OBVIOUS
<1>2. /\ Block \in Nat /\ q \in Nat /\ index \in Nat /\ index < Block
      /\ q * Block \in Nat /\ Len(s) = q * Block + index
  BY <1>1, CutOf
<1>3. b - 1 \in Nat /\ b - 1 < q
  BY <1>2
<1>4. (b - 1) * Block \in Nat /\ (b - 1) * Block + Block <= q * Block
  BY <1>2, <1>3, Product
<1> DEFINE x == (b - 1) * Block  y == q * Block
<1>5. x \in Nat /\ y \in Nat /\ x + Block <= y /\ Len(s) = y + index
  BY <1>2, <1>4
<1> HIDE DEF x, y
<1>6. x + k \in 1 .. Len(s)
  BY <1>2, <1>5
<1>7. (s \o t)[x + k] = s[x + k]
  BY <1>6, JoinedAt
<1> QED BY <1>7 DEF x

LEMMA UpdateAbsorbs ==
    ASSUME NEW m \in Streams, NEW s \in Seq(Int), NEW t \in Seq(Int), Absorbed(m, s)
    PROVE  Update(m, t) \in Streams /\ Absorbed(Update(m, t), s \o t)
<1> DEFINE q == Len(s) \div Block  index == Len(s) % Block
           w == s \o t  u == Update(m, t)
<1>0. Cut(Len(s), q, index)
  BY DEF Cut
<1>1. /\ w \in Seq(Int) /\ Len(s) \in Nat /\ Len(t) \in Nat /\ Len(w) = Len(s) + Len(t)
      /\ \A i \in 1 .. Len(s) : w[i] = s[i]
      /\ \A i \in 1 .. Len(t) : w[Len(s) + i] = t[i]
  BY JoinedAt
<1> HIDE DEF q, index
<1>2. /\ Block \in Nat /\ q \in Nat /\ index \in Nat /\ index < Block
      /\ q * Block \in Nat /\ Len(s) = q * Block + index
  BY <1>0, <1>1, CutOf
<1>3. m.count = Len(s) /\ Whole(m.state, s, q) /\ Left(m.buffer, s, q, index) /\ Cut(m.count, q, index)
  BY <1>0 DEF Absorbed
<1>4. \A b \in 1 .. q : \A k \in 1 .. Block : w[(b - 1) * Block + k] = m.state[b][k] /\ Len(m.state[b]) = Block
  <2> SUFFICES ASSUME NEW b \in 1 .. q, NEW k \in 1 .. Block
               PROVE  w[(b - 1) * Block + k] = m.state[b][k] /\ Len(m.state[b]) = Block
    OBVIOUS
  <2>1. w[(b - 1) * Block + k] = s[(b - 1) * Block + k]
    BY <1>0, BlockBefore
  <2>2. Len(m.state[b]) = Block /\ m.state[b][k] = s[(b - 1) * Block + k]
    BY <1>3 DEF Whole
  <2> QED BY <2>1, <2>2
<1>5. \A k \in 1 .. index : w[q * Block + k] = m.buffer[k]
  <2> DEFINE y == q * Block
  <2>1. y \in Nat /\ Len(s) = y + index /\ \A k \in 1 .. index : m.buffer[k] = s[y + k]
    BY <1>2, <1>3 DEF Left
  <2> HIDE DEF y
  <2>2. \A k \in 1 .. index : y + k \in 1 .. Len(s)
    BY <1>1, <1>2, <2>1
  <2> QED BY <1>1, <2>1, <2>2 DEF y
<1>6. ASSUME Len(t) >= Block - index
      PROVE  u \in Streams /\ Absorbed(u, w)
  <2> DEFINE p == Block - index  d == Len(t) - p  e == d \div Block  r == d % Block  n == q + 1 + e
  <2>1. Cut(Len(t) - (Block - index), e, r)
    BY DEF Cut
  <2> HIDE DEF e, r
  <2>2. /\ e \in Nat /\ r \in Nat /\ r < Block /\ e * Block \in Nat
        /\ Len(t) = (Block - index) + e * Block + r /\ Cut(Len(s) + Len(t), n, r)
        /\ n * Block = q * Block + Block + e * Block
    BY <1>0, <1>1, <1>6, <2>1, SizesMore
  <2>3. /\ u \in Streams /\ u.count = m.count + Len(t)
        /\ Len(u.state) = Len(m.state) + 1 + e
        /\ \A b \in 1 .. Len(m.state) : u.state[b] = m.state[b]
        /\ Len(u.state[Len(m.state) + 1]) = Block
        /\ \A k \in 1 .. index : u.state[Len(m.state) + 1][k] = m.buffer[k]
        /\ \A k \in index + 1 .. Block : u.state[Len(m.state) + 1][k] = t[k - index]
        /\ \A b \in 1 .. e : Len(u.state[Len(m.state) + 1 + b]) = Block
        /\ \A b \in 1 .. e : \A k \in 1 .. Block :
             u.state[Len(m.state) + 1 + b][k] = t[(Block - index) + (b - 1) * Block + k]
        /\ \A k \in 1 .. r : u.buffer[k] = t[(Block - index) + e * Block + k]
    <3>1. Reaches(m, t, q, index, e, r)
      BY <1>3, <1>6, <2>1 DEF Reaches
    <3>2. Reached(u, m, t, index, e, r)
      BY <3>1, UpdateMore
    <3> QED BY <3>2 DEF Reached
  <2>4. Len(m.state) = q
    BY <1>3 DEF Whole
  <2> HIDE DEF u, w
  <2>5. \A b \in 1 .. q : Len(u.state[b]) = Block /\ \A k \in 1 .. Block : u.state[b][k] = w[(b - 1) * Block + k]
    <3>1. \A b \in 1 .. q : u.state[b] = m.state[b]
      BY <2>3, <2>4
    <3>2. \A b \in 1 .. q : Len(m.state[b]) = Block
      BY <1>3 DEF Whole
    <3> QED BY <1>4, <3>1, <3>2
  <2>6. Len(u.state[q + 1]) = Block /\ \A k \in 1 .. Block : u.state[q + 1][k] = w[q * Block + k]
    <3>1. /\ Len(u.state[q + 1]) = Block
          /\ \A k \in 1 .. index : u.state[q + 1][k] = m.buffer[k]
          /\ \A k \in index + 1 .. Block : u.state[q + 1][k] = t[k - index]
      BY <2>3, <2>4
    <3>2. \A k \in 1 .. index : u.state[q + 1][k] = w[q * Block + k]
      BY <1>5, <3>1
    <3>3. \A k \in index + 1 .. Block : u.state[q + 1][k] = w[q * Block + k]
      <4> SUFFICES ASSUME NEW k \in index + 1 .. Block PROVE u.state[q + 1][k] = w[q * Block + k]
        OBVIOUS
      <4> DEFINE y == q * Block  z == e * Block  i == k - index
      <4>1. y \in Nat /\ z \in Nat /\ Len(s) = y + index /\ Len(t) = (Block - index) + z + r
        BY <1>2, <2>2
      <4> HIDE DEF y, z
      <4>2. i \in 1 .. Len(t) /\ Len(s) + i = y + k
        BY <1>1, <1>2, <2>2, <4>1, SMTT(30)
      <4>3. w[Len(s) + i] = t[i] /\ u.state[q + 1][k] = t[i]
        BY <1>1, <3>1, <4>2
      <4> QED BY <4>2, <4>3 DEF y
    <3>4. \A k \in 1 .. Block : k \in 1 .. index \/ k \in index + 1 .. Block
      BY <1>2
    <3> QED BY <3>1, <3>2, <3>3, <3>4
  <2>7. \A b \in 1 .. e :
           /\ Len(u.state[q + 1 + b]) = Block
           /\ \A k \in 1 .. Block : u.state[q + 1 + b][k] = w[((q + 1 + b) - 1) * Block + k]
    <3> SUFFICES ASSUME NEW b \in 1 .. e
                 PROVE  /\ Len(u.state[q + 1 + b]) = Block
                        /\ \A k \in 1 .. Block : u.state[q + 1 + b][k] = w[((q + 1 + b) - 1) * Block + k]
      OBVIOUS
    <3>1. /\ Len(u.state[q + 1 + b]) = Block
          /\ \A k \in 1 .. Block : u.state[q + 1 + b][k] = t[(Block - index) + (b - 1) * Block + k]
      BY <2>3, <2>4
    <3> DEFINE x == (b - 1) * Block  y == q * Block  z == e * Block  v == ((q + 1 + b) - 1) * Block
    <3>2. b - 1 \in Nat /\ b - 1 < e
      BY <2>2
    <3>3. x \in Nat /\ x + Block <= z
      BY <2>2, <3>2, Product
    <3>4. v = y + Block + x
      BY <1>2, <3>2
    <3>5. y \in Nat /\ z \in Nat /\ Len(s) = y + index /\ Len(t) = (Block - index) + z + r
      BY <1>2, <2>2
    <3> HIDE DEF x, y, z, v
    <3>6. ASSUME NEW k \in 1 .. Block PROVE w[v + k] = t[(Block - index) + x + k]
      <4> DEFINE i == (Block - index) + x + k
      <4>1. i \in 1 .. Len(t) /\ Len(s) + i = v + k
        BY <1>1, <1>2, <2>2, <3>3, <3>4, <3>5
      <4>2. w[Len(s) + i] = t[i]
        BY <1>1, <4>1
      <4> QED BY <4>1, <4>2
    <3> QED BY <3>1, <3>6 DEF x, v
  <2>8. Whole(u.state, w, n)
    <3>1. Len(u.state) = n
      BY <2>3, <2>4
    <3>2. ASSUME NEW b \in 1 .. n
          PROVE  Len(u.state[b]) = Block /\ \A k \in 1 .. Block : u.state[b][k] = w[(b - 1) * Block + k]
      <4>1. CASE b <= q
        <5>1. b \in 1 .. q
          BY <1>2, <4>1
        <5> QED BY <2>5, <5>1
      <4>2. CASE b = q + 1
        <5>1. b - 1 = q
          BY <1>2, <4>2
        <5> QED BY <2>6, <4>2, <5>1
      <4>3. CASE b > q + 1
        <5>1. b - (q + 1) \in 1 .. e /\ q + 1 + (b - (q + 1)) = b
          BY <1>2, <2>2, <4>3
        <5> QED BY <2>7, <5>1
      <4> QED BY <1>2, <2>2, <4>1, <4>2, <4>3
    <3> QED BY <3>1, <3>2 DEF Whole
  <2>9. Left(u.buffer, w, n, r)
    <3> SUFFICES ASSUME NEW k \in 1 .. r PROVE u.buffer[k] = w[n * Block + k]
      BY DEF Left
    <3> DEFINE y == q * Block  z == e * Block  v == n * Block  i == (Block - index) + z + k
    <3>1. y \in Nat /\ z \in Nat /\ Len(s) = y + index /\ Len(t) = (Block - index) + z + r /\ v = y + Block + z
      BY <1>2, <2>2
    <3>2. u.buffer[k] = t[i]
      BY <2>3
    <3> HIDE DEF y, z, v
    <3>3. i \in 1 .. Len(t) /\ Len(s) + i = v + k
      BY <1>1, <1>2, <2>2, <3>1
    <3>4. w[Len(s) + i] = t[i]
      BY <1>1, <3>3
    <3> QED BY <3>2, <3>3, <3>4 DEF v
  <2>10. \A a, c : Cut(Len(w), a, c) => a = n /\ c = r
    BY <1>1, <2>2 DEF Cut
  <2> HIDE DEF n
  <2> QED BY <1>1, <1>3, <2>3, <2>8, <2>9, <2>10 DEF Absorbed
<1>7. ASSUME ~(Len(t) >= Block - index)
      PROVE  u \in Streams /\ Absorbed(u, w)
  <2>1. /\ u \in Streams /\ u.count = m.count + Len(t) /\ u.state = m.state
        /\ \A k \in 1 .. index : u.buffer[k] = m.buffer[k]
        /\ \A k \in index + 1 .. index + Len(t) : u.buffer[k] = t[k - index]
    <3>1. Stays(m, t, q, index)
      BY <1>3, <1>7 DEF Stays
    <3>2. Stayed(u, m, t, index)
      BY <3>1, UpdateLess
    <3> QED BY <3>2 DEF Stayed
  <2> HIDE DEF u, w
  <2>2. Cut(Len(w), q, index + Len(t))
    BY <1>0, <1>1, <1>7, SizesLess
  <2>3. Whole(u.state, w, q)
    BY <1>3, <1>4, <2>1 DEF Whole
  <2>4. Left(u.buffer, w, q, index + Len(t))
    <3> SUFFICES ASSUME NEW k \in 1 .. index + Len(t) PROVE u.buffer[k] = w[q * Block + k]
      BY DEF Left
    <3>1. CASE k <= index
      <4>1. k \in 1 .. index
        BY <1>2, <3>1
      <4> QED BY <1>5, <2>1, <4>1
    <3>2. CASE ~(k <= index)
      <4> DEFINE y == q * Block  i == k - index
      <4>1. y \in Nat /\ Len(s) = y + index
        BY <1>2
      <4> HIDE DEF y
      <4>2. i \in 1 .. Len(t) /\ Len(s) + i = y + k /\ k \in index + 1 .. index + Len(t)
        BY <1>1, <1>2, <3>2, <4>1
      <4>3. w[Len(s) + i] = t[i] /\ u.buffer[k] = t[i]
        BY <1>1, <2>1, <4>2
      <4> QED BY <4>2, <4>3 DEF y
    <3> QED BY <3>1, <3>2
  <2>5. \A a, c : Cut(Len(w), a, c) => a = q /\ c = index + Len(t)
    BY <2>2 DEF Cut
  <2> QED BY <1>1, <1>3, <2>1, <2>3, <2>4, <2>5 DEF Absorbed
<1> QED BY <1>6, <1>7 DEF u, w

LEMMA UpdateType ==
    ASSUME NEW m \in Streams, NEW t \in Seq(Int)
    PROVE  Update(m, t) \in Streams
<1> DEFINE q == m.count \div Block  index == m.count % Block
           e == (Len(t) - (Block - index)) \div Block  r == (Len(t) - (Block - index)) % Block
<1>1. Cut(m.count, q, index) /\ Cut(Len(t) - (Block - index), e, r)
  BY DEF Cut
<1> HIDE DEF q, index, e, r
<1>2. CASE Len(t) >= Block - index
  <2>1. Reaches(m, t, q, index, e, r)
    BY <1>1, <1>2 DEF Reaches
  <2> QED BY <2>1, UpdateMore DEF Reached
<1>3. CASE ~(Len(t) >= Block - index)
  <2>1. Stays(m, t, q, index)
    BY <1>1, <1>3 DEF Stays
  <2> QED BY <2>1, UpdateLess DEF Stayed
<1> QED BY <1>2, <1>3

-----------------------------------------------------------------------------
(***************************************************************************)
(* A digest.                                                               *)
(***************************************************************************)
Padding(count) == [i \in 1 .. PadLength(count) |-> PadByte(i)]
Lengths(count) == [i \in 1 .. LengthField |-> LengthByte(count)]
Input(n) == [k \in 1 .. n |-> k]

LEMMA PadSizes ==
    ASSUME NEW count \in Nat, NEW q, NEW index, Cut(count, q, index)
    PROVE  /\ PadLength(count) \in Nat /\ LengthField \in Nat /\ 0 < LengthField /\ LengthField < Block
           /\ index < Block - LengthField => PadLength(count) = Block - LengthField - index
<1>1. Block \in Nat /\ index \in Nat /\ index < Block
  BY CutOf
<1>2. LengthField \in Nat /\ 0 < LengthField /\ LengthField < Block
  BY Md5Assumption
<1>3. PadLength(count) = IF index < Block - LengthField THEN Block - LengthField - index
                         ELSE 2 * Block - LengthField - index
  BY DEF PadLength, Cut
<1> QED BY <1>1, <1>2, <1>3

LEMMA PadTypes ==
    ASSUME NEW count \in Nat
    PROVE  /\ Padding(count) \in Seq(Int) /\ Len(Padding(count)) = PadLength(count)
           /\ Lengths(count) \in Seq(Int) /\ Len(Lengths(count)) = LengthField
           /\ Input(count) \in Seq(Int) /\ Len(Input(count)) = count
<1>1. PadLength(count) \in Nat /\ LengthField \in Nat
  BY PadSizes DEF Cut
<1>2. (\A i \in Nat : PadByte(i) \in Int) /\ LengthByte(count) \in Int
  BY DEF PadByte, LengthByte
<1> QED BY <1>1, <1>2 DEF Padding, Lengths, Input

LEMMA InputOn ==
    ASSUME NEW n \in Nat, NEW l \in Nat
    PROVE  Bytes(n, l) \in Seq(Int) /\ Input(n) \o Bytes(n, l) = Input(n + l)
<1>1. Bytes(n, l) \in Seq(Int) /\ Len(Bytes(n, l)) = l
  BY DEF Bytes
<1>2. Input(n) \in Seq(Int) /\ Len(Input(n)) = n /\ Input(n + l) \in Seq(Int) /\ Len(Input(n + l)) = n + l
  BY PadTypes
<1> DEFINE a == Input(n)  b == Bytes(n, l)  w == a \o b
<1>3. /\ w \in Seq(Int) /\ Len(w) = n + l
      /\ \A i \in 1 .. n : w[i] = Input(n)[i]
      /\ \A i \in 1 .. l : w[n + i] = Bytes(n, l)[i]
  <2>1. a \in Seq(Int) /\ b \in Seq(Int) /\ Len(a) = n /\ Len(b) = l
    BY <1>1, <1>2
  <2> HIDE DEF a, b
  <2>2. /\ w \in Seq(Int) /\ Len(w) = n + l
        /\ \A i \in 1 .. n : w[i] = a[i]
        /\ \A i \in 1 .. l : w[n + i] = b[i]
    BY <2>1, JoinedAt
  <2> QED BY <2>2 DEF a, b
<1> HIDE DEF w
<1>4. ASSUME NEW i \in 1 .. n + l PROVE w[i] = Input(n + l)[i]
  <2>1. CASE i <= n
    BY <1>3, <2>1 DEF Input
  <2>2. CASE ~(i <= n)
    <3>1. i - n \in 1 .. l /\ n + (i - n) = i
      BY <2>2
    <3>2. w[n + (i - n)] = Bytes(n, l)[i - n] /\ Bytes(n, l)[i - n] = n + (i - n)
      BY <1>3, <3>1 DEF Bytes
    <3>3. Input(n + l)[i] = i
      BY DEF Input
    <3> QED BY <3>1, <3>2, <3>3
  <2> QED BY <2>1, <2>2
<1>5. w = Input(n + l)
  BY <1>2, <1>3, <1>4, SeqEqual
<1> QED BY <1>1, <1>5 DEF w, a, b

\* The blocks that were taken in of s are s, cut into blocks.
LEMMA WholeIs ==
    ASSUME NEW s \in Seq(Int), NEW state \in Blocks, Whole(state, s, Len(s) \div Block)
    PROVE  state = [b \in 1 .. Len(s) \div Block |-> SubSeq(s, (b - 1) * Block + 1, b * Block)]
<1> DEFINE q == Len(s) \div Block  r == Len(s) % Block
<1>1. Cut(Len(s), q, r) /\ Len(s) \in Nat
  BY DEF Cut
<1>2. Whole(state, s, q)
  OBVIOUS
<1> HIDE DEF q, r
<1>3. Block \in Nat /\ q \in Nat /\ r \in Nat /\ q * Block \in Nat /\ Len(s) = q * Block + r
  BY <1>1, CutOf
<1>4. ASSUME NEW b \in 1 .. q
      PROVE  state[b] = SubSeq(s, (b - 1) * Block + 1, b * Block)
  <2> DEFINE f == (b - 1) * Block  p == SubSeq(s, f + 1, f + Block)
  <2>1. b - 1 \in Nat /\ b - 1 < q
    BY <1>3
  <2>2. f \in Nat /\ f + Block <= q * Block /\ f + Block = b * Block
    BY <1>3, <2>1, Product
  <2>3. f + Block <= Len(s)
    <3> DEFINE y == q * Block
    <3>1. y \in Nat /\ Len(s) = y + r /\ f + Block <= y
      BY <1>3, <2>2
    <3> HIDE DEF y, f
    <3> QED BY <1>3, <2>2, <3>1
  <2>4. \A k \in 1 .. Block : state[b][k] = s[f + k]
    BY <1>2 DEF Whole
  <2>5. Len(state[b]) = Block /\ state[b] \in Seq(Int)
    BY <1>2 DEF Whole, Blocks
  <2> HIDE DEF f
  <2>6. p \in Seq(Int) /\ Len(p) = Block /\ \A k \in 1 .. Block : p[k] = s[f + k]
    BY <1>3, <2>2, <2>3, Slice
  <2> HIDE DEF p
  <2> DEFINE v == state[b]
  <2>8. v \in Seq(Int) /\ Len(v) = Block /\ \A k \in 1 .. Block : v[k] = s[f + k]
    BY <2>4, <2>5
  <2> HIDE DEF v
  <2>7. v = p
    BY <2>6, <2>8, SeqEqual
  <2> QED BY <2>2, <2>7 DEF p, f, v
<1>5. state = [b \in 1 .. q |-> state[b]]
  BY <1>2 DEF Whole, Blocks
<1> QED BY <1>4, <1>5 DEF q

\* What digest gives, and what it leaves of m.
LEMMA DigestIs ==
    ASSUME NEW m \in Streams, NEW n \in Nat, Absorbed(m, Input(n))
    PROVE  FinalBlocks(m) = Reference(n)
<1> DEFINE s == Input(n)  p == s \o Padding(n)  w == p \o Lengths(n)
           padded == Update(m, Padding(n))  ended == Update(padded, Lengths(n))
<1>1. s \in Seq(Int) /\ Len(s) = n /\ Padding(n) \in Seq(Int) /\ Lengths(n) \in Seq(Int)
  BY PadTypes
<1>2. m.count = n
  BY <1>1 DEF Absorbed
<1>3. FinalBlocks(m) = ended.state
  BY <1>2 DEF FinalBlocks, Padding, Lengths
<1>4. Reference(n) = [b \in 1 .. Len(w) \div Block |-> SubSeq(w, (b - 1) * Block + 1, b * Block)]
  BY DEF Reference, Input, Padding, Lengths
<1> HIDE DEF s
<1>5. padded \in Streams /\ Absorbed(padded, p) /\ p \in Seq(Int)
  BY <1>1, UpdateAbsorbs DEF s
<1> HIDE DEF p, padded
<1>6. ended \in Streams /\ Absorbed(ended, w) /\ w \in Seq(Int)
  BY <1>1, <1>5, UpdateAbsorbs
<1> HIDE DEF w, ended
<1>7. Cut(Len(w), Len(w) \div Block, Len(w) % Block)
  BY DEF Cut
<1>8. Whole(ended.state, w, Len(w) \div Block) /\ ended.state \in Blocks
  BY <1>6, <1>7 DEF Absorbed, Streams
<1> QED BY <1>3, <1>4, <1>6, <1>8, WholeIs

LEMMA FinalType ==
    ASSUME NEW m \in Streams
    PROVE  /\ FinalBlocks(m) \in Blocks /\ Digest(m).m \in Streams /\ Digest(m).digest = FinalBlocks(m)
           /\ Digest(m).m.state = m.state /\ Digest(m).m.count = m.count
           /\ Digest(m).m.buffer = Update(Update(m, Padding(m.count)), Lengths(m.count)).buffer
<1> DEFINE padded == Update(m, Padding(m.count))  ended == Update(padded, Lengths(m.count))
           left == [ended EXCEPT !.state = m.state, !.count = m.count, !.finished = TRUE]
           final == [left EXCEPT !.finished = FALSE]
<1>1. m.state \in Blocks /\ m.count \in Nat
  BY DEF Streams
<1>2. padded \in Streams
  BY <1>1, PadTypes, UpdateType
<1> HIDE DEF padded
<1>3. ended \in Streams
  BY <1>1, <1>2, PadTypes, UpdateType
<1>4. FinalBlocks(m) = ended.state /\ Final(m) = left
  BY DEF FinalBlocks, Final, Padding, Lengths, padded
<1> HIDE DEF ended
<1>5. left \in Streams /\ left.state = m.state /\ left.count = m.count /\ left.buffer = ended.buffer
  BY <1>1, <1>3 DEF Streams
<1> HIDE DEF left
<1>6. final \in Streams /\ final.state = m.state /\ final.count = m.count /\ final.buffer = ended.buffer
  BY <1>5 DEF Streams
<1>7. Digest(m).m = final /\ Digest(m).digest = FinalBlocks(m)
  BY <1>4 DEF Digest
<1>8. ended.state \in Blocks
  BY <1>3 DEF Streams
<1> HIDE DEF final
<1> QED BY <1>4, <1>6, <1>7, <1>8 DEF ended, padded

\* A digest leaves the bytes of the buffer, when the padding fits into it.
LEMMA DigestLeaves ==
    ASSUME NEW m \in Streams, NEW s \in Seq(Int), Absorbed(m, s),
           NEW q, NEW index, Cut(m.count, q, index), index < Block - LengthField
    PROVE  Absorbed(Digest(m).m, s)
<1> DEFINE pad == Padding(m.count)  len == Lengths(m.count)
           padded == Update(m, pad)  ended == Update(padded, len)  d == Digest(m).m
<1>1. m.count \in Nat /\ m.count = Len(s)
  BY DEF Streams, Absorbed
<1>2. /\ Block \in Nat /\ q \in Nat /\ index \in Nat /\ index < Block
      /\ q * Block \in Nat /\ m.count = q * Block + index
  BY <1>1, CutOf
<1>3. /\ LengthField \in Nat /\ 0 < LengthField /\ LengthField < Block
      /\ PadLength(m.count) = Block - LengthField - index
  BY <1>1, PadSizes
<1>4. /\ pad \in Seq(Int) /\ Len(pad) = Block - LengthField - index
      /\ len \in Seq(Int) /\ Len(len) = LengthField
  BY <1>1, <1>3, PadTypes
<1>5. /\ d.state = m.state /\ d.count = m.count /\ d.buffer = ended.buffer
  BY FinalType
<1> HIDE DEF pad, len, d
<1>6. /\ padded \in Streams /\ padded.count = m.count + Len(pad)
      /\ \A k \in 1 .. index : padded.buffer[k] = m.buffer[k]
  <2>1. ~(Len(pad) >= Block - index)
    BY <1>2, <1>3, <1>4
  <2>2. Stays(m, pad, q, index)
    BY <2>1 DEF Stays
  <2>3. Stayed(padded, m, pad, index)
    BY <1>4, <2>2, UpdateLess
  <2> HIDE DEF padded
  <2> QED BY <2>3 DEF Stayed
<1> HIDE DEF padded
<1> DEFINE i == Block - LengthField
<1>7. i \in Nat /\ i < Block /\ Block - i = LengthField /\ index < i
  BY <1>2, <1>3
<1>8. Cut(padded.count, q, i)
  <2> DEFINE y == q * Block
  <2>1. y \in Nat /\ m.count = y + index
    BY <1>2
  <2> HIDE DEF y, i
  <2>2. padded.count = y + (Block - LengthField)
    BY <1>2, <1>3, <1>4, <1>6, <2>1
  <2> QED BY <1>2, <1>7, <2>2, CutIs DEF y, i
<1>9. Cut(Len(len) - (Block - i), 0, 0)
  <2>1. Len(len) - (Block - i) = 0
    BY <1>3, <1>4, <1>7
  <2>2. 0 \in Nat /\ 0 < Block /\ 0 = 0 * Block + 0
    BY <1>2
  <2> HIDE DEF i
  <2> QED BY <2>1, <2>2, CutIs
<1> HIDE DEF i
<1>10. Reaches(padded, len, q, i, 0, 0)
  <2>1. Len(len) >= Block - i
    BY <1>3, <1>4, <1>7
  <2> QED BY <1>8, <1>9, <2>1 DEF Reaches
<1>11. Reached(ended, padded, len, i, 0, 0)
  BY <1>4, <1>6, <1>10, UpdateMore
<1> HIDE DEF ended
<1>12. \A k \in 1 .. index : ended.buffer[k] = m.buffer[k]
  <2> SUFFICES ASSUME NEW k \in 1 .. index PROVE ended.buffer[k] = m.buffer[k]
    OBVIOUS
  <2>1. k \in 1 .. Block /\ k > 0 /\ k \in 1 .. i
    BY <1>2, <1>7
  <2>2. ended.buffer[k] = ended.state[Len(padded.state) + 1][k]
    BY <1>11, <2>1 DEF Reached
  <2>3. ended.state[Len(padded.state) + 1][k] = padded.buffer[k]
    BY <1>11, <2>1 DEF Reached
  <2> QED BY <1>6, <2>2, <2>3
<1>13. \A a, c : Cut(Len(s), a, c) => a = q /\ c = index
  BY <1>1 DEF Cut
<1>14. Whole(m.state, s, q) /\ Left(m.buffer, s, q, index)
  BY <1>1 DEF Absorbed
<1>15. Left(d.buffer, s, q, index) /\ Whole(d.state, s, q)
  BY <1>5, <1>12, <1>14 DEF Left
<1> QED BY <1>1, <1>5, <1>13, <1>15 DEF Absorbed, d

-----------------------------------------------------------------------------
(***************************************************************************)
(* A script of calls.                                                      *)
(***************************************************************************)
Given1 == [of : Nat, digest : Blocks, cut : BOOLEAN]
Callers == [m : Streams, read : Nat, given : Seq(Given1), cut : BOOLEAN]
Right(g) == g.cut \/ g.digest = Reference(g.of)
Good == {st \in Callers : /\ st.cut \/ Absorbed(st.m, Input(st.read))
                          /\ \A i \in 1 .. Len(st.given) : Right(st.given[i])}

LEMMA CallUpdates ==
    ASSUME NEW st \in Good, NEW call \in Nat, call # DigestCall
    PROVE  Call(st, call) \in Good
<1> DEFINE u == Update(st.m, Bytes(st.read, call))
           new == [st EXCEPT !.m = u, !.read = @ + call]
<1>1. /\ st \in Callers /\ st.m \in Streams /\ st.read \in Nat
      /\ st.cut \/ Absorbed(st.m, Input(st.read))
      /\ \A i \in 1 .. Len(st.given) : Right(st.given[i])
  BY DEF Good, Callers
<1>2. Bytes(st.read, call) \in Seq(Int) /\ Input(st.read) \o Bytes(st.read, call) = Input(st.read + call)
  BY <1>1, InputOn
<1>3. u \in Streams
  BY <1>1, <1>2, UpdateType
<1>4. ASSUME Absorbed(st.m, Input(st.read)) PROVE Absorbed(u, Input(st.read + call))
  <2>1. Input(st.read) \in Seq(Int)
    BY <1>1, PadTypes
  <2>2. Absorbed(u, Input(st.read) \o Bytes(st.read, call))
    BY <1>1, <1>2, <1>4, <2>1, UpdateAbsorbs
  <2> QED BY <1>2, <2>2
<1>5. Call(st, call) = new
  BY DEF Call
<1> HIDE DEF u
<1>6. /\ new \in Callers /\ new.m = u /\ new.read = st.read + call
      /\ new.cut = st.cut /\ new.given = st.given
  <2>1. st.read + call \in Nat
    BY <1>1
  <2> QED BY <1>1, <1>3, <2>1 DEF Callers
<1> HIDE DEF new
<1>7. new.cut \/ Absorbed(new.m, Input(new.read))
  BY <1>1, <1>4, <1>6
<1> QED BY <1>1, <1>5, <1>6, <1>7 DEF Good

LEMMA CallDigests ==
    ASSUME NEW st \in Good
    PROVE  Call(st, DigestCall) \in Good
<1> DEFINE d == Digest(st.m)
           g == [of |-> st.read, digest |-> d.digest, cut |-> st.cut]
           late == st.read % Block >= Block - LengthField
           new == [st EXCEPT !.m = d.m, !.given = Append(@, g), !.cut = @ \/ late]
<1>1. /\ st \in Callers /\ st.m \in Streams /\ st.read \in Nat /\ st.cut \in BOOLEAN
      /\ st.given \in Seq(Given1)
      /\ st.cut \/ Absorbed(st.m, Input(st.read))
      /\ \A i \in 1 .. Len(st.given) : Right(st.given[i])
  BY DEF Good, Callers
<1>2. d.m \in Streams /\ d.digest \in Blocks /\ d.digest = FinalBlocks(st.m)
  BY <1>1, FinalType
<1>3. st.cut \/ d.digest = Reference(st.read)
  BY <1>1, <1>2, DigestIs
<1>4. st.cut \/ late \/ Absorbed(d.m, Input(st.read))
  <2> SUFFICES ASSUME ~st.cut, ~late PROVE Absorbed(d.m, Input(st.read))
    OBVIOUS
  <2> DEFINE q == st.read \div Block  index == st.read % Block
  <2>1. Absorbed(st.m, Input(st.read)) /\ Input(st.read) \in Seq(Int) /\ Len(Input(st.read)) = st.read
    BY <1>1, PadTypes
  <2>2. st.m.count = st.read
    BY <2>1 DEF Absorbed
  <2>3. Cut(st.m.count, q, index)
    BY <2>2 DEF Cut
  <2> HIDE DEF q
  <2>4. index < Block - LengthField
    <3>1. Block \in Nat /\ index \in Nat
      BY <1>1, DivParts
    <3>2. LengthField \in Nat /\ ~(index >= Block - LengthField)
      BY Md5Assumption
    <3> HIDE DEF index
    <3> QED BY <3>1, <3>2
  <2> HIDE DEF index
  <2> QED BY <1>1, <2>1, <2>3, <2>4, DigestLeaves
<1>5. Call(st, DigestCall) = new
  BY DEF Call
<1> HIDE DEF d
<1>6. g \in Given1
  BY <1>1, <1>2 DEF Given1
<1>7. g.of = st.read /\ g.digest = d.digest /\ g.cut = st.cut
  OBVIOUS
<1>8. Right(g)
  BY <1>3, <1>7 DEF Right
<1> HIDE DEF g, late
<1>9. /\ Append(st.given, g) \in Seq(Given1) /\ Len(Append(st.given, g)) = Len(st.given) + 1
      /\ \A i \in 1 .. Len(st.given) + 1 :
           Append(st.given, g)[i] = IF i \in 1 .. Len(st.given) THEN st.given[i] ELSE g
  BY <1>1, <1>6
<1>10. \A i \in 1 .. Len(Append(st.given, g)) : Right(Append(st.given, g)[i])
  BY <1>1, <1>8, <1>9
<1> DEFINE more == Append(st.given, g)  cut == st.cut \/ late
<1>11. more \in Seq(Given1) /\ cut \in BOOLEAN /\ \A i \in 1 .. Len(more) : Right(more[i])
  BY <1>9, <1>10
<1>12. cut \/ Absorbed(d.m, Input(st.read))
  BY <1>4
<1>13. new = [st EXCEPT !.m = d.m, !.given = more, !.cut = cut]
  OBVIOUS
<1> HIDE DEF more, cut, new
<1>14. /\ new \in Callers /\ new.m = d.m /\ new.read = st.read /\ new.cut = cut /\ new.given = more
  BY <1>1, <1>2, <1>11, <1>13 DEF Callers
<1> QED BY <1>5, <1>11, <1>12, <1>14 DEF Good

LEMMA CallType ==
    ASSUME NEW st \in Good, NEW call \in Nat
    PROVE  Call(st, call) \in Good
<1>1. CASE call = DigestCall
  BY <1>1, CallDigests
<1>2. CASE call # DigestCall
  BY <1>2, CallUpdates
<1> QED BY <1>1, <1>2

FirstCall == [m |-> Fresh, read |-> 0, given |-> <<>>, cut |-> FALSE]

LEMMA FirstCallType == FirstCall \in Good
<1> DEFINE no == FALSE
           m == [state |-> <<>>, count |-> 0, buffer |-> [k \in 1 .. Block |-> Unset], finished |-> no]
           st == [m |-> m, read |-> 0, given |-> <<>>, cut |-> no]
<1>1. FirstCall = st /\ Unset \in Int
  BY DEF FirstCall, Fresh, Unset
<1>2. no \in BOOLEAN
  OBVIOUS
<1> HIDE DEF no
<1>3. [k \in 1 .. Block |-> Unset] \in Buffers
  BY <1>1 DEF Buffers
<1>4. <<>> \in Blocks /\ Len(<<>>) = 0
  BY DEF Blocks
<1>5. m \in Streams /\ m.count = 0 /\ m.state = <<>>
  BY <1>2, <1>3, <1>4 DEF Streams
<1> HIDE DEF m
<1>6. st \in Callers /\ st.m = m /\ st.read = 0 /\ st.given = <<>>
  BY <1>2, <1>5 DEF Callers
<1> HIDE DEF st
<1>7. Absorbed(m, Input(0))
  <2>1. Input(0) \in Seq(Int) /\ Len(Input(0)) = 0
    BY PadTypes
  <2>2. Cut(0, 0, 0)
    <3>1. Block \in Nat /\ 0 < Block /\ 0 = 0 * Block + 0
      BY Md5Assumption
    <3> QED BY <3>1, CutIs
  <2>3. \A q, r : Cut(0, q, r) => q = 0 /\ r = 0
    BY <2>2 DEF Cut
  <2>4. Whole(m.state, Input(0), 0) /\ Left(m.buffer, Input(0), 0, 0)
    BY <1>4, <1>5 DEF Whole, Left
  <2> QED BY <1>5, <2>1, <2>3, <2>4 DEF Absorbed
<1> QED BY <1>1, <1>6, <1>7 DEF Good

\* The calls one by one.
LEMMA CallFold ==
    ASSUME NEW calls \in Seq(Nat)
    PROVE  \E f \in [0 .. Len(calls) -> Good] :
              /\ f[0] = FirstCall
              /\ \A i \in 1 .. Len(calls) : f[i] = Call(f[i - 1], calls[i])
              /\ RunCalls(calls) = f[Len(calls)]
<1> DEFINE n == Len(calls)
           F == [p \in Good \X (1 .. n) |-> Call(p[1], calls[p[2]])]
           Iter(g) == g = [s \in SUBSET (1 .. n) |->
                             IF s = {} THEN FirstCall ELSE Call(g[s \ {Max(s)}], calls[Max(s)])]
           it == CHOOSE g : Iter(g)
           f == [i \in 0 .. n |-> it[1 .. i]]
<1>0. n \in Nat
  OBVIOUS
<1>1. n \in Nat /\ (\A i \in 1 .. n : calls[i] \in Nat) /\ DOMAIN calls = 1 .. n
  OBVIOUS
<1>2. RunCalls(calls) = it[1 .. n]
  BY <1>1 DEF FoldLeft, MapThenFoldSet, RunCalls, FirstCall
<1>3. FirstCall \in Good
  BY FirstCallType
<1>4. \A x \in Good, i \in 1 .. n :
         F[<<x, i>>] = Call(x, calls[i]) /\ F[<<x, i>>] \in Good
  BY <1>1, CallType
<1> HIDE DEF n, F, it, f
<1>5. PICK g : Folded(g, F, FirstCall, Good, n)
  BY <1>1, <1>3, <1>4, FoldSteps DEF Keeps
<1>6. Iter(g)
  <2>1. \A s \in SUBSET (1 .. n) : s # {} => g[s] = Call(g[s \ {Max(s)}], calls[Max(s)])
    BY <1>4, <1>5 DEF Folded
  <2> QED BY <1>5, <2>1 DEF Folded
<1>7. Iter(it)
  BY <1>6 DEF it
<1>8. it[1 .. 0] = FirstCall /\ \A i \in 1 .. n : it[1 .. i] = Call(it[1 .. i - 1], calls[i])
  <2>1. \A s \in SUBSET (1 .. n) :
           it[s] = IF s = {} THEN FirstCall ELSE Call(it[s \ {Max(s)}], calls[Max(s)])
    BY <1>7
  <2> HIDE DEF Iter
  <2>2. ASSUME NEW i \in 1 .. n PROVE it[1 .. i] = Call(it[1 .. i - 1], calls[i])
    <3>1. Max(1 .. i) = i /\ (1 .. i) \ {i} = 1 .. i - 1
      BY <1>1, GreatestUpTo
    <3>2. 1 .. i \in SUBSET (1 .. n) /\ 1 .. i # {}
      <4>1. 1 \in 1 .. i /\ \A j \in 1 .. i : j \in 1 .. n
        BY <1>0
      <4> QED BY <4>1
    <3> QED BY <2>1, <3>1, <3>2
  <2>3. {} \in SUBSET (1 .. n) /\ 1 .. 0 = {}
    OBVIOUS
  <2> QED BY <2>1, <2>2, <2>3
<1>9. f[0] = FirstCall /\ \A i \in 1 .. n : f[i] = Call(f[i - 1], calls[i])
  BY <1>1, <1>8 DEF f
<1>10. f \in [0 .. n -> Good]
  <2> DEFINE G == {i \in 0 .. n : f[i] \in Good}
  <2>1. 0 \in G
    BY <1>1, <1>3, <1>9
  <2>2. \A i \in 1 .. n : i - 1 \in G => i \in G
    BY <1>1, <1>9, CallType
  <2>3. \A i \in 0 .. n : i \in G
    BY <1>1, <2>1, <2>2, Upward
  <2> QED BY <2>3 DEF f
<1>11. RunCalls(calls) = f[n]
  BY <1>1, <1>2 DEF f
<1> QED BY <1>9, <1>10, <1>11 DEF n

\* Every digest is of all the bytes given so far, but for those after one that
\* was asked when the padding took a block of its own.
LEMMA DigestsAreRight ==
    ASSUME NEW calls \in Seq(Nat)
    PROVE  LET given == RunCalls(calls).given IN
           \A i \in DOMAIN given : given[i].cut \/ given[i].digest = Reference(given[i].of)
<1>1. RunCalls(calls) \in Good
  <2>1. PICK f \in [0 .. Len(calls) -> Good] : RunCalls(calls) = f[Len(calls)]
    BY CallFold
  <2>2. Len(calls) \in 0 .. Len(calls)
    OBVIOUS
  <2> QED BY <2>1, <2>2
<1> DEFINE st == RunCalls(calls)
<1>2. st.given \in Seq(Given1) /\ \A i \in 1 .. Len(st.given) : Right(st.given[i])
  BY <1>1 DEF Good, Callers
<1>3. DOMAIN st.given = 1 .. Len(st.given)
  BY <1>2
<1> QED BY <1>2, <1>3 DEF Right

-----------------------------------------------------------------------------
(***************************************************************************)
(* Conversions.  A behaviour is one job and its answer, so all there is to *)
(* keep is that an answer is the answer to the job.                        *)
(***************************************************************************)
ConvertInv == job \in Jobs /\ (answer = <<>> \/ answer = <<AnswerTo(job)>>)

LEMMA ConvertInvariant == ConvertSpec => []ConvertInv
<1>1. ConvertInit => ConvertInv
  BY DEF ConvertInit, ConvertInv
<1>2. ConvertInv /\ [Convert]_jobVars => ConvertInv'
  <2> SUFFICES ASSUME ConvertInv, [Convert]_jobVars PROVE ConvertInv'
    OBVIOUS
  <2>1. CASE Convert
    <3>1. job' = job /\ answer' = <<AnswerTo(job)>> /\ job \in Jobs
      BY <2>1 DEF Convert, ConvertInv
    <3>2. <<AnswerTo(job)>> = <<AnswerTo(job')>>
      BY <3>1
    <3> QED BY <3>1, <3>2 DEF ConvertInv
  <2>2. CASE UNCHANGED jobVars
    <3>1. job' = job /\ answer' = answer
      BY <2>2 DEF jobVars
    <3> QED BY <3>1 DEF ConvertInv
  <2> QED BY <2>1, <2>2
<1> QED BY <1>1, <1>2, PTL DEF ConvertSpec

\* What a job of each kind holds, and what answers it.
LEMMA ArgumentsJob ==
    ASSUME NEW j \in Jobs, j.kind = "arguments"
    PROVE  /\ j.exe \in Text /\ j.args \in Texts
           /\ AnswerTo(j) = SplitCommandLine(BuildCommandLine(j.exe, j.args))
BY DEF Jobs, AnswerTo, Text, Texts

LEMMA Md5Job ==
    ASSUME NEW j \in Jobs, j.kind = "md5"
    PROVE  j.calls \in Seq(Nat) /\ AnswerTo(j) = RunCalls(j.calls).given
BY DEF Jobs, AnswerTo

LEMMA Base64Job ==
    ASSUME NEW j \in Jobs, j.kind = "base64"
    PROVE  j.bytes \in Seq(Byte) /\ AnswerTo(j) = Base64Decode(Base64Encode(j.bytes))
BY DEF Jobs, AnswerTo

LEMMA AudioJob ==
    ASSUME NEW j \in Jobs, j.kind = "audio"
    PROVE  /\ j.seq \in Word32 /\ j.timestamp \in Word32 /\ j.payload \in Bytes8
           /\ AnswerTo(j) = ParseAudioPacket(BuildAudioPacket(j.seq, j.timestamp, j.payload))
BY DEF Jobs, AnswerTo, Bytes8

LEMMA CtrlJob ==
    ASSUME NEW j \in Jobs, j.kind = "ctrl"
    PROVE  /\ j.subtype \in Kinds /\ j.a \in Bytes8 /\ j.b \in Bytes8
           /\ AnswerTo(j) = ParseCtrl(ControlPacket(j))
BY DEF Jobs, AnswerTo, Bytes8, Kinds

LEMMA StatusJob ==
    ASSUME NEW j \in Jobs, j.kind = "status"
    PROVE  /\ j.idx \in Word32 /\ j.received \in Word16 /\ j.lost \in Word16
           /\ AnswerTo(j) = ParseFrameStatus(BuildFrameStatus(j.idx, j.received, j.lost))
BY DEF Jobs, AnswerTo

LEMMA ReplyIs == ConvertInv /\ answer # <<>> => job \in Jobs /\ Reply = AnswerTo(job)
BY DEF ConvertInv, Reply

\* A program that is started gets the name and the arguments it was meant to
\* get, whatever characters are in them, but for the empty ones
\* (process_util.cpp:24-59).
THEOREM ArgumentsAreKept == ConvertSpec => []ArgumentsArrive
<1>1. ConvertInv => ArgumentsArrive
  <2> SUFFICES ASSUME ConvertInv, job.kind = "arguments", answer # <<>>
               PROVE  Reply = Arriving(job.exe, job.args)
    BY DEF ArgumentsArrive, Answered
  <2> QED BY ReplyIs, ArgumentsJob, LineArrives
<1> QED BY <1>1, ConvertInvariant, PTL

\* A digest is of all the bytes given so far, in whatever pieces, and however
\* often it was asked before, unless one was asked when the padding took a block
\* of its own (gd_md5.cpp:92-99, 152-219).
THEOREM DigestsAreOfAllBytes == ConvertSpec => []DigestOfAllBytes
<1>1. ConvertInv => DigestOfAllBytes
  <2> SUFFICES ASSUME ConvertInv, job.kind = "md5", answer # <<>>,
                      NEW i \in DOMAIN Reply
               PROVE  Reply[i].cut \/ Reply[i].digest = Reference(Reply[i].of)
    BY DEF DigestOfAllBytes, Answered
  <2>1. job.calls \in Seq(Nat) /\ Reply = RunCalls(job.calls).given
    BY ReplyIs, Md5Job
  <2> QED BY <2>1, DigestsAreRight
<1> QED BY <1>1, ConvertInvariant, PTL

\* An empty or too long audio packet is not made, and nothing is read of it.
LEMMA AudioRefused ==
    ASSUME NEW seq, NEW timestamp, NEW payload, payload = <<>> \/ Len(payload) > 65535
    PROVE  ParseAudioPacket(BuildAudioPacket(seq, timestamp, payload)) = Refused
<1>1. BuildAudioPacket(seq, timestamp, payload) = <<>>
  BY DEF BuildAudioPacket
<1>2. Len(<<>>) < kCommonHeaderSize
  BY DEF kCommonHeaderSize
<1>3. ParseCommon(<<>>) = 0
  BY <1>2 DEF ParseCommon
<1>4. ParseCommon(<<>>) # kPktAudio
  BY <1>3 DEF kPktAudio
<1>5. ParseAudioPacket(<<>>) = Refused
  BY <1>4 DEF ParseAudioPacket
<1> QED BY <1>1, <1>5

\* An audio, control or status packet is read as what it was made of, if it fits
\* the width of its length, an empty or too long audio packet is not made, and
\* bytes written in base64 are read as they were
\* (gr_udp_protocol.h:287-437, base64_impl.hpp).
THEOREM WhatIsWrittenIsRead == ConvertSpec => []WrittenIsRead
<1>1. ASSUME ConvertInv, answer # <<>>, job.kind = "base64"
      PROVE  Reply = job.bytes
  BY <1>1, ReplyIs, Base64Job, Base64IsRead
<1>2. ASSUME ConvertInv, answer # <<>>, job.kind = "audio"
      PROVE  IF job.payload = <<>> \/ Len(job.payload) > 65535 THEN Reply = Refused
             ELSE Reply = [ok |-> TRUE, seq |-> job.seq, timestamp |-> job.timestamp,
                           payload |-> job.payload]
  <2>1. /\ job.seq \in Word32 /\ job.timestamp \in Word32 /\ job.payload \in Bytes8
        /\ Reply = ParseAudioPacket(BuildAudioPacket(job.seq, job.timestamp, job.payload))
    BY <1>2, ReplyIs, AudioJob
  <2>2. CASE job.payload = <<>> \/ Len(job.payload) > 65535
    BY <2>1, <2>2, AudioRefused
  <2>3. CASE ~(job.payload = <<>> \/ Len(job.payload) > 65535)
    <3>1. Len(job.payload) \in Nat
      BY <2>1, JoinedBytes
    <3>2. Len(job.payload) \in Word16
      BY <2>3, <3>1, SMT DEF Word16
    <3>3. job.payload # <<>>
      BY <2>3
    <3>4. Reply = [ok |-> TRUE, seq |-> job.seq, timestamp |-> job.timestamp,
                   payload |-> job.payload]
      BY <2>1, <3>2, <3>3, AudioIsRead
    <3> QED BY <2>3, <3>4
  <2> QED BY <2>2, <2>3
<1>3. ASSUME ConvertInv, answer # <<>>, job.kind = "ctrl",
             Len(job.a) <= 255, Len(job.b) <= 255
      PROVE  Reply = [ok |-> TRUE, subtype |-> job.subtype,
                      strings |-> IF job.subtype \in OneString THEN <<job.a>>
                                  ELSE <<job.a, job.b>>]
  <2>1. /\ job.subtype \in Kinds /\ job.a \in Bytes8 /\ job.b \in Bytes8
        /\ Reply = ParseCtrl(ControlPacket(job))
    BY <1>3, ReplyIs, CtrlJob
  <2>2. ControlPacket(job) = IF job.subtype \in OneString THEN BuildCtrlString1(job.subtype, job.a)
                             ELSE BuildCtrlString2(job.subtype, job.a, job.b)
    BY DEF ControlPacket
  <2> QED BY <1>3, <2>1, <2>2, CtrlIsRead
<1>4. ASSUME ConvertInv, answer # <<>>, job.kind = "status"
      PROVE  Reply = [ok |-> TRUE, idx |-> job.idx, received |-> job.received, lost |-> job.lost]
  BY <1>4, ReplyIs, StatusJob, StatusIsRead
<1>5. ConvertInv => WrittenIsRead
  <2> SUFFICES ASSUME ConvertInv PROVE WrittenIsRead
    OBVIOUS
  <2>1. Answered("base64") => Reply = job.bytes
    BY <1>1 DEF Answered
  <2>2. Answered("audio") =>
            IF job.payload = <<>> \/ Len(job.payload) > 65535 THEN Reply = Refused
            ELSE Reply = [ok |-> TRUE, seq |-> job.seq, timestamp |-> job.timestamp,
                          payload |-> job.payload]
    BY <1>2 DEF Answered
  <2>3. Answered("ctrl") /\ Len(job.a) <= 255 /\ Len(job.b) <= 255 =>
            Reply = [ok |-> TRUE, subtype |-> job.subtype,
                     strings |-> IF job.subtype \in OneString THEN <<job.a>>
                                 ELSE <<job.a, job.b>>]
    BY <1>3, Zenon DEF Answered
  <2>4. Answered("status") =>
            Reply = [ok |-> TRUE, idx |-> job.idx, received |-> job.received, lost |-> job.lost]
    BY <1>4 DEF Answered
  <2> QED BY <2>1, <2>2, <2>3, <2>4 DEF WrittenIsRead
<1> QED BY <1>5, ConvertInvariant, PTL
=============================================================================
