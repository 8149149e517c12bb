---------------------------- MODULE EngineResults ----------------------------
(***************************************************************************)
(* What a check finds, for every value of the constants that meets a named *)
(* condition: the paths it lists are on the disk, and the common folders   *)
(* and the registry have been searched when it says so.  The conditions    *)
(* rule out what the code gets wrong.  All of it is about one check.       *)
(***************************************************************************)
EXTENDS EngineLog

\* No drive passes the test of thread 1, so that thread 0 alone sets the current
\* directory.
OneSearcher == \A j \in 0..nd - 1 : ~DriveSearched(j)

\* The names the definitions have, and that none of them begins another.
DefNames == {f \in Files : \E n \in 1..Len(Defs) : \E k \in 1..Len(Defs[n]) :
                             Defs[n][k] = f}
NamesApart == \A f, g \in DefNames : <<f, g>> \in Prefix => f = g

USE DEF guiVars, indexVars, eventVars, lockVars, syncVars, dataVars, msgVars,
        loopVars, valueVars, dectVars, vars, Goto, Step, Acquire, WaitDects,
        mhThread

-----------------------------------------------------------------------------
(* Paths that exist. *)

\* From FindFirstFile to the push the directory is the one that was searched.
ExistInv ==
  /\ ListedExists
  /\ \A t \in Threads :
       /\ pc[t] \in Searching => th[t] = 0
       /\ pc[t] \in Searching \ {"find"} => <<cwd, File(t)>> \in Disk
       /\ pc[t] \in Searching \ {"find", "fullpath"} =>
            found[t] = <<cwd, File(t)>>

\* The roles of the threads while there is one check.
LEMMA OneCheck ==
  ASSUME TypeInv, HandoverInv, checks <= 1
  PROVE  /\ \A t \in Threads : Dispatched(t) => th[t] = t - 1
         /\ \A t \in Threads : pc[t] # "reset"
         /\ \A t \in Threads : pc[t] # "off" => t \in {1, 2, 3}
  BY ThreeThreads DEF HandoverInv, RoleInv

\* The types these proofs use.
LEMMA ThreadsTyped ==
  ASSUME TypeInv
  PROVE  /\ pc \in [Threads -> Points] /\ th \in [Threads -> Nat]
         /\ outer \in [Threads -> Nat] /\ inner \in [Threads -> Nat]
         /\ bound \in [Threads -> Nat] /\ locth \in [Threads -> Nat]
         /\ found \in [Threads -> Paths \cup {NoPath}]
         /\ someExist \in [Threads -> BOOLEAN]
         /\ files \in Seq(Files) /\ Len(files) \in Nat
         /\ regVector \in Seq(RegKeys) /\ Len(regVector) \in Nat
         /\ 1 \in Threads /\ 2 \in Threads /\ 3 \in Threads
<1>1. files \in Seq(Files) /\ regVector \in Seq(RegKeys)
  BY DEF TypeInv, TypeOK
<1> QED BY <1>1, CountTyped, LenProperties DEF TypeInv, TypeOK

\* A definition is a list of names.
LEMMA FilledTyped ==
  ASSUME TypeInv, NEW t \in Threads, FillFiles(t)
  PROVE  /\ outer[t] + 1 \in 1..Len(Defs)
         /\ Defs[outer[t] + 1] \in Seq(Files)
<1>1. outer[t] \in Nat /\ outer[t] < Len(Defs)
  BY DEF TypeInv, TypeOK, FillFiles
<1>2. outer[t] + 1 \in 1..Len(Defs)
  BY <1>1, ConstantsTyped
<1> QED BY <1>2, ConstantsTyped, ElementOfSeq

\* A drive that is searched passes the test.
LEMMA NoDriveSearched ==
  ASSUME TypeInv, OneSearcher, NEW t \in Threads, ChangeDir(t)
  PROVE  th[t] = 0
<1>1. outer[t] \in Nat /\ outer[t] < Blocks(t) /\ th[t] \in 0..1
  BY DEF TypeInv, TypeOK, Loops, LoopsOf, ChangeDir
<1>2. ASSUME th[t] = 1 PROVE FALSE
  <2>1. DriveSearched(outer[t] % nd) /\ outer[t] < Len(Defs) * nd
    BY <1>1, <1>2 DEF ChangeDir, Blocks
  <2>2. outer[t] % nd \in 0..nd - 1
    BY <1>1, <2>1, ConstantsTyped, DivBound
  <2> QED BY <2>1, <2>2 DEF OneSearcher
<1> QED BY <1>1, <1>2

\* A step that leaves the directory, the list and the threads on their way to it
\* alone.
LEMMA ExistFrame ==
  ASSUME TypeInv, ExistInv, UNCHANGED <<cwd, Filepaths>>,
         files' = files \/ \E s \in Seq(Files) : files' = files \o s,
         \A u \in Threads :
           pc'[u] \in Searching =>
             /\ pc[u] \in Searching /\ th'[u] = th[u]
             /\ pc'[u] # "find" =>
                  /\ pc[u] # "find" /\ outer'[u] = outer[u]
                  /\ inner'[u] = inner[u] /\ bound'[u] = bound[u]
             /\ pc'[u] \notin {"find", "fullpath"} =>
                  pc[u] # "fullpath" /\ found'[u] = found[u]
  PROVE  ExistInv'
<1>1. ListedExists'
  BY DEF ExistInv, ListedExists
<1>2. ASSUME NEW u \in Threads, pc'[u] \in Searching
      PROVE  /\ th'[u] = 0
             /\ pc'[u] # "find" => <<cwd', File(u)'>> \in Disk
             /\ pc'[u] \notin {"find", "fullpath"} => found'[u] = <<cwd', File(u)'>>
  <2>1. CASE pc'[u] = "find"
    BY <1>2, <2>1 DEF ExistInv
  <2>2. CASE pc'[u] # "find"
    <3>1. File(u)' = File(u)
      BY <1>2, <2>2, FileStays
    <3> QED BY <1>2, <2>2, <3>1 DEF ExistInv
  <2> QED BY <2>1, <2>2
<1> QED BY <1>1, <1>2 DEF ExistInv

\* The push: what is added exists.
LEMMA ExistPush ==
  ASSUME TypeInv, ExistInv, NEW t \in Threads, AddFilePush(t)
  PROVE  ExistInv'
<1>1. /\ pc[t] = "push" /\ pc' = [pc EXCEPT ![t] = "notify"]
      /\ Filepaths' = Append(Filepaths, found[t])
      /\ UNCHANGED <<cwd, files, th, outer, inner, bound, found>>
  BY DEF AddFilePush, PushFile
<1>2. Filepaths \in Seq(Paths) /\ found[t] \in Paths /\ found[t] \in Disk
  BY <1>1 DEF ExistInv, TypeInv, TypeOK, DectTypeOK, Loops, LoopsOf, Searching
<1>3. /\ Len(Filepaths') = Len(Filepaths) + 1 /\ Len(Filepaths) \in Nat
      /\ \A i \in 1..Len(Filepaths) : Filepaths'[i] = Filepaths[i]
      /\ Filepaths'[Len(Filepaths) + 1] = found[t]
  BY <1>1, <1>2, AppendProperties, LenProperties
<1>4. ListedExists'
  <2> SUFFICES ASSUME NEW i \in 1..Len(Filepaths') PROVE Filepaths'[i] \in Disk
    BY DEF ListedExists
  <2>1. i \in 1..Len(Filepaths) \/ i = Len(Filepaths) + 1
    BY <1>3
  <2>2. CASE i \in 1..Len(Filepaths)
    BY <1>3, <2>2 DEF ExistInv, ListedExists
  <2>3. CASE i = Len(Filepaths) + 1
    BY <1>2, <1>3, <2>3
  <2> QED BY <2>1, <2>2, <2>3
<1>5. \A u \in Threads : File(u)' = File(u)
  BY <1>1 DEF File, BlockFiles
<1>6. /\ \A u \in Threads : u # t => pc'[u] = pc[u]
      /\ pc'[t] = "notify"
  BY <1>1, ThreadsTyped
<1> QED BY <1>1, <1>4, <1>5, <1>6 DEF ExistInv, Searching

\* The directory is set by the thread that searches the folders.
LEMMA ExistChangeDir ==
  ASSUME TypeInv, HandoverInv, checks <= 1, OneSearcher, ExistInv,
         NEW t \in Threads, ChangeDir(t)
  PROVE  ExistInv'
<1>1. /\ pc[t] = "chdir" /\ pc' = [pc EXCEPT ![t] = "find"]
      /\ UNCHANGED <<Filepaths, th>>
  BY DEF ChangeDir
<1>2. th[t] = 0
  BY NoDriveSearched
<1>3. ASSUME NEW u \in Threads, pc[u] \in Searching PROVE FALSE
  <2>1. Dispatched(t) /\ Dispatched(u) /\ th[u] = 0
    BY <1>1, <1>3 DEF Dispatched, Searching, ExistInv
  <2>2. t = u
    BY <1>2, <2>1, OneCheck, CountTyped
  <2> QED BY <1>1, <1>3, <2>2 DEF Searching
<1>4. \A u \in Threads : pc'[u] \in Searching => u = t /\ pc'[u] = "find"
  BY <1>1, <1>3, ThreadsTyped
<1> QED BY <1>1, <1>2, <1>4 DEF ExistInv, ListedExists

\* FindFirstFile and GetFullPathName look in the same directory.
LEMMA ExistFind ==
  ASSUME TypeInv, ExistInv, NEW t \in Threads, FindHit(t) \/ FullPath(t)
  PROVE  ExistInv'
<1>1. /\ UNCHANGED <<cwd, files, th, outer, inner, bound, Filepaths>>
      /\ pc[t] \in Searching /\ pc' = [pc EXCEPT ![t] = pc'[t]]
  BY ThreadsTyped DEF FindHit, FullPath, Searching
<1>2. \A u \in Threads : File(u)' = File(u)
  BY <1>1 DEF File, BlockFiles
<1>3. \A u \in Threads : u # t => pc'[u] = pc[u] /\ found'[u] = found[u]
  BY <1>1, ThreadsTyped DEF FindHit, FullPath
<1>4. CASE FindHit(t)
  <2>1. pc'[t] = "fullpath" /\ <<cwd, File(t)>> \in Disk
    BY <1>4, ThreadsTyped DEF FindHit, FindFirstFile
  <2> QED BY <1>1, <1>2, <1>3, <2>1 DEF ExistInv, ListedExists
<1>5. CASE FullPath(t)
  <2>1. /\ pc'[t] = "lock" /\ found'[t] = <<cwd, File(t)>>
        /\ pc[t] = "fullpath"
    BY <1>5, ThreadsTyped DEF FullPath, GetFullPathName
  <2> QED BY <1>1, <1>2, <1>3, <2>1 DEF ExistInv, ListedExists
<1> QED BY <1>4, <1>5

\* Every step of a thread.
LEMMA ExistRun ==
  ASSUME TypeInv, HandoverInv, checks <= 1, OneSearcher, ExistInv,
         NEW t \in Threads, run(t)
  PROVE  ExistInv'
<1> USE ThreadsTyped DEF Searching
<1>1. CASE RunAny(t)
  BY <1>1, ExistFrame DEF RunAny, ReadIndex, Signal, ResetIndex, EnterCs,
     LeaveCs
<1>2. CASE RunFill(t)
  <2>1. CASE FillFiles(t)
    BY <2>1, FilledTyped, ExistFrame DEF FillFiles
  <2> QED BY <1>2, <2>1, ExistFrame DEF RunFill, FillRegs, PostInit, SetReady
<1>3. CASE RunSearch(t)
  BY <1>3, ExistFrame, ExistChangeDir, ExistFind DEF RunSearch, Await,
     Resignal, SkipDrive, SearchOver, FindValid, FindMiss, BlockOver
<1>4. CASE RunDetect(t)
  BY <1>4, ExistFrame, ExistPush DEF RunDetect, LockDects, AddFile,
     AddFileNotify, AddName, UnlockDects, EnterHwnd, AddFileAdvance
<1>5. CASE RunRegistry(t)
  BY <1>5, ExistFrame DEF RunRegistry, OpenKey, KeysOver, QueryPresent,
     QueryAbsent, QueryBeyond, ValuesOver, AddReg
<1>6. CASE RunCount(t)
  BY <1>6, ExistFrame DEF RunCount, CountWait, CountBump, CountTake, Report
<1> QED BY <1>1, <1>2, <1>3, <1>4, <1>5, <1>6 DEF run

\* Every step of the program.
LEMMA ExistNext ==
  ASSUME TypeInv, HandoverInv, checks <= 1, OneSearcher, ExistInv, [Next]_vars
  PROVE  ExistInv'
<1> USE ThreadsTyped
<1>1. CASE UNCHANGED vars
  BY <1>1, ExistFrame
<1>2. CASE Check \/ _switch
  <2>1. \A u \in Threads : pc'[u] \in Searching => pc'[u] = pc[u]
    BY <1>2, NewThread DEF _switch, SwitchWait, SwitchStore, Searching
  <2> QED BY <1>2, <2>1, ExistFrame DEF Check, _switch, SwitchWait,
             SwitchStore, SwitchReset
<1>3. CASE Cancel
  BY <1>3, ExistFrame DEF Cancel, Searching
<1> QED BY <1>1, <1>2, <1>3, ExistRun DEF Next

\* Nothing is listed at first.
LEMMA ExistInit == Init => ExistInv
  BY DEF Init, DectInit, ExistInv, ListedExists, Searching

\* The invariants of the engine that hold for any number of checks, and those
\* of one check.
LEMMA EngineFacts ==
  Spec => [](TypeInv /\ LockDiscipline /\ HandoverInv /\ CountInv /\ SealInv)
<1>1. Init => HandoverInv /\ CountInv /\ SealInv
  BY HandoverInit, CountInit, SealInit
<1>2. /\ TypeInv /\ HandoverInv /\ [Next]_vars => HandoverInv'
      /\ TypeInv /\ LockDiscipline /\ CountInv /\ [Next]_vars => CountInv'
      /\ TypeInv /\ CountInv /\ SealInv /\ [Next]_vars => SealInv'
  BY HandoverNext, CountNext, SealNext
<1> QED BY <1>1, <1>2, TypeInvariant, LocksHeld, PTL DEF Spec

\* ListedExists, for one check with or without a Cancel, on a machine on which
\* no drive is searched: nobody moves the directory between FindFirstFile and
\* GetFullPathName.
THEOREM ListedPathsExist ==
  ASSUME OneSearcher
  PROVE  Spec /\ [](checks <= 1) => []ListedExists
<1>1. /\ TypeInv /\ HandoverInv /\ checks <= 1 /\ ExistInv /\ [Next]_vars
      => ExistInv'
  BY ExistNext
<1>2. ExistInv => ListedExists
  BY DEF ExistInv
<1> QED BY <1>1, <1>2, ExistInit, EngineFacts, PTL DEF Spec

-----------------------------------------------------------------------------
(* The common folders. *)

Unfilled == {"off", "new", "signal"}

\* The names of the first m definitions have been filled in.
Have(m) == \A n \in 1..m : \A k \in 1..Len(Defs[n]) :
             \E j \in 1..Len(files) : files[j] = Defs[n][k]

\* Thread 0 is the first one, is never terminated, and has the count of all the
\* names; no other thread fills any in.
FillInv ==
  /\ pc[1] # "killed" /\ pc[2] # "killed"
  /\ pc[1] \in Unfilled => files = <<>>
  /\ pc[1] \notin Unfilled => bound[1] = Len(files)
  /\ pc[1] = "fill" => Have(outer[1])
  /\ pc[1] \notin Unfilled \cup {"fill"} => Have(Len(Defs))
  /\ pc[1] \in {"enter", "incs", "init", "ready"} => outer[1] = 0
  /\ \A j \in 1..Len(files) : files[j] \in DefNames
  /\ \A i \in 1..Len(Filepaths) : Filepaths[i][2] \in DefNames

\* The j-th name in the i-th folder: to be found, and found.
Wanted(i, j) ==
  /\ Folders[i] \in Reachable
  /\ TRUE \notin isValid(i - 1)
  /\ <<Folders[i], files[j]>> \in Disk
Seen(i, j) == Wanted(i, j) => FileExist(<<Folders[i], files[j]>>)

\* A path that is found is in the list, or about to be given its number or its
\* name; and a thread that has come to the end of its search.
Recalled == {"notify", "advance", "addname", "namecs", "unlock"}
Searched == {"count", "bump", "take", "report", "done"}

\* What thread 0 has behind it.
ScanInv ==
  /\ pc[1] \in {"chdir"} \cup Searching =>
       \A i \in 1..outer[1] : \A j \in 1..Len(files) : Seen(i, j)
  /\ pc[1] \in Searching =>
       \A i \in {outer[1] + 1} :
         /\ Folders[i] \in Reachable => cwd = Folders[i]
         /\ \A j \in 1..inner[1] : Seen(i, j)
  /\ pc[1] \in Recalled =>
       \A i \in {outer[1] + 1}, j \in {inner[1] + 1} : Seen(i, j)
  /\ pc[1] \in Searched =>
       \A i \in 1..Len(Folders) : \A j \in 1..Len(files) : Seen(i, j)

\* The names of the definitions are names of definitions.
LEMMA DefinedNames ==
  ASSUME NEW n \in 1..Len(Defs), NEW k \in 1..Len(Defs[n])
  PROVE  Defs[n][k] \in DefNames
<1>1. Defs[n] \in Seq(Files)
  BY ConstantsTyped, ElementOfSeq
<1>2. Defs[n][k] \in Files
  BY <1>1, ElementOfSeq
<1> QED BY <1>2 DEF DefNames

\* What thread 0 goes through: all names, in all folders.
LEMMA FirstThread ==
  ASSUME TypeInv, FillInv, th[1] = 0, pc[1] \in {"chdir"} \cup Searching
  PROVE  /\ Len(BlockFiles(1)) = Len(files)
         /\ inner[1] \in Nat /\ outer[1] \in Nat
         /\ inner[1] < Len(files) => /\ File(1) = files[inner[1] + 1]
                                     /\ inner[1] + 1 \in 1..Len(files)
         /\ Blocks(1) = Len(Folders) /\ BlockDir(1) = Folders[outer[1] + 1]
<1>1. bound[1] = Len(files) /\ files \in Seq(Files) /\ Len(files) \in Nat
  BY ThreadsTyped DEF FillInv, Unfilled, Searching
<1>2. inner[1] \in Nat /\ outer[1] \in Nat
  BY ThreadsTyped
<1>3. BlockFiles(1) = SubSeq(files, 1, Len(files))
  BY <1>1 DEF BlockFiles
<1>4. /\ Len(SubSeq(files, 1, Len(files))) = Len(files)
      /\ \A i \in 1..Len(files) : SubSeq(files, 1, Len(files))[i] = files[i]
  BY <1>1
<1>5. inner[1] < Len(files) => inner[1] + 1 \in 1..Len(files)
  BY <1>1, <1>2
<1> QED BY <1>2, <1>3, <1>4, <1>5 DEF File, Blocks, BlockDir

\* A step that leaves the names, the list and thread 0's place in its set-up
\* alone.
LEMMA FillFrame ==
  ASSUME FillInv, UNCHANGED <<files, Filepaths>>,
         pc'[1] # "killed", pc'[2] # "killed",
         pc'[1] \in Unfilled <=> pc[1] \in Unfilled,
         pc'[1] \notin Unfilled => bound'[1] = bound[1],
         pc'[1] = "fill" <=> pc[1] = "fill",
         pc'[1] \in {"fill", "enter", "incs", "init", "ready"} =>
           /\ pc[1] \in {"fill", "enter", "incs", "init", "ready"}
           /\ outer'[1] = outer[1]
  PROVE  FillInv'
  BY DEF FillInv, Have

\* An index of two lists one after the other.
LEMMA SplitIndex ==
  ASSUME NEW m \in Nat, NEW n \in Nat, NEW l, l = m + n
  PROVE  /\ \A j \in 1..m : j \in 1..l
         /\ \A j \in 1..n : m + j \in 1..l
         /\ \A j \in 1..l : j \in 1..m \/ \E k \in 1..n : j = m + k
<1>1. \A j \in 1..l : j \in 1..m \/ (j - m \in 1..n /\ j = m + (j - m))
  OBVIOUS
<1> QED BY <1>1

\* A name is filled in.
LEMMA FillAppend ==
  ASSUME TypeInv, HandoverInv, checks <= 1, FillInv, NEW t \in Threads,
         FillFiles(t)
  PROVE  FillInv'
<1> DEFINE d == Defs[outer[t] + 1]
<1>1. /\ pc[t] = "fill" /\ files' = files \o d
      /\ UNCHANGED <<pc, Filepaths>>
      /\ bound' = [bound EXCEPT ![t] = bound[t] + Len(d)]
      /\ outer' = [outer EXCEPT ![t] = outer[t] + 1]
  BY DEF FillFiles
<1>2. outer[t] + 1 \in 1..Len(Defs) /\ d \in Seq(Files)
  BY FilledTyped
<1>3. t = 1
  <2>1. th[t] = 0 /\ Dispatched(t)
    BY <1>1 DEF TypeInv, Loops, LoopsOf, Dispatched
  <2> QED BY <2>1, OneCheck, CountTyped
<1>4. files \in Seq(Files) /\ Len(files) \in Nat /\ Len(d) \in Nat
  BY <1>2, ThreadsTyped, LenProperties
<1> HIDE DEF d
<1>5. /\ Len(files') = Len(files) + Len(d)
      /\ \A j \in 1..Len(files) : files'[j] = files[j]
      /\ \A j \in 1..Len(d) : files'[Len(files) + j] = d[j]
  BY <1>1, <1>2, <1>4, ConcatProperties
<1>6. /\ \A j \in 1..Len(files) : j \in 1..Len(files')
      /\ \A j \in 1..Len(d) : Len(files) + j \in 1..Len(files')
      /\ \A j \in 1..Len(files') :
           j \in 1..Len(files) \/ \E k \in 1..Len(d) : j = Len(files) + k
  <2> DEFINE m == Len(files)
             n == Len(d)
             l == Len(files')
  <2>1. m \in Nat /\ n \in Nat /\ l = m + n
    BY <1>4, <1>5
  <2> HIDE DEF m, n, l
  <2>2. /\ \A j \in 1..m : j \in 1..l
        /\ \A j \in 1..n : m + j \in 1..l
        /\ \A j \in 1..l : j \in 1..m \/ \E k \in 1..n : j = m + k
    BY <2>1, SplitIndex
  <2> QED BY <2>2 DEF m, n, l
<1>7. bound'[1] = Len(files') /\ outer'[1] = outer[1] + 1
  BY <1>1, <1>3, <1>5, ThreadsTyped DEF FillInv, Unfilled
<1>8. Have(outer[1])'
  <2> SUFFICES ASSUME NEW n \in 1..outer[1] + 1, NEW k \in 1..Len(Defs[n])
               PROVE  \E j \in 1..Len(files') : files'[j] = Defs[n][k]
    BY <1>7 DEF Have
  <2>1. CASE n \in 1..outer[1]
    <3>1. PICK j \in 1..Len(files) : files[j] = Defs[n][k]
      BY <1>1, <1>3, <2>1 DEF FillInv, Have
    <3> QED BY <1>5, <1>6, <3>1
  <2>2. CASE n = outer[1] + 1
    BY <1>3, <1>5, <1>6, <2>2 DEF d
  <2>3. outer[1] \in Nat
    BY ThreadsTyped
  <2> QED BY <2>1, <2>2, <2>3
<1>9. \A j \in 1..Len(files') : files'[j] \in DefNames
  <2> SUFFICES ASSUME NEW j \in 1..Len(files') PROVE files'[j] \in DefNames
    OBVIOUS
  <2>1. CASE j \in 1..Len(files)
    BY <1>5, <2>1 DEF FillInv
  <2>2. ASSUME NEW k \in 1..Len(d), j = Len(files) + k
        PROVE  files'[j] \in DefNames
    <3>1. d[k] \in DefNames
      BY <1>2, <2>2, DefinedNames DEF d
    <3> QED BY <1>5, <2>2, <3>1
  <2> QED BY <1>6, <2>1, <2>2
<1> QED BY <1>1, <1>3, <1>7, <1>8, <1>9 DEF FillInv, Unfilled

\* The path a thread pushes has the name of a definition.
LEMMA FillPush ==
  ASSUME TypeInv, HandoverInv, checks <= 1, ExistInv, FillInv,
         NEW t \in Threads, AddFilePush(t)
  PROVE  FillInv'
<1>1. /\ pc[t] = "push" /\ pc' = [pc EXCEPT ![t] = "notify"]
      /\ Filepaths' = Append(Filepaths, found[t])
      /\ UNCHANGED <<files, bound, outer>>
  BY DEF AddFilePush, PushFile
<1>2. th[t] = 0 /\ found[t] = <<cwd, File(t)>> /\ t = 1
  <2>1. th[t] = 0 /\ Dispatched(t) /\ found[t] = <<cwd, File(t)>>
    BY <1>1 DEF ExistInv, Searching, Dispatched
  <2> QED BY <2>1, OneCheck, CountTyped
<1>3. found[t][2] \in DefNames
  <2>1. inner[1] < Len(BlockFiles(1))
    BY <1>1, <1>2 DEF TypeInv, Loops, LoopsOf, Searching
  <2>2. File(1) \in DefNames
    BY <1>1, <1>2, <2>1, FirstThread DEF Searching, FillInv
  <2> QED BY <1>2, <2>2
<1>4. Filepaths \in Seq(Paths) /\ found[t] \in Paths
  BY <1>1 DEF TypeInv, TypeOK, DectTypeOK, Loops, LoopsOf, Searching
<1>5. /\ Len(Filepaths') = Len(Filepaths) + 1 /\ Len(Filepaths) \in Nat
      /\ \A i \in 1..Len(Filepaths) : Filepaths'[i] = Filepaths[i]
      /\ Filepaths'[Len(Filepaths) + 1] = found[t]
  BY <1>1, <1>4, AppendProperties, LenProperties
<1>6. \A i \in 1..Len(Filepaths') : Filepaths'[i][2] \in DefNames
  <2> SUFFICES ASSUME NEW i \in 1..Len(Filepaths')
               PROVE  Filepaths'[i][2] \in DefNames
    OBVIOUS
  <2>1. CASE i \in 1..Len(Filepaths)
    BY <1>5, <2>1 DEF FillInv
  <2>2. CASE i = Len(Filepaths) + 1
    BY <1>3, <1>5, <2>2
  <2> QED BY <1>5, <2>1, <2>2
<1>7. pc'[1] = "notify" /\ pc[1] = "push" /\ pc'[2] = pc[2]
  BY <1>1, <1>2, ThreadsTyped
<1> QED BY <1>1, <1>6, <1>7 DEF FillInv, Have, Unfilled

\* The start of thread 0, and the step out of the set-up.
LEMMA FillSteps ==
  ASSUME TypeInv, HandoverInv, checks <= 1, FillInv, NEW t \in Threads,
         Signal(t) \/ FillRegs(t)
  PROVE  FillInv'
<1>1. CASE t = 1 /\ Signal(t)
  <2>1. /\ pc[1] = "signal" /\ UNCHANGED <<files, Filepaths, bound, outer>>
        /\ pc'[1] = CASE th[1] = 0      -> "fill"
                      [] th[1] \in 1..2 -> "enter"
                      [] OTHER          -> "reset"
        /\ pc'[2] = pc[2]
    BY <1>1, ThreadsTyped DEF Signal
  <2>2. th[1] = 0 /\ outer[1] = 0 /\ bound[1] = 0
    BY <2>1, OneCheck, CountTyped
       DEF Dispatched, TypeInv, Loops, LoopsOf, Started
  <2>3. files = <<>> /\ Len(files) = 0
    BY <2>1, ThreadsTyped DEF FillInv, Unfilled
  <2>4. pc'[1] = "fill"
    BY <2>1, <2>2
  <2> QED BY <2>1, <2>2, <2>3, <2>4 DEF FillInv, Have, Unfilled
<1>2. CASE t # 1 /\ Signal(t)
  <2>1. pc'[1] = pc[1] /\ pc'[2] # "killed"
    BY <1>2, ThreadsTyped DEF Signal, FillInv
  <2> QED BY <1>2, <2>1, FillFrame DEF Signal, FillInv
<1>3. CASE FillRegs(t)
  <2>1. /\ pc[t] = "fill" /\ UNCHANGED <<files, Filepaths, bound>>
        /\ outer[t] = Len(Defs) /\ outer' = [outer EXCEPT ![t] = 0]
        /\ pc' = [pc EXCEPT ![t] = "enter"]
    BY <1>3 DEF FillRegs
  <2>2. t = 1
    <3>1. th[t] = 0 /\ Dispatched(t)
      BY <2>1 DEF TypeInv, Loops, LoopsOf, Dispatched
    <3> QED BY <3>1, OneCheck, CountTyped
  <2>3. pc'[1] = "enter" /\ outer'[1] = 0 /\ pc'[2] = pc[2]
    BY <2>1, <2>2, ThreadsTyped
  <2>4. Have(Len(Defs))
    BY <2>1, <2>2 DEF FillInv
  <2> QED BY <2>1, <2>2, <2>3, <2>4 DEF FillInv, Have, Unfilled
<1> QED BY <1>1, <1>2, <1>3

\* Every step of a thread.
LEMMA FillRun ==
  ASSUME TypeInv, HandoverInv, checks <= 1, ExistInv, FillInv,
         NEW t \in Threads, run(t)
  PROVE  FillInv'
<1> USE ThreadsTyped DEF Unfilled
<1>1. pc[1] # "killed" /\ pc[2] # "killed"
  BY DEF FillInv
<1>2. CASE RunAny(t)
  <2>1. pc[t] # "reset"
    BY OneCheck
  <2> QED BY <1>1, <1>2, <2>1, FillFrame, FillSteps DEF RunAny, ReadIndex,
             ResetIndex, EnterCs, LeaveCs
<1>3. CASE RunFill(t)
  BY <1>1, <1>3, FillFrame, FillAppend, FillSteps DEF RunFill, PostInit,
     SetReady
<1>4. CASE RunSearch(t)
  BY <1>1, <1>4, FillFrame DEF RunSearch, Await, Resignal, SkipDrive,
     ChangeDir, SearchOver, FindHit, FindValid, FindMiss, BlockOver, FullPath
<1>5. CASE RunDetect(t)
  BY <1>1, <1>5, FillFrame, FillPush DEF RunDetect, LockDects, AddFile,
     AddFileNotify, AddName, UnlockDects, EnterHwnd, AddFileAdvance
<1>6. CASE RunRegistry(t)
  <2>1. th[t] = 2 /\ Dispatched(t)
    BY <1>6 DEF RunRegistry, OpenKey, KeysOver, QueryPresent, QueryAbsent,
       QueryBeyond, ValuesOver, AddReg, TypeInv, Loops, LoopsOf, Dispatched
  <2>2. t # 1
    BY <2>1, OneCheck, CountTyped
  <2> QED BY <1>1, <1>6, <2>2, FillFrame DEF RunRegistry, OpenKey, KeysOver,
             QueryPresent, QueryAbsent, QueryBeyond, ValuesOver, AddReg
<1>7. CASE RunCount(t)
  BY <1>1, <1>7, FillFrame DEF RunCount, CountWait, CountBump, CountTake,
     Report
<1> QED BY <1>2, <1>3, <1>4, <1>5, <1>6, <1>7 DEF run

\* A Cancel terminates the thread that searches the registry.
LEMMA CancelsThird ==
  ASSUME TypeInv, checks <= 1, Cancel
  PROVE  nThreads = 3 /\ pc' = [pc EXCEPT ![3] = pc'[3]]
<1>1. gpc = "idle" /\ nThreads > 0 /\ nThreads = 3 * checks /\ checks \in Nat
  BY CountTyped DEF TypeInv, Created, Cancel
<1>2. nThreads = 3
  BY <1>1
<1> QED BY <1>2, ThreadsTyped DEF Cancel

\* Every step of the program.
LEMMA FillNext ==
  ASSUME TypeInv, HandoverInv, checks <= 1, ExistInv, FillInv, [Next]_vars
  PROVE  FillInv'
<1>1. pc[1] # "killed" /\ pc[2] # "killed"
  BY DEF FillInv
<1>2. CASE UNCHANGED vars
  BY <1>1, <1>2, FillFrame
<1>3. CASE Check \/ SwitchReset
  <2>1. PICK n \in Threads : pc[n] = "off" /\ pc' = [pc EXCEPT ![n] = "new"]
    BY <1>3, NewThread
  <2> QED BY <1>1, <1>3, <2>1, FillFrame, ThreadsTyped DEF Check, SwitchReset,
             Unfilled
<1>4. CASE SwitchWait \/ SwitchStore
  BY <1>1, <1>4, FillFrame DEF SwitchWait, SwitchStore
<1>5. CASE Cancel
  <2>1. pc'[1] = pc[1] /\ pc'[2] = pc[2]
    BY <1>5, CancelsThird, CountTyped
  <2>2. UNCHANGED <<files, Filepaths, bound, outer>>
    BY <1>5 DEF Cancel
  <2> QED BY <1>1, <2>1, <2>2, FillFrame
<1> QED BY <1>2, <1>3, <1>4, <1>5, FillRun DEF Next, _switch

\* Nothing is filled in at first.
LEMMA FillInit == Init => FillInv
<1> SUFFICES ASSUME Init PROVE FillInv
  OBVIOUS
<1>1. pc[1] = "off" /\ pc[2] = "off"
  BY MaxChecksTyped DEF Init, Threads
<1>2. files = <<>> /\ Filepaths = <<>>
  BY DEF Init, DectInit
<1>3. Len(files) = 0 /\ Len(Filepaths) = 0
  BY <1>2
<1> QED BY <1>1, <1>2, <1>3 DEF FillInv, Unfilled

\* What is seen stays seen.
LEMMA SeenStays ==
  ASSUME TypeInv, files' = files,
         Filepaths' = Filepaths
           \/ \E p \in Paths : Filepaths' = Append(Filepaths, p)
  PROVE  \A i, j : Seen(i, j) => Seen(i, j)'
<1> SUFFICES ASSUME NEW p, FileExist(p) PROVE FileExist(p)'
  BY DEF Seen, Wanted
<1>1. CASE Filepaths' = Filepaths
  BY <1>1 DEF FileExist
<1>2. ASSUME NEW q \in Paths, Filepaths' = Append(Filepaths, q)
      PROVE  FileExist(p)'
  <2>1. Filepaths \in Seq(Paths)
    BY DEF TypeInv, TypeOK, DectTypeOK
  <2>2. /\ Len(Filepaths') = Len(Filepaths) + 1 /\ Len(Filepaths) \in Nat
        /\ \A i \in 1..Len(Filepaths) : Filepaths'[i] = Filepaths[i]
    BY <1>2, <2>1, AppendProperties, LenProperties
  <2>3. \A i \in 1..Len(Filepaths) : i \in 1..Len(Filepaths')
    BY <2>2
  <2> QED BY <2>2, <2>3 DEF FileExist
<1> QED BY <1>1, <1>2

\* A step that leaves the directory, the list and thread 0's place in the
\* search alone.
LEMMA ScanFrame ==
  ASSUME TypeInv, ScanInv, UNCHANGED <<files, Filepaths, cwd>>,
         outer'[1] = outer[1], inner'[1] = inner[1],
         pc'[1] \in {"chdir"} \cup Searching => pc[1] \in {"chdir"} \cup Searching,
         pc'[1] \in Searching => pc[1] \in Searching,
         pc'[1] \in Recalled => pc[1] \in Recalled,
         pc'[1] \in Searched => pc[1] \in Searched
  PROVE  ScanInv'
<1>1. \A i, j : Seen(i, j) => Seen(i, j)'
  BY SeenStays
<1> QED BY <1>1 DEF ScanInv

\* A step that leaves thread 0 outside the search.
LEMMA ScanOutside ==
  ASSUME pc'[1] \notin {"chdir"} \cup Searching \cup Searched
  PROVE  ScanInv'
  BY DEF ScanInv, Searching, Recalled

\* Only thread 0 sets the directory and fills the list.
LEMMA ScanOthers ==
  ASSUME TypeInv, HandoverInv, checks <= 1, OneSearcher, ExistInv, ScanInv,
         NEW t \in Threads, run(t), t # 1
  PROVE  ScanInv'
<1>1. th[t] # 0 \/ ~Dispatched(t)
  <2>1. t \in Nat
    BY CountTyped
  <2> QED BY <2>1, OneCheck
<1> USE ThreadsTyped
<1>2. ~FillFiles(t)
  BY <1>1 DEF FillFiles, Dispatched, TypeInv, Loops, LoopsOf
<1>3. ~ChangeDir(t)
  BY <1>1, NoDriveSearched DEF ChangeDir, Dispatched
<1>4. ~AddFilePush(t)
  BY <1>1 DEF AddFilePush, Dispatched, ExistInv, Searching
<1>5. UNCHANGED <<files, Filepaths, cwd>>
  <2>1. CASE RunAny(t) \/ RunFill(t) \/ RunCount(t)
    BY <1>2, <2>1 DEF RunAny, ReadIndex, Signal, ResetIndex, EnterCs, LeaveCs,
       RunFill, FillRegs, PostInit, SetReady, RunCount, CountWait, CountBump,
       CountTake, Report
  <2>2. CASE RunSearch(t)
    BY <1>3, <2>2 DEF RunSearch, Await, Resignal, SkipDrive, SearchOver,
       FindHit, FindValid, FindMiss, BlockOver, FullPath
  <2>3. CASE RunDetect(t)
    BY <1>4, <2>3 DEF RunDetect, LockDects, AddFile, AddFileNotify, AddName,
       UnlockDects, EnterHwnd, AddFileAdvance
  <2>4. CASE RunRegistry(t)
    BY <2>4 DEF RunRegistry, OpenKey, KeysOver, QueryPresent, QueryAbsent,
       QueryBeyond, ValuesOver, AddReg
  <2> QED BY <2>1, <2>2, <2>3, <2>4 DEF run
<1>6. pc'[1] = pc[1] /\ outer'[1] = outer[1] /\ inner'[1] = inner[1]
  <2>1. CASE RunAny(t) \/ RunFill(t) \/ RunCount(t)
    BY <2>1 DEF RunAny, ReadIndex, Signal, ResetIndex, EnterCs, LeaveCs,
       RunFill, FillFiles, FillRegs, PostInit, SetReady, RunCount, CountWait,
       CountBump, CountTake, Report
  <2>2. CASE RunSearch(t) \/ RunDetect(t)
    BY <2>2 DEF RunSearch, Await, Resignal, SkipDrive, ChangeDir, SearchOver,
       FindHit, FindValid, FindMiss, BlockOver, FullPath, RunDetect, LockDects,
       AddFile, AddFilePush, AddFileNotify, AddName, UnlockDects, EnterHwnd,
       AddFileAdvance
  <2>3. CASE RunRegistry(t)
    BY <2>3 DEF RunRegistry, OpenKey, KeysOver, QueryPresent, QueryAbsent,
       QueryBeyond, ValuesOver, AddReg
  <2> QED BY <2>1, <2>2, <2>3 DEF run
<1> QED BY <1>5, <1>6, ScanFrame

\* The search begins with no folder behind it.
LEMMA ScanReady ==
  ASSUME TypeInv, FillInv, SetReady(1)
  PROVE  ScanInv'
<1>1. pc'[1] = "chdir" /\ outer'[1] = 0
  BY ThreadsTyped DEF SetReady, FillInv
<1> QED BY <1>1 DEF ScanInv, Searching, Recalled, Searched

\* A folder begins: if it can be entered it is the current directory.
LEMMA ScanEnter ==
  ASSUME TypeInv, HandoverInv, checks <= 1, FillInv, ScanInv, ChangeDir(1)
  PROVE  ScanInv'
<1>1. /\ pc[1] = "chdir" /\ pc'[1] = "find" /\ inner'[1] = 0
      /\ UNCHANGED <<files, Filepaths, outer>>
      /\ cwd' = IF BlockDir(1) \in Reachable THEN BlockDir(1) ELSE cwd
  BY ThreadsTyped DEF ChangeDir
<1>2. th[1] = 0
  BY <1>1, OneCheck, CountTyped DEF Dispatched
<1>3. BlockDir(1) = Folders[outer[1] + 1]
  BY <1>1, <1>2, FirstThread
<1>4. \A i, j : Seen(i, j) => Seen(i, j)'
  BY <1>1, SeenStays
<1> QED BY <1>1, <1>3, <1>4 DEF ScanInv, Searching, Recalled, Searched

\* The folders are all behind.
LEMMA ScanEnd ==
  ASSUME TypeInv, HandoverInv, checks <= 1, FillInv, ScanInv, SearchOver(1)
  PROVE  ScanInv'
<1>1. /\ pc[1] = "chdir" /\ pc'[1] = "count" /\ outer[1] >= Blocks(1)
      /\ UNCHANGED <<files, Filepaths>>
  BY ThreadsTyped DEF SearchOver
<1>2. th[1] = 0
  BY <1>1, OneCheck, CountTyped DEF Dispatched
<1>3. outer[1] \in Nat /\ outer[1] >= Len(Folders) /\ Len(Folders) \in Nat
  BY <1>1, <1>2, FirstThread, ConstantsTyped
<1>4. \A i \in 1..Len(Folders) : i \in 1..outer[1]
  BY <1>3
<1>5. \A i, j : Seen(i, j) => Seen(i, j)'
  BY <1>1, SeenStays
<1> QED BY <1>1, <1>4, <1>5 DEF ScanInv, Searching, Recalled, Searched

\* The next name: it is behind, because it is legitimate here, is not on the
\* disk, or is in the list.
LEMMA ScanName ==
  ASSUME TypeInv, HandoverInv, checks <= 1, FillInv, ScanInv,
         FindValid(1) \/ FindMiss(1) \/ UnlockDects(1)
  PROVE  ScanInv'
<1>1. /\ pc[1] \in {"find", "unlock"} /\ pc'[1] = "find"
      /\ UNCHANGED <<files, Filepaths, cwd, outer>>
      /\ inner'[1] = inner[1] + 1
  BY ThreadsTyped DEF FindValid, FindMiss, UnlockDects
<1>2. th[1] = 0
  BY <1>1, OneCheck, CountTyped DEF Dispatched
<1>3. /\ Len(BlockFiles(1)) = Len(files) /\ inner[1] \in Nat /\ outer[1] \in Nat
      /\ inner[1] < Len(files) => File(1) = files[inner[1] + 1]
  BY <1>1, <1>2, FirstThread DEF Searching
<1>4. Seen(outer[1] + 1, inner[1] + 1)
  <2>1. CASE FindValid(1)
    <3>1. TRUE \in isValid(outer[1])
      BY <2>1 DEF FindValid
    <3>2. (outer[1] + 1) - 1 = outer[1]
      BY <1>3
    <3> QED BY <3>1, <3>2 DEF Seen, Wanted
  <2>2. CASE FindMiss(1)
    <3>1. /\ <<cwd, File(1)>> \notin Disk /\ inner[1] < Len(files)
          /\ pc[1] \in Searching
      BY <1>3, <2>2 DEF FindMiss, FindFirstFile, Searching
    <3>2. Folders[outer[1] + 1] \in Reachable => cwd = Folders[outer[1] + 1]
      BY <3>1 DEF ScanInv
    <3> QED BY <1>3, <3>1, <3>2 DEF Seen, Wanted
  <2>3. CASE UnlockDects(1)
    BY <2>3 DEF UnlockDects, ScanInv, Recalled
  <2> QED BY <2>1, <2>2, <2>3
<1>5. \A i, j : Seen(i, j) => Seen(i, j)'
  BY <1>1, SeenStays
<1>6. \A j \in 1..inner[1] + 1 : j \in 1..inner[1] \/ j = inner[1] + 1
  BY <1>3
<1> QED BY <1>1, <1>4, <1>5, <1>6 DEF ScanInv, Searching, Recalled, Searched

\* The folder is behind.
LEMMA ScanFolder ==
  ASSUME TypeInv, HandoverInv, checks <= 1, FillInv, ScanInv, BlockOver(1)
  PROVE  ScanInv'
<1>1. /\ pc[1] = "find" /\ pc'[1] = "chdir" /\ inner[1] >= Len(BlockFiles(1))
      /\ UNCHANGED <<files, Filepaths>> /\ outer'[1] = outer[1] + 1
  BY ThreadsTyped DEF BlockOver
<1>2. th[1] = 0
  BY <1>1, OneCheck, CountTyped DEF Dispatched
<1>3. /\ inner[1] >= Len(files) /\ inner[1] \in Nat /\ outer[1] \in Nat
  BY <1>1, <1>2, FirstThread DEF Searching
<1>4. \A i, j : Seen(i, j) => Seen(i, j)'
  BY <1>1, SeenStays
<1>5. \A j \in 1..Len(files) : j \in 1..inner[1]
  BY <1>3, ThreadsTyped
<1>6. \A i \in 1..outer[1] + 1 : i \in 1..outer[1] \/ i = outer[1] + 1
  BY <1>3
<1> QED BY <1>1, <1>4, <1>5, <1>6 DEF ScanInv, Searching, Recalled, Searched

\* The name is found: the list has it, or a name it begins, or gets it.
LEMMA ScanFound ==
  ASSUME TypeInv, HandoverInv, checks <= 1, ExistInv, FillInv, ScanInv,
         AddFile(1) \/ AddFilePush(1)
  PROVE  ScanInv'
<1>1. /\ pc[1] \in {"filecs", "push"} /\ pc'[1] \in {"push", "notify", "addname"}
      /\ UNCHANGED <<files, cwd, outer, inner>>
      /\ pc[1] \in Searching /\ pc'[1] \in Searching
  BY ThreadsTyped DEF AddFile, AddFilePush, Searching
<1>2. th[1] = 0
  BY <1>1, OneCheck, CountTyped DEF Dispatched
<1>3. /\ inner[1] < Len(files) /\ File(1) = files[inner[1] + 1]
      /\ found[1] = <<cwd, File(1)>>
  <2>1. inner[1] < Len(BlockFiles(1)) /\ found[1] = <<cwd, File(1)>>
    BY <1>1, CountTyped DEF ExistInv, Searching, TypeInv, Loops, LoopsOf
  <2> QED BY <1>1, <1>2, <2>1, FirstThread
<1>4. Folders[outer[1] + 1] \in Reachable => cwd = Folders[outer[1] + 1]
  BY <1>1 DEF ScanInv
<1>5. Filepaths' = Filepaths
        \/ \E p \in Paths : Filepaths' = Append(Filepaths, p)
  <2>1. found[1] \in Paths
    BY <1>1, CountTyped DEF Searching, TypeInv, Loops, LoopsOf
  <2> QED BY <2>1 DEF AddFile, AddFilePush, PushFile
<1>6. \A i, j : Seen(i, j) => Seen(i, j)'
  BY <1>1, <1>5, SeenStays
<1>7. pc'[1] \in Recalled => FileExist(found[1])'
  <2>1. CASE AddFile(1)
    BY <2>1, ThreadsTyped DEF AddFile, Recalled, FileExist
  <2>2. CASE AddFilePush(1)
    <3>1. /\ Filepaths' = Append(Filepaths, found[1]) /\ found' = found
          /\ Filepaths \in Seq(Paths) /\ found[1] \in Paths
      BY <1>1, <2>2, CountTyped DEF AddFilePush, PushFile, TypeInv, TypeOK,
         DectTypeOK, Loops, LoopsOf, Searching
    <3>2. /\ Len(Filepaths') = Len(Filepaths) + 1 /\ Len(Filepaths) \in Nat
          /\ Filepaths'[Len(Filepaths) + 1] = found[1]
      BY <3>1, AppendProperties, LenProperties
    <3>3. Len(Filepaths) + 1 \in 1..Len(Filepaths')
      BY <3>2
    <3>4. PathPrefix(found[1], found[1])
      BY <3>1, PrefixAssumption DEF PathPrefix, Paths
    <3> QED BY <3>1, <3>2, <3>3, <3>4 DEF FileExist
  <2> QED BY <2>1, <2>2
<1>8. pc'[1] \in Recalled =>
        \A i \in {outer[1] + 1}, j \in {inner[1] + 1} : Seen(i, j)'
  BY <1>1, <1>3, <1>4, <1>7 DEF Seen, Wanted, AddFile, AddFilePush
<1> QED BY <1>1, <1>6, <1>8 DEF ScanInv, Searched, Searching

\* Every step of thread 0.
LEMMA ScanFirst ==
  ASSUME TypeInv, HandoverInv, checks <= 1, ExistInv, FillInv, ScanInv, run(1)
  PROVE  ScanInv'
<1>a. 1 \in Threads /\ pc \in [Threads -> Points]
  BY CountTyped
<1>1. Dispatched(1) => th[1] = 0
  BY <1>a, OneCheck
<1>2. pc[1] \notin {"await", "resignal", "open", "query", "addreg"}
  <2>1. LoopsOf(1)
    BY <1>a DEF TypeInv, Loops
  <2> QED BY <1>1, <2>1 DEF Dispatched, LoopsOf
<1> USE <1>a
<1>3. CASE RunAny(1) \/ FillFiles(1) \/ FillRegs(1) \/ PostInit(1)
  <2>1. CASE LeaveCs(1)
    BY <1>1, <2>1, ScanOutside DEF LeaveCs, Searching, Searched, Dispatched
  <2>2. CASE Signal(1)
    BY <2>2, ScanOutside DEF Signal, Searching, Searched
  <2>3. CASE ReadIndex(1) \/ EnterCs(1) \/ FillRegs(1) \/ PostInit(1)
    BY <2>3, ScanOutside DEF ReadIndex, EnterCs, FillRegs, PostInit, Searching,
       Searched
  <2>4. CASE FillFiles(1)
    BY <2>4, ScanOutside DEF FillFiles, Searching, Searched
  <2>5. ~ResetIndex(1)
    BY OneCheck DEF ResetIndex
  <2> QED BY <1>3, <2>1, <2>2, <2>3, <2>4, <2>5 DEF RunAny
<1>4. CASE FindHit(1) \/ FullPath(1) \/ LockDects(1) \/ EnterHwnd(1)
             \/ AddFileNotify(1) \/ AddFileAdvance(1) \/ AddName(1) \/ RunCount(1)
  <2>1. CASE EnterHwnd(1)
    BY <2>1, ScanFrame DEF EnterHwnd, Searching, Searched, Recalled
  <2>2. CASE AddFileNotify(1) \/ AddFileAdvance(1) \/ AddName(1)
    BY <2>2, ScanFrame DEF AddFileNotify, AddFileAdvance, AddName, Searching,
       Searched, Recalled
  <2>3. CASE FindHit(1) \/ FullPath(1) \/ LockDects(1)
    BY <2>3, ScanFrame DEF FindHit, FullPath, LockDects, Searching, Searched,
       Recalled
  <2>4. CASE RunCount(1)
    BY <2>4, ScanFrame DEF RunCount, CountWait, CountBump, CountTake, Report,
       Searching, Searched, Recalled
  <2> QED BY <1>4, <2>1, <2>2, <2>3, <2>4
<1>5. CASE RunFill(1)
  BY <1>3, <1>5, ScanReady DEF RunFill
<1>6. CASE RunSearch(1)
  <2>1. ~Await(1) /\ ~Resignal(1) /\ ~SkipDrive(1)
    BY <1>1, <1>2 DEF Await, Resignal, SkipDrive, Dispatched
  <2> QED BY <1>4, <1>6, <2>1, ScanEnter, ScanEnd, ScanName, ScanFolder
          DEF RunSearch
<1>7. CASE RunDetect(1)
  BY <1>4, <1>7, ScanFound, ScanName DEF RunDetect
<1>8. ~RunRegistry(1)
  BY <1>2 DEF RunRegistry, OpenKey, KeysOver, QueryPresent, QueryAbsent,
     QueryBeyond, ValuesOver, AddReg
<1> QED BY <1>3, <1>4, <1>5, <1>6, <1>7, <1>8 DEF run

\* Every step of the program.
LEMMA ScanNext ==
  ASSUME TypeInv, HandoverInv, checks <= 1, OneSearcher, ExistInv, FillInv,
         ScanInv, [Next]_vars
  PROVE  ScanInv'
<1>1. CASE UNCHANGED vars
  BY <1>1, ScanFrame
<1>2. CASE Check \/ SwitchReset
  <2>1. PICK n \in Threads : pc[n] = "off" /\ pc' = [pc EXCEPT ![n] = "new"]
    BY <1>2, NewThread
  <2>2. pc'[1] = pc[1] \/ pc'[1] = "new"
    BY <2>1, ThreadsTyped
  <2>3. CASE pc'[1] = pc[1]
    BY <1>2, <2>3, ScanFrame DEF Check, SwitchReset
  <2>4. CASE pc'[1] = "new"
    BY <2>4, ScanOutside DEF Searching, Searched
  <2> QED BY <2>2, <2>3, <2>4
<1>3. CASE SwitchWait \/ SwitchStore
  BY <1>3, ScanFrame DEF SwitchWait, SwitchStore
<1>4. CASE Cancel
  <2>1. pc'[1] = pc[1]
    BY <1>4, CancelsThird, ThreadsTyped
  <2> QED BY <1>4, <2>1, ScanFrame DEF Cancel
<1> QED BY <1>1, <1>2, <1>3, <1>4, ScanFirst, ScanOthers DEF Next, _switch

\* The search has not begun.
LEMMA ScanInit == Init => ScanInv
  BY MaxChecksTyped DEF Init, Threads, ScanInv, Searching, Recalled, Searched

\* All three threads have ended when the end is announced.
LEMMA AllEnded ==
  ASSUME TypeInv, CountInv, SealInv, checks <= 1, Sent("DONE")
  PROVE  /\ threadDone > Ended(1) + Ended(2)
         /\ pc[1] \in {"take", "report", "done", "killed"}
<1>1. PICK t \in Threads : locth[t] >= 3
  BY DEF SealInv
<1>2. /\ threadDone >= 3 /\ threadDone <= Ended(1) + Ended(2) + Ended(3)
      /\ \A u \in {1, 2, 3} : Ended(u) \in 0..1
  BY <1>1, CountTyped DEF CountInv, SealInv, Ended
<1>3. Ended(1) = 1 /\ threadDone > Ended(1) + Ended(2)
  BY <1>2, CountTyped
<1> QED BY <1>3 DEF Ended, Bumped

\* When the engine is done, a defined file in a common folder that can be
\* entered and has no table is in the list, or begins the name of one that is.
FoldersSearched ==
  Sent("DONE") =>
    \A i \in 1..Len(Folders), n \in 1..Len(Defs) : \A k \in 1..Len(Defs[n]) :
      /\ Folders[i] \in Reachable
      /\ TRUE \notin isValid(i - 1)
      /\ <<Folders[i], Defs[n][k]>> \in Disk
      => FileExist(<<Folders[i], Defs[n][k]>>)

\* All names in all folders are behind thread 0 when the end is announced.
LEMMA ScanMeans ==
  ASSUME TypeInv, CountInv, SealInv, checks <= 1, FillInv, ScanInv
  PROVE  FoldersSearched
<1> SUFFICES ASSUME Sent("DONE"), NEW i \in 1..Len(Folders),
                    NEW n \in 1..Len(Defs), NEW k \in 1..Len(Defs[n]),
                    Folders[i] \in Reachable, TRUE \notin isValid(i - 1),
                    <<Folders[i], Defs[n][k]>> \in Disk
             PROVE  FileExist(<<Folders[i], Defs[n][k]>>)
  BY DEF FoldersSearched
<1>1. pc[1] \in {"take", "report", "done"}
  BY AllEnded DEF FillInv
<1>2. PICK j \in 1..Len(files) : files[j] = Defs[n][k]
  BY <1>1 DEF FillInv, Have, Unfilled
<1>3. Seen(i, j)
  BY <1>1 DEF ScanInv, Searched
<1> QED BY <1>2, <1>3 DEF Seen, Wanted

\* The invariants of one check.
LEMMA SearchFacts ==
  ASSUME OneSearcher
  PROVE  Spec /\ [](checks <= 1) => [](ExistInv /\ FillInv /\ ScanInv)
<1>1. /\ TypeInv /\ HandoverInv /\ checks <= 1 /\ ExistInv /\ [Next]_vars
      => ExistInv'
  BY ExistNext
<1>2. /\ TypeInv /\ HandoverInv /\ checks <= 1 /\ ExistInv /\ FillInv
      /\ [Next]_vars
      => FillInv'
  BY FillNext
<1>3. /\ TypeInv /\ HandoverInv /\ checks <= 1 /\ ExistInv /\ FillInv /\ ScanInv
      /\ [Next]_vars
      => ScanInv'
  BY ScanNext
<1> QED BY <1>1, <1>2, <1>3, ExistInit, FillInit, ScanInit, EngineFacts, PTL
        DEF Spec

\* One check searches every name in every common folder that can be entered and
\* has no table, with or without a Cancel, on a machine on which no drive is
\* searched.
THEOREM AllFoldersSearched ==
  ASSUME OneSearcher
  PROVE  Spec /\ [](checks <= 1) => []FoldersSearched
<1>1. /\ TypeInv /\ CountInv /\ SealInv /\ checks <= 1 /\ FillInv /\ ScanInv
      => FoldersSearched
  BY ScanMeans
<1> QED BY <1>1, SearchFacts, EngineFacts, PTL

\* Where no name begins another, what was searched is listed.
LEMMA SearchedListed ==
  ASSUME NamesApart, TypeInv, FillInv, FoldersSearched
  PROVE  ScanComplete
<1> SUFFICES ASSUME Sent("DONE"), NEW i \in 1..Len(Folders),
                    NEW n \in 1..Len(Defs), NEW k \in 1..Len(Defs[n]),
                    Folders[i] \in Reachable, TRUE \notin isValid(i - 1),
                    <<Folders[i], Defs[n][k]>> \in Disk
             PROVE  Listed(<<Folders[i], Defs[n][k]>>)
  BY DEF ScanComplete
<1>1. FileExist(<<Folders[i], Defs[n][k]>>) /\ Defs[n][k] \in DefNames
  BY DefinedNames DEF FoldersSearched
<1>2. PICK m \in 1..Len(Filepaths) :
        PathPrefix(<<Folders[i], Defs[n][k]>>, Filepaths[m])
  BY <1>1 DEF FileExist
<1>3. Filepaths[m][2] = Defs[n][k] /\ Filepaths[m][1] = Folders[i]
  BY <1>1, <1>2 DEF PathPrefix, FillInv, NamesApart
<1>4. Filepaths[m] \in Paths
  <2>1. Filepaths \in Seq(Paths)
    BY DEF TypeInv, TypeOK, DectTypeOK
  <2> QED BY <2>1, ElementOfSeq
<1>5. Filepaths[m] = <<Folders[i], Defs[n][k]>>
  BY <1>3, <1>4 DEF Paths
<1> QED BY <1>5 DEF Listed

\* ScanComplete, for one check with or without a Cancel, on a machine on which
\* no drive is searched, with definitions in which no name begins another.
THEOREM FolderFilesListed ==
  ASSUME OneSearcher, NamesApart
  PROVE  Spec /\ [](checks <= 1) => []ScanComplete
<1>1. TypeInv /\ FillInv /\ FoldersSearched => ScanComplete
  BY SearchedListed
<1> QED BY <1>1, AllFoldersSearched, SearchFacts, EngineFacts, PTL

-----------------------------------------------------------------------------
(* The registry. *)

\* regVector has the keys of the definitions, less some of their values.
SameKeys ==
  /\ Len(regVector) = Len(RegDefs)
  /\ \A i \in 1..Len(RegDefs) : /\ regVector[i].handle = RegDefs[i].handle
                                /\ regVector[i].keyPath = RegDefs[i].keyPath

\* A thread for which the keys are there.
Told(t) ==
  pc[t] \in Informed \/ (th[t] = 0 /\ pc[t] \in {"enter", "incs", "init"})

\* Nobody gets past the wait for the data before they are there.
KeysInv ==
  /\ regVector = <<>> \/ SameKeys
  /\ hDataReady => SameKeys
  /\ \A t \in Threads : Told(t) => SameKeys

\* Replacing the values of one key.
LEMMA Erased ==
  ASSUME TypeInv, NEW t \in Threads, outer[t] < Len(regVector),
         NEW s \in Seq(Values),
         regVector' = [regVector EXCEPT ![outer[t] + 1].values = s]
  PROVE  /\ Len(regVector') = Len(regVector)
         /\ regVector'[outer[t] + 1].values = s
         /\ \A i \in 1..Len(regVector) :
              /\ regVector'[i].handle = regVector[i].handle
              /\ regVector'[i].keyPath = regVector[i].keyPath
              /\ i # outer[t] + 1 => regVector'[i] = regVector[i]
<1> DEFINE m == outer[t] + 1
<1>1. Key(t) \in RegKeys /\ m \in 1..Len(regVector)
  BY KeyTyped
<1>2. Key(t) = regVector[m] /\ regVector \in Seq(RegKeys)
  BY DEF Key, TypeInv, TypeOK
<1>3. regVector' = [regVector EXCEPT ![m] = [regVector[m] EXCEPT !.values = s]]
  OBVIOUS
<1>4. Len(regVector') = Len(regVector)
  BY EraseTyped
<1> HIDE DEF m
<1>5. regVector'[m] = [regVector[m] EXCEPT !.values = s]
  BY <1>1, <1>2, <1>3
<1>6. /\ regVector'[m].values = s
      /\ regVector'[m].handle = regVector[m].handle
      /\ regVector'[m].keyPath = regVector[m].keyPath
  BY <1>1, <1>2, <1>5 DEF RegKeys
<1>7. \A i \in 1..Len(regVector) : i # m => regVector'[i] = regVector[i]
  BY <1>1, <1>2, <1>3
<1> QED BY <1>4, <1>6, <1>7 DEF m

\* What happens to the keys: they are filled in once, and thread 2 erases some
\* of the values of the key it is at.
LEMMA KeySteps ==
  ASSUME TypeInv, NEW t \in Threads, run(t)
  PROVE  \/ regVector' = regVector
         \/ FillRegs(t) /\ regVector = <<>> /\ regVector' = RegDefs
         \/ /\ QueryAbsent(t) \/ QueryBeyond(t)
            /\ pc[t] = "query" /\ outer[t] < Len(regVector)
            /\ \E s \in Seq(Values) :
                 regVector' = [regVector EXCEPT ![outer[t] + 1].values = s]
<1>1. CASE RunAny(t) \/ RunFill(t) \/ RunCount(t)
  BY <1>1 DEF RunAny, ReadIndex, Signal, ResetIndex, EnterCs, LeaveCs,
     RunFill, FillFiles, FillRegs, PostInit, SetReady, RunCount, CountWait,
     CountBump, CountTake, Report
<1>2. CASE RunSearch(t) \/ RunDetect(t)
  BY <1>2 DEF RunSearch, Await, Resignal, SkipDrive, ChangeDir, SearchOver,
     FindHit, FindValid, FindMiss, BlockOver, FullPath, RunDetect, LockDects,
     AddFile, AddFilePush, AddFileNotify, AddName, UnlockDects, EnterHwnd,
     AddFileAdvance
<1>3. CASE RunRegistry(t) /\ ~QueryAbsent(t) /\ ~QueryBeyond(t)
  BY <1>3 DEF RunRegistry, OpenKey, KeysOver, QueryPresent, ValuesOver, AddReg
<1>4. CASE QueryAbsent(t) \/ QueryBeyond(t)
  <2>1. pc[t] = "query" /\ outer[t] < Len(regVector)
    BY <1>4 DEF QueryAbsent, QueryBeyond, TypeInv, Loops, LoopsOf
  <2>2. Key(t).values \in Seq(Values)
    BY <2>1, KeyTyped DEF RegKeys
  <2>3. CASE QueryAbsent(t)
    <3> DEFINE s == RemoveAt(Key(t).values, inner[t] + 1)
    <3>1. inner[t] + 1 \in 1..Len(Key(t).values)
      <4>1. inner[t] \in Nat /\ inner[t] < Len(Key(t).values)
        BY <2>3 DEF TypeInv, TypeOK, QueryAbsent
      <4> QED BY <2>2, <4>1, LenProperties
    <3>2. s \in Seq(Values)
      BY <2>2, <3>1, RemoveAtTyped
    <3>3. regVector' = [regVector EXCEPT ![outer[t] + 1].values = s]
      BY <2>3 DEF QueryAbsent, Key
    <3> QED BY <1>4, <2>1, <3>2, <3>3
  <2>4. CASE QueryBeyond(t)
    <3> DEFINE s == SubSeq(Key(t).values, 1, Len(Key(t).values) - 1)
    <3>1. s \in Seq(Values)
      BY <2>2
    <3>2. \/ regVector' = regVector
          \/ regVector' = [regVector EXCEPT ![outer[t] + 1].values = s]
      BY <2>4 DEF QueryBeyond, Key
    <3> QED BY <1>4, <2>1, <3>1, <3>2
  <2> QED BY <1>4, <2>3, <2>4
<1> QED BY <1>1, <1>2, <1>3, <1>4 DEF run

\* The keys stay the same keys.
LEMMA KeysStay ==
  ASSUME TypeInv, regVector = <<>> \/ SameKeys, NEW t \in Threads, run(t)
  PROVE  SameKeys => SameKeys'
<1>1. CASE FillRegs(t) /\ regVector' = RegDefs
  BY <1>1 DEF SameKeys
<1>2. ASSUME outer[t] < Len(regVector), NEW s \in Seq(Values),
             regVector' = [regVector EXCEPT ![outer[t] + 1].values = s]
      PROVE  SameKeys => SameKeys'
  <2>1. /\ Len(regVector') = Len(regVector)
        /\ \A i \in 1..Len(regVector) :
              /\ regVector'[i].handle = regVector[i].handle
              /\ regVector'[i].keyPath = regVector[i].keyPath
    BY <1>2, Erased
  <2> QED BY <2>1 DEF SameKeys
<1>3. CASE regVector' = regVector
  BY <1>3 DEF SameKeys
<1> QED BY <1>1, <1>2, <1>3, KeySteps

\* A step of a thread that leaves the event alone.
LEMMA KeysFrame ==
  ASSUME TypeInv, KeysInv, NEW t \in Threads, run(t),
         hDataReady' => hDataReady \/ Told(t),
         \A u \in Threads : Told(u)' => Told(u) \/ hDataReady
  PROVE  KeysInv'
<1>1. SameKeys => SameKeys'
  BY KeysStay DEF KeysInv
<1>2. CASE regVector' = regVector
  BY <1>1, <1>2 DEF KeysInv
<1>3. CASE FillRegs(t) /\ regVector' = RegDefs
  <2>1. SameKeys'
    BY <1>3 DEF SameKeys
  <2> QED BY <2>1 DEF KeysInv
<1>4. CASE pc[t] = "query"
  <2>1. SameKeys
    BY <1>4 DEF KeysInv, Told, Informed, Points
  <2> QED BY <1>1, <2>1 DEF KeysInv
<1> QED BY <1>2, <1>3, <1>4, KeySteps

\* Every step of a thread.
LEMMA KeysRun ==
  ASSUME TypeInv, KeysInv, NEW t \in Threads, run(t)
  PROVE  KeysInv'
<1>1. pc \in [Threads -> Points] /\ th \in [Threads -> Nat]
  BY ThreadsTyped
<1> USE <1>1 DEF Told, Informed, Points
<1>2. CASE RunAny(t)
  BY <1>2, KeysFrame DEF RunAny, ReadIndex, Signal, ResetIndex, EnterCs,
     LeaveCs
<1>3. CASE RunFill(t)
  <2>1. CASE FillRegs(t)
    <3>1. SameKeys'
      <4>1. regVector # <<>> => SameKeys /\ regVector' = regVector
        BY <2>1 DEF FillRegs, KeysInv
      <4>2. regVector = <<>> => regVector' = RegDefs
        BY <2>1 DEF FillRegs
      <4> QED BY <4>1, <4>2 DEF SameKeys
    <3> QED BY <3>1 DEF KeysInv
  <2>2. CASE FillFiles(t)
    BY <2>2, KeysFrame DEF FillFiles
  <2>3. CASE PostInit(t)
    <3>1. th[t] = 0
      BY <2>3 DEF PostInit, TypeInv, Loops, LoopsOf
    <3> QED BY <2>3, <3>1, KeysFrame DEF PostInit
  <2>4. CASE SetReady(t)
    BY <2>4, KeysFrame DEF SetReady
  <2> QED BY <1>3, <2>1, <2>2, <2>3, <2>4 DEF RunFill
<1>4. CASE RunSearch(t)
  <2>1. CASE Await(t)
    BY <2>1, KeysFrame DEF Await, TakeDataReady
  <2>2. CASE Resignal(t)
    BY <2>2, KeysFrame DEF Resignal
  <2>3. CASE SkipDrive(t) \/ ChangeDir(t) \/ SearchOver(t)
    BY <2>3, KeysFrame DEF SkipDrive, ChangeDir, SearchOver
  <2>4. CASE FindValid(t) \/ FindMiss(t)
    BY <2>4, KeysFrame DEF FindValid, FindMiss
  <2>5. CASE BlockOver(t)
    BY <2>5, KeysFrame DEF BlockOver
  <2>6. CASE FindHit(t)
    BY <2>6, KeysFrame DEF FindHit
  <2>7. CASE FullPath(t)
    BY <2>7, KeysFrame DEF FullPath
  <2> QED BY <1>4, <2>1, <2>2, <2>3, <2>4, <2>5, <2>6, <2>7 DEF RunSearch
<1>5. CASE RunDetect(t)
  BY <1>5, KeysFrame DEF RunDetect, LockDects, AddFile, AddFilePush,
     AddFileNotify, AddName, UnlockDects, EnterHwnd, AddFileAdvance
<1>6. CASE RunRegistry(t)
  BY <1>6, KeysFrame DEF RunRegistry, OpenKey, KeysOver, QueryPresent,
     QueryAbsent, QueryBeyond, ValuesOver, AddReg
<1>7. CASE RunCount(t)
  BY <1>7, KeysFrame DEF RunCount, CountWait, CountBump, CountTake, Report
<1> QED BY <1>2, <1>3, <1>4, <1>5, <1>6, <1>7 DEF run

\* Every step of the program.
LEMMA KeysNext ==
  ASSUME TypeInv, KeysInv, [Next]_vars
  PROVE  KeysInv'
<1>1. ASSUME UNCHANGED <<regVector, hDataReady>>,
             \A u \in Threads : Told(u)' => Told(u)
      PROVE  KeysInv'
  BY <1>1 DEF KeysInv, SameKeys
<1>2. CASE UNCHANGED vars
  BY <1>1, <1>2 DEF Told
<1>3. CASE Check \/ SwitchReset
  <2>1. PICK n \in Threads : pc[n] = "off" /\ pc' = [pc EXCEPT ![n] = "new"]
    BY <1>3, NewThread
  <2>2. \A u \in Threads : Told(u)' => Told(u)
    BY <1>3, <2>1, ThreadsTyped DEF Told, Informed, Check, SwitchReset
  <2> QED BY <1>1, <1>3, <2>2 DEF Check, SwitchReset
<1>4. CASE SwitchWait \/ SwitchStore
  BY <1>1, <1>4 DEF SwitchWait, SwitchStore, Told
<1>5. CASE Cancel
  BY <1>1, <1>5, ThreadsTyped DEF Cancel, Told, Informed
<1> QED BY <1>2, <1>3, <1>4, <1>5, KeysRun DEF Next, _switch

\* There are no keys at first, and nobody waits for them.
LEMMA KeysInit == Init => KeysInv
  BY DEF Init, KeysInv, Told, Informed

Untouched(i) == regVector[i].values = RegDefs[i].values

\* The first n values of the i-th key are still there.
Kept(i, n) ==
  /\ Len(regVector[i].values) >= n
  /\ \A j \in 1..n : regVector[i].values[j] = RegDefs[i].values[j]

\* Thread 2 at its key.  Beyond n values that are present the loop removes one
\* value at most at each of its steps, and never one of the n.
QueryingPast(i, n) ==
  /\ Kept(i, n)
  /\ inner[3] < n => Len(regVector[i].values) = bound[3]
  /\ inner[3] >= n => Len(regVector[i].values) >= n + bound[3] - inner[3]
  /\ n >= 1 /\ inner[3] >= 1 => someExist[3]

Querying ==
  LET i == outer[3] + 1
  IN  /\ bound[3] = Len(RegDefs[i].values)
      /\ \A n \in 0..Len(RegDefs[i].values) :
           Leading(RegDefs[i], n) => QueryingPast(i, n)

Queried ==
  LET i == outer[3] + 1
  IN  \A n \in 0..Len(RegDefs[i].values) :
        Leading(RegDefs[i], n) => Kept(i, n) /\ (n >= 1 => someExist[3])

Saved(i) ==
  KeyOpens(RegDefs[i]) =>
    \A j \in 1..Len(RegDefs[i].values) :
      Leading(RegDefs[i], j) => Recorded(RegDefs[i], RegDefs[i].values[j])

Early == {"off", "new", "signal", "enter", "incs", "await"}

\* What thread 2 has behind it and before it.  It may be terminated, but not
\* before it has finished when all three have been counted.
ValuesInv ==
  /\ pc[3] \in Early => outer[3] = 0
  /\ pc[3] \in Early \cup {"open"} /\ SameKeys =>
       \A i \in outer[3] + 1..Len(RegDefs) : Untouched(i)
  /\ pc[3] \in {"query", "addreg"} =>
       \A i \in outer[3] + 2..Len(RegDefs) : Untouched(i)
  /\ pc[3] = "query" => Querying
  /\ pc[3] = "addreg" /\ KeyOpens(RegDefs[outer[3] + 1]) => Queried
  /\ pc[3] \in {"open", "query", "addreg"} => \A i \in 1..outer[3] : Saved(i)
  /\ \/ pc[3] \in Searched
     \/ threadDone > Ended(1) + Ended(2)
     => \A i \in 1..Len(RegDefs) : Saved(i)

\* Removing one element of a list.
LEMMA Removed ==
  ASSUME NEW S, NEW s \in Seq(S), NEW i \in 1..Len(s)
  PROVE  /\ Len(RemoveAt(s, i)) = Len(s) - 1
         /\ \A j \in 1..i - 1 : RemoveAt(s, i)[j] = s[j]
<1> DEFINE a == SubSeq(s, 1, i - 1)
           b == SubSeq(s, i + 1, Len(s))
<1>0. a \in Seq(S) /\ b \in Seq(S)
  OBVIOUS
<1>1. /\ Len(a) = i - 1 /\ Len(b) = Len(s) - i
      /\ \A j \in 1..i - 1 : a[j] = s[j]
  OBVIOUS
<1>2. RemoveAt(s, i) = a \o b
  BY DEF RemoveAt
<1>3. Len(s) \in Nat /\ i \in Nat
  BY LenProperties
<1> HIDE DEF a, b
<1>4. Len(a \o b) = Len(a) + Len(b) /\ \A j \in 1..Len(a) : (a \o b)[j] = a[j]
  BY <1>0, ConcatProperties
<1>5. Len(a \o b) = Len(s) - 1
  BY <1>1, <1>3, <1>4
<1> QED BY <1>1, <1>2, <1>4, <1>5

\* What has been recorded stays recorded.
LEMMA SavedStays ==
  ASSUME TypeInv,
         regS' = regS \/ \E k \in RegKeys : regS' = Append(regS, k)
  PROVE  \A i : Saved(i) => Saved(i)'
<1> SUFFICES ASSUME NEW k, NEW v, Recorded(k, v) PROVE Recorded(k, v)'
  BY DEF Saved
<1>1. CASE regS' = regS
  BY <1>1 DEF Recorded
<1>2. ASSUME NEW q \in RegKeys, regS' = Append(regS, q)
      PROVE  Recorded(k, v)'
  <2>1. regS \in Seq(RegKeys)
    BY DEF TypeInv, TypeOK, DectTypeOK
  <2>2. /\ Len(regS') = Len(regS) + 1 /\ Len(regS) \in Nat
        /\ \A i \in 1..Len(regS) : regS'[i] = regS[i]
    BY <1>2, <2>1, AppendProperties, LenProperties
  <2>3. \A i \in 1..Len(regS) : i \in 1..Len(regS')
    BY <2>2
  <2> QED BY <2>2, <2>3 DEF Recorded
<1> QED BY <1>1, <1>2

\* Nobody is counted before the end of its search.
LEMMA CountedThird ==
  ASSUME TypeInv, checks <= 1, NEW t \in Threads, run(t),
         threadDone' > Ended(1)' + Ended(2)'
  PROVE  threadDone > Ended(1) + Ended(2) \/ (t = 3 /\ pc[3] = "bump")
<1>1. threadDone \in Nat /\ pc \in [Threads -> Points] /\ 1 \in Threads
      /\ 2 \in Threads /\ 3 \in Threads
  BY CountTyped
<1>2. CASE CountBump(t)
  <2>1. /\ pc[t] = "bump" /\ pc' = [pc EXCEPT ![t] = "take"]
        /\ threadDone' = threadDone + 1
    BY <1>2 DEF CountBump
  <2>2. t \in {1, 2, 3}
    BY <2>1, ThreeThreads
  <2>3. ASSUME t # 3 PROVE threadDone > Ended(1) + Ended(2)
    <3>1. Ended(1)' + Ended(2)' = Ended(1) + Ended(2) + 1
      BY <1>1, <2>1, <2>2, <2>3 DEF Ended, Bumped
    <3>2. Ended(1) + Ended(2) \in Nat
      BY DEF Ended
    <3> QED BY <1>1, <2>1, <3>1, <3>2
  <2> QED BY <2>1, <2>3
<1>3. CASE ~CountBump(t)
  <2>1. threadDone' = threadDone /\ \A u \in Threads : pc[u] \in Bumped => pc'[u] \in Bumped
    <3>1. CASE RunAny(t) \/ RunFill(t) \/ RunCount(t)
      BY <1>1, <1>3, <3>1 DEF RunAny, ReadIndex, Signal, ResetIndex, EnterCs,
         LeaveCs, RunFill, FillFiles, FillRegs, PostInit, SetReady, RunCount,
         CountWait, CountTake, Report, Bumped
    <3>2. CASE RunSearch(t)
      BY <1>1, <3>2 DEF RunSearch, Await, Resignal, SkipDrive, ChangeDir,
         SearchOver, FindHit, FindValid, FindMiss, BlockOver, FullPath, Bumped
    <3>3. CASE RunDetect(t)
      BY <1>1, <3>3 DEF RunDetect, LockDects, AddFile, AddFilePush,
         AddFileNotify, AddName, UnlockDects, EnterHwnd, AddFileAdvance, Bumped
    <3>4. CASE RunRegistry(t)
      BY <1>1, <3>4 DEF RunRegistry, OpenKey, KeysOver, QueryPresent,
         QueryAbsent, QueryBeyond, ValuesOver, AddReg, Bumped
    <3> QED BY <3>1, <3>2, <3>3, <3>4 DEF run
  <2>2. \A u \in {1, 2} : /\ Ended(u) \in 0..1 /\ Ended(u)' \in 0..1
                          /\ Ended(u) = 1 => Ended(u)' = 1
    BY <1>1, <2>1 DEF Ended
  <2>3. Ended(1) + Ended(2) <= Ended(1)' + Ended(2)'
    BY <2>2
  <2>4. Ended(1) + Ended(2) \in Nat /\ Ended(1)' + Ended(2)' \in Nat
    BY <2>2
  <2> QED BY <1>1, <2>1, <2>3, <2>4
<1> QED BY <1>2, <1>3

\* A step that leaves the keys, and thread 2's place at them, alone.
LEMMA ValuesFrame ==
  ASSUME ValuesInv, UNCHANGED <<regVector, regS>>,
         outer'[3] = outer[3], inner'[3] = inner[3], bound'[3] = bound[3],
         someExist'[3] = someExist[3],
         pc'[3] \in Early => pc[3] \in Early,
         pc'[3] \in Early \cup {"open"} => pc[3] \in Early \cup {"open"},
         pc'[3] = "open" => pc[3] = "open",
         pc'[3] = "query" => pc[3] = "query",
         pc'[3] = "addreg" => pc[3] = "addreg",
         pc'[3] \in Searched => pc[3] \in Searched,
         threadDone' > Ended(1)' + Ended(2)'
           => threadDone > Ended(1) + Ended(2) \/ pc[3] = "bump"
  PROVE  ValuesInv'
<1>1. \A i : Saved(i) <=> Saved(i)'
  BY DEF Saved, Recorded
<1>2. \A i : Untouched(i) <=> Untouched(i)'
  BY DEF Untouched
<1>3. SameKeys <=> SameKeys'
  BY DEF SameKeys
<1>4. (Querying <=> Querying') /\ (Queried <=> Queried')
  BY DEF Querying, QueryingPast, Queried, Kept
<1> QED BY <1>1, <1>2, <1>3, <1>4 DEF ValuesInv, Searched

\* The keys are filled in while thread 2 has yet to wait for them.
LEMMA ValuesFill ==
  ASSUME TypeInv, KeysInv, ValuesInv, NEW t \in Threads, t # 3, FillRegs(t),
         regVector = <<>>, regVector' = RegDefs
  PROVE  ValuesInv'
<1>1. /\ pc'[3] = pc[3] /\ outer'[3] = outer[3]
      /\ UNCHANGED <<regS, threadDone>>
      /\ pc[t] = "fill" /\ pc' = [pc EXCEPT ![t] = "enter"]
  BY ThreadsTyped DEF FillRegs
<1>2. CASE regVector' = regVector
  <2>1. UNCHANGED <<inner, bound, someExist>>
    BY DEF FillRegs
  <2>2. Ended(1)' = Ended(1) /\ Ended(2)' = Ended(2)
    BY <1>1, ThreadsTyped DEF Ended, Bumped
  <2> QED BY <1>1, <1>2, <2>1, <2>2, ValuesFrame
<1>3. CASE regVector' # regVector
  <2>1. ~SameKeys
    <3>1. Len(regVector) = 0
      OBVIOUS
    <3>2. Len(RegDefs) # 0
      BY <1>3, ConstantsTyped, EmptySeq
    <3> QED BY <3>1, <3>2 DEF SameKeys
  <2>2. pc[3] \notin {"open", "query", "addreg"}
    BY <2>1, ThreadsTyped DEF KeysInv, Told, Informed, Points
  <2>3. Ended(1)' = Ended(1) /\ Ended(2)' = Ended(2)
    BY <1>1, ThreadsTyped DEF Ended, Bumped
  <2>4. \A i : Saved(i) <=> Saved(i)'
    BY <1>1 DEF Saved, Recorded
  <2>5. \A i : Untouched(i)'
    BY DEF Untouched
  <2> QED BY <1>1, <2>2, <2>3, <2>4, <2>5 DEF ValuesInv
<1> QED BY <1>2, <1>3

\* The other threads leave thread 2 alone.
LEMMA ValuesOthers ==
  ASSUME TypeInv, HandoverInv, checks <= 1, KeysInv, ValuesInv,
         NEW t \in Threads, run(t), t # 3
  PROVE  ValuesInv'
<1>1. /\ pc \in [Threads -> Points] /\ 3 \in Threads /\ t \in Nat
      /\ outer \in [Threads -> Nat] /\ inner \in [Threads -> Nat]
      /\ bound \in [Threads -> Nat] /\ someExist \in [Threads -> BOOLEAN]
  BY ThreadsTyped, CountTyped
<1>2. ~RunRegistry(t)
  <2>1. LoopsOf(t) /\ (Dispatched(t) => th[t] = t - 1)
    BY OneCheck DEF TypeInv, Loops
  <2>2. pc[t] \in {"open", "query", "addreg"} => FALSE
    BY <1>1, <2>1 DEF LoopsOf, Dispatched
  <2> QED BY <2>2 DEF RunRegistry, OpenKey, KeysOver, QueryPresent,
             QueryAbsent, QueryBeyond, ValuesOver, AddReg
<1>3. /\ pc'[3] = pc[3] /\ outer'[3] = outer[3] /\ inner'[3] = inner[3]
      /\ bound'[3] = bound[3] /\ someExist'[3] = someExist[3] /\ regS' = regS
  <2>1. CASE RunAny(t)
    BY <1>1, <2>1 DEF RunAny, ReadIndex, Signal, ResetIndex, EnterCs, LeaveCs
  <2>2. CASE RunFill(t) \/ RunCount(t)
    BY <1>1, <2>2 DEF RunFill, FillFiles, FillRegs, PostInit, SetReady,
       RunCount, CountWait, CountBump, CountTake, Report
  <2>3. CASE RunSearch(t)
    BY <1>1, <2>3 DEF RunSearch, Await, Resignal, SkipDrive, ChangeDir,
       SearchOver, FindHit, FindValid, FindMiss, BlockOver, FullPath
  <2>4. CASE RunDetect(t)
    BY <1>1, <2>4 DEF RunDetect, LockDects, AddFile, AddFilePush,
       AddFileNotify, AddName, UnlockDects, EnterHwnd, AddFileAdvance
  <2> QED BY <1>2, <2>1, <2>2, <2>3, <2>4 DEF run
<1>4. threadDone' > Ended(1)' + Ended(2)' => threadDone > Ended(1) + Ended(2)
  BY CountedThird
<1>5. CASE regVector' = regVector
  BY <1>3, <1>4, <1>5, ValuesFrame
<1>6. ~QueryAbsent(t) /\ ~QueryBeyond(t)
  BY <1>2 DEF RunRegistry
<1> QED BY <1>5, <1>6, KeySteps, ValuesFill

\* The third thread has role 2.
LEMMA ThirdThread ==
  ASSUME TypeInv, HandoverInv, checks <= 1
  PROVE  /\ Dispatched(3) => th[3] = 2
         /\ pc[3] \notin {"reset", "fill", "init", "ready", "resignal", "chdir"}
         /\ pc[3] \notin Searching
<1>1. 3 \in Threads /\ pc[3] # "reset"
  BY CountTyped, OneCheck
<1>2. Dispatched(3) => th[3] = 2
  BY <1>1, OneCheck
<1>3. LoopsOf(3)
  BY <1>1 DEF TypeInv, Loops
<1> QED BY <1>1, <1>2, <1>3 DEF LoopsOf, Dispatched, Searching

\* The key thread 2 is at is a key of the definitions.
LEMMA KeyThird ==
  ASSUME TypeInv, SameKeys, outer[3] < Len(regVector)
  PROVE  /\ outer[3] + 1 \in 1..Len(RegDefs)
         /\ Key(3) = regVector[outer[3] + 1] /\ Key(3) \in RegKeys
         /\ Key(3).values \in Seq(Values) /\ Len(Key(3).values) \in Nat
         /\ RegDefs[outer[3] + 1].values \in Seq(Values)
         /\ Len(RegDefs[outer[3] + 1].values) \in Nat
         /\ KeyOpens(Key(3)) <=> KeyOpens(RegDefs[outer[3] + 1])
         /\ \A v : ValuePresent(Key(3), v)
                     <=> ValuePresent(RegDefs[outer[3] + 1], v)
<1>1. outer[3] + 1 \in 1..Len(regVector) /\ Key(3) \in RegKeys
  BY CountTyped, KeyTyped
<1>2. outer[3] + 1 \in 1..Len(RegDefs) /\ Key(3) = regVector[outer[3] + 1]
  BY <1>1 DEF SameKeys, Key
<1>3. RegDefs[outer[3] + 1] \in RegKeys
  BY <1>2, ConstantsTyped, ElementOfSeq
<1>4. /\ Key(3).values \in Seq(Values)
      /\ RegDefs[outer[3] + 1].values \in Seq(Values)
  BY <1>1, <1>3 DEF RegKeys
<1>5. /\ Key(3).handle = RegDefs[outer[3] + 1].handle
      /\ Key(3).keyPath = RegDefs[outer[3] + 1].keyPath
  BY <1>2 DEF SameKeys
<1> QED BY <1>1, <1>2, <1>4, <1>5, LenProperties DEF KeyOpens, ValuePresent

\* The next key: all of its values are still there.
LEMMA ValuesOpen ==
  ASSUME TypeInv, KeysInv, ValuesInv, OpenKey(3)
  PROVE  ValuesInv'
<1>0. PICK i : i = outer[3] + 1
  OBVIOUS
<1>1. /\ pc[3] = "open" /\ outer[3] < Len(regVector)
      /\ pc'[3] = IF KeyOpens(Key(3)) THEN "query" ELSE "addreg"
      /\ inner'[3] = 0 /\ bound'[3] = Len(Key(3).values)
      /\ UNCHANGED <<regVector, regS, outer, threadDone, someExist>>
  BY ThreadsTyped DEF OpenKey
<1>2. SameKeys
  BY <1>1, ThreadsTyped DEF KeysInv, Told, Informed, Points
<1>3. /\ i \in 1..Len(RegDefs) /\ Key(3) = regVector[i]
      /\ Len(RegDefs[i].values) \in Nat
      /\ KeyOpens(Key(3)) <=> KeyOpens(RegDefs[i])
      /\ outer[3] \in Nat /\ Len(RegDefs) \in Nat
  BY <1>0, <1>1, <1>2, KeyThird, ThreadsTyped, ConstantsTyped, LenProperties
<1>4. \A k \in i..Len(RegDefs) : Untouched(k)
  BY <1>0, <1>1, <1>2 DEF ValuesInv
<1>5. regVector[i].values = RegDefs[i].values /\ regVector' = regVector
  BY <1>1, <1>3, <1>4 DEF Untouched
<1>6. pc'[3] = "query" => Querying'
  <2>1. /\ bound'[3] = Len(RegDefs[i].values) /\ inner'[3] = 0
        /\ Len(regVector[i].values) = bound'[3]
        /\ outer'[3] + 1 = i
    BY <1>0, <1>1, <1>3, <1>5
  <2>2. ASSUME NEW n \in 0..Len(RegDefs[i].values)
        PROVE  QueryingPast(i, n)'
    <3>1. Kept(i, n)'
      BY <1>3, <1>5, <2>2 DEF Kept
    <3>2. n <= bound'[3] /\ n \in Nat /\ ~(inner'[3] >= 1)
      BY <1>3, <2>1, <2>2
    <3>3. 0 >= n => Len(regVector[i].values) >= n + bound'[3] - 0
      BY <1>3, <2>1, <3>2
    <3> QED BY <1>5, <2>1, <3>1, <3>2, <3>3 DEF QueryingPast
  <2> QED BY <2>1, <2>2 DEF Querying
<1>7. pc'[3] = "addreg" => ~KeyOpens(RegDefs[i])
  BY <1>1, <1>3
<1>8. \A k \in outer[3] + 2..Len(RegDefs) : Untouched(k)
  BY <1>0, <1>3, <1>4
<1>9. \A k : Saved(k) <=> Saved(k)'
  BY <1>1 DEF Saved, Recorded
<1>10. \A k : Untouched(k) <=> Untouched(k)'
  BY <1>1 DEF Untouched
<1>11. threadDone' > Ended(1)' + Ended(2)' => threadDone > Ended(1) + Ended(2)
  BY <1>1, ThreadsTyped DEF OpenKey, Ended, Bumped
<1> QED BY <1>0, <1>1, <1>6, <1>7, <1>8, <1>9, <1>10, <1>11
        DEF ValuesInv, Early, Searched

\* All keys are behind.
LEMMA ValuesEnd ==
  ASSUME TypeInv, KeysInv, ValuesInv, KeysOver(3)
  PROVE  ValuesInv'
<1>1. /\ pc[3] = "open" /\ outer[3] >= Len(regVector) /\ pc'[3] = "count"
      /\ UNCHANGED <<regVector, regS, outer, threadDone, someExist>>
  BY ThreadsTyped DEF KeysOver
<1>2. SameKeys
  BY <1>1, ThreadsTyped DEF KeysInv, Told, Informed, Points
<1>3. outer[3] >= Len(RegDefs) /\ outer[3] \in Nat /\ Len(RegDefs) \in Nat
  BY <1>1, <1>2, ThreadsTyped, ConstantsTyped, LenProperties DEF SameKeys
<1>4. \A k \in 1..Len(RegDefs) : k \in 1..outer[3]
  BY <1>3
<1>5. \A k \in 1..Len(RegDefs) : Saved(k)'
  BY <1>1, <1>4 DEF ValuesInv, Saved, Recorded
<1> QED BY <1>1, <1>5 DEF ValuesInv, Early, Searched

\* The key is recorded, with the values that are in the registry.
LEMMA ValuesRecord ==
  ASSUME TypeInv, KeysInv, ValuesInv, AddReg(3)
  PROVE  ValuesInv'
<1>0. PICK i : i = outer[3] + 1
  OBVIOUS
<1>1. /\ pc[3] = "addreg" /\ pc'[3] = "open" /\ outer'[3] = outer[3] + 1
      /\ UNCHANGED <<regVector, threadDone, someExist>>
      /\ regS' = IF someExist[3] THEN Append(regS, Key(3)) ELSE regS
  BY ThreadsTyped DEF AddReg, addReg
<1>2. SameKeys /\ outer[3] < Len(regVector) /\ outer[3] \in Nat
  BY <1>1, ThreadsTyped DEF KeysInv, Told, Informed, Points, TypeInv, Loops,
     LoopsOf
<1>3. /\ i \in 1..Len(RegDefs) /\ Key(3) = regVector[i] /\ Key(3) \in RegKeys
      /\ Len(regVector[i].values) \in Nat
      /\ regVector[i].handle = RegDefs[i].handle
      /\ regVector[i].keyPath = RegDefs[i].keyPath
  BY <1>0, <1>2, KeyThird DEF SameKeys
<1>4. regS' = regS \/ \E k \in RegKeys : regS' = Append(regS, k)
  BY <1>1, <1>3
<1>5. \A k : Saved(k) => Saved(k)'
  BY <1>4, SavedStays
<1>6. Saved(i)'
  <2> SUFFICES ASSUME KeyOpens(RegDefs[i]), NEW j \in 1..Len(RegDefs[i].values),
                      Leading(RegDefs[i], j)
               PROVE  Recorded(RegDefs[i], RegDefs[i].values[j])'
    BY DEF Saved
  <2>1. j \in 0..Len(RegDefs[i].values) /\ j >= 1 /\ j \in 1..j
    OBVIOUS
  <2>2. Kept(i, j) /\ someExist[3]
    BY <1>0, <1>1, <2>1 DEF ValuesInv, Queried
  <2>3. /\ regVector[i].values[j] = RegDefs[i].values[j]
        /\ j \in 1..Len(regVector[i].values)
    BY <1>3, <2>1, <2>2 DEF Kept
  <2>4. /\ regS' = Append(regS, regVector[i]) /\ regS \in Seq(RegKeys)
        /\ regVector[i] \in RegKeys
    BY <1>1, <1>3, <2>2 DEF TypeInv, TypeOK, DectTypeOK
  <2>5. /\ Len(regS') = Len(regS) + 1 /\ Len(regS) \in Nat
        /\ regS'[Len(regS) + 1] = regVector[i]
    BY <2>4, AppendProperties, LenProperties
  <2>6. Len(regS) + 1 \in 1..Len(regS')
    BY <2>5
  <2> QED BY <1>3, <2>3, <2>5, <2>6 DEF Recorded
<1>7. \A k \in 1..outer'[3] : k \in 1..outer[3] \/ k = i
  BY <1>0, <1>1, <1>2
<1>8. \A k \in outer'[3] + 1..Len(RegDefs) : k \in outer[3] + 2..Len(RegDefs)
  BY <1>1, <1>2, ConstantsTyped
<1>9. \A k : Untouched(k) <=> Untouched(k)'
  BY <1>1 DEF Untouched
<1>11. threadDone' > Ended(1)' + Ended(2)' => threadDone > Ended(1) + Ended(2)
  BY <1>1, ThreadsTyped DEF AddReg, Ended, Bumped
<1> QED BY <1>1, <1>5, <1>6, <1>7, <1>8, <1>9, <1>11
        DEF ValuesInv, Early, Searched

\* Removing the last element of a list.
LEMMA Shortened ==
  ASSUME NEW S, NEW s \in Seq(S), Len(s) > 0
  PROVE  /\ SubSeq(s, 1, Len(s) - 1) \in Seq(S)
         /\ Len(SubSeq(s, 1, Len(s) - 1)) = Len(s) - 1
         /\ \A j \in 1..Len(s) - 1 : SubSeq(s, 1, Len(s) - 1)[j] = s[j]
<1>1. ASSUME NEW i \in 1..Len(s)
      PROVE  /\ SubSeq(s, 1, i - 1) \in Seq(S)
             /\ Len(SubSeq(s, 1, i - 1)) = i - 1
             /\ \A j \in 1..i - 1 : SubSeq(s, 1, i - 1)[j] = s[j]
  OBVIOUS
<1>2. Len(s) \in 1..Len(s)
  BY LenProperties
<1> QED BY <1>1, <1>2

\* One query that leaves the values v, or takes one of them away.
Passed(v, r) == r = v /\ someExist'[3]
Shorter(v, r) == someExist'[3] = someExist[3] /\ Len(r) = Len(v) - 1

\* What one query does to the values v of its key, and to someExist: it passes a
\* present value, erases an absent one, or is past the end.
LEMMA QuerySteps ==
  ASSUME TypeInv, SameKeys, NEW i, i = outer[3] + 1,
         NEW v, v = regVector[i].values, NEW r, r = regVector'[i].values,
         QueryPresent(3) \/ QueryAbsent(3) \/ QueryBeyond(3)
  PROVE  /\ inner[3] < bound[3] /\ v \in Seq(Values)
         /\ \/ Passed(v, r)
            \/ /\ Shorter(v, r)
               /\ inner[3] + 1 \in 1..Len(v)
               /\ ~ValuePresent(RegDefs[i], v[inner[3] + 1])
               /\ \A j \in 1..inner[3] : r[j] = v[j]
            \/ /\ Shorter(v, r)
               /\ inner[3] >= Len(v)
               /\ \A j \in 1..Len(v) - 1 : r[j] = v[j]
         /\ \A k \in 1..Len(RegDefs) : k # i => regVector'[k] = regVector[k]
<1>1. outer[3] < Len(regVector) /\ inner[3] < bound[3]
  <2>1. LoopsOf(3) /\ pc[3] = "query"
    BY CountTyped DEF TypeInv, Loops, QueryPresent, QueryAbsent, QueryBeyond
  <2> QED BY <2>1 DEF LoopsOf, QueryPresent, QueryAbsent, QueryBeyond
<1>2. /\ Key(3).values = v /\ Len(regVector) = Len(RegDefs)
      /\ v \in Seq(Values) /\ Len(v) \in Nat
      /\ \A w : ValuePresent(Key(3), w) <=> ValuePresent(RegDefs[i], w)
  BY <1>1, KeyThird DEF SameKeys
<1>3. inner[3] \in Nat /\ someExist \in [Threads -> BOOLEAN] /\ 3 \in Threads
  BY ThreadsTyped
<1>4. ASSUME NEW s \in Seq(Values),
             regVector' = [regVector EXCEPT ![outer[3] + 1].values = s]
      PROVE  /\ r = s
             /\ \A k \in 1..Len(RegDefs) : k # i => regVector'[k] = regVector[k]
  <2>1. /\ regVector'[outer[3] + 1].values = s
        /\ \A k \in 1..Len(regVector) :
              k # outer[3] + 1 => regVector'[k] = regVector[k]
    BY <1>1, <1>3, <1>4, Erased
  <2> QED BY <1>2, <2>1
<1>5. CASE QueryAbsent(3)
  <2>1. PICK s : s = RemoveAt(v, inner[3] + 1)
    OBVIOUS
  <2>2. /\ regVector' = [regVector EXCEPT ![outer[3] + 1].values = s]
        /\ someExist'[3] = someExist[3] /\ inner[3] < Len(v)
        /\ ~ValuePresent(RegDefs[i], v[inner[3] + 1])
    <3>1. regVector' = [regVector EXCEPT ![outer[3] + 1].values =
                                    RemoveAt(Key(3).values, inner[3] + 1)]
      BY <1>5 DEF QueryAbsent, Key
    <3> QED BY <1>2, <1>5, <2>1, <3>1 DEF QueryAbsent
  <2>3. inner[3] + 1 \in 1..Len(v)
    BY <1>2, <1>3, <2>2
  <2>4. /\ s \in Seq(Values) /\ Len(s) = Len(v) - 1
        /\ \A j \in 1..(inner[3] + 1) - 1 : s[j] = v[j]
    BY <1>2, <2>1, <2>3, Removed, RemoveAtTyped
  <2>5. (inner[3] + 1) - 1 = inner[3]
    BY <1>3
  <2>6. r = s /\ \A k \in 1..Len(RegDefs) : k # i => regVector'[k] = regVector[k]
    BY <1>4, <2>2, <2>4
  <2>7. Shorter(v, r) /\ \A j \in 1..inner[3] : r[j] = v[j]
    BY <2>2, <2>4, <2>5, <2>6 DEF Shorter
  <2> QED BY <1>1, <1>2, <2>2, <2>3, <2>6, <2>7
<1>6. CASE QueryBeyond(3) /\ ~(regVector' = regVector /\ someExist'[3])
  <2>1. PICK s : s = SubSeq(v, 1, Len(v) - 1)
    OBVIOUS
  <2>2. /\ regVector' = [regVector EXCEPT ![outer[3] + 1].values = s]
        /\ someExist'[3] = someExist[3] /\ v # <<>> /\ inner[3] >= Len(v)
    <3>1. SomeExists(3) /\ regVector' = regVector => FALSE
      BY <1>3, <1>6 DEF SomeExists
    <3>2. /\ Key(3).values # <<>> /\ someExist' = someExist
          /\ regVector' = [regVector EXCEPT ![outer[3] + 1].values =
                       SubSeq(Key(3).values, 1, Len(Key(3).values) - 1)]
      BY <1>6, <3>1 DEF QueryBeyond, Key
    <3> QED BY <1>2, <1>6, <2>1, <3>2 DEF QueryBeyond
  <2>3. Len(v) > 0
    BY <1>2, <2>2, EmptySeq
  <2>4. /\ s \in Seq(Values) /\ Len(s) = Len(v) - 1
        /\ \A j \in 1..Len(v) - 1 : s[j] = v[j]
    BY <1>2, <2>1, <2>3, Shortened
  <2>5. r = s /\ \A k \in 1..Len(RegDefs) : k # i => regVector'[k] = regVector[k]
    BY <1>4, <2>2, <2>4
  <2>6. Shorter(v, r) /\ \A j \in 1..Len(v) - 1 : r[j] = v[j]
    BY <2>2, <2>4, <2>5 DEF Shorter
  <2> QED BY <1>1, <1>2, <2>2, <2>5, <2>6
<1>7. CASE regVector' = regVector /\ someExist'[3]
  BY <1>1, <1>2, <1>7 DEF Passed
<1>8. QueryPresent(3) => regVector' = regVector /\ someExist'[3]
  BY <1>3 DEF QueryPresent, SomeExists
<1> QED BY <1>5, <1>6, <1>7, <1>8

\* The count of the values that are left, at the x-th of b queries.
LEMMA ValuesLeft ==
  ASSUME NEW n \in Nat, NEW b \in Nat, NEW x \in Nat, NEW l \in Nat,
         n <= b, x < b, x < n => l = b, x >= n => l >= n + b - x
  PROVE  /\ x + 1 < n => l = b
         /\ x + 1 >= n => l >= n + b - (x + 1)
         /\ x >= l => x >= n
         /\ x >= n => /\ l - 1 >= n /\ l - 1 >= n + b - (x + 1)
                      /\ ~(x + 1 < n)
                      /\ \A j \in 1..n : j \in 1..x /\ j \in 1..l - 1
         /\ x < n => x + 1 \in 1..n /\ x + 1 \in 1..b /\ x + 1 <= n
         /\ n >= 1 /\ x >= n => x >= 1
  OBVIOUS

\* The query passes the values that are present first, and erases at most one
\* of the others at each of its steps.
LEMMA ValuesQuery ==
  ASSUME TypeInv, KeysInv, ValuesInv,
         QueryPresent(3) \/ QueryAbsent(3) \/ QueryBeyond(3)
  PROVE  ValuesInv'
<1>0. PICK i : i = outer[3] + 1
  OBVIOUS
<1>1. /\ pc[3] = "query" /\ pc'[3] = "query" /\ inner'[3] = inner[3] + 1
      /\ UNCHANGED <<pc, regS, outer, bound, threadDone>>
  BY ThreadsTyped DEF QueryPresent, QueryAbsent, QueryBeyond
<1>2. SameKeys /\ outer[3] < Len(regVector)
  BY <1>1, ThreadsTyped DEF KeysInv, Told, Informed, Points, TypeInv, Loops,
     LoopsOf
<1>3. PICK v, r : v = regVector[i].values /\ r = regVector'[i].values
  OBVIOUS
<1>4. /\ inner[3] < bound[3] /\ v \in Seq(Values)
      /\ \/ Passed(v, r)
         \/ /\ Shorter(v, r)
            /\ inner[3] + 1 \in 1..Len(v)
            /\ ~ValuePresent(RegDefs[i], v[inner[3] + 1])
            /\ \A j \in 1..inner[3] : r[j] = v[j]
         \/ /\ Shorter(v, r)
            /\ inner[3] >= Len(v)
            /\ \A j \in 1..Len(v) - 1 : r[j] = v[j]
      /\ \A k \in 1..Len(RegDefs) : k # i => regVector'[k] = regVector[k]
  BY <1>0, <1>2, <1>3, QuerySteps, SMTT(60)
<1>5. /\ inner[3] \in Nat /\ bound[3] \in Nat /\ outer[3] \in Nat
      /\ Len(v) \in Nat /\ Len(RegDefs[i].values) \in Nat
      /\ i \in 1..Len(RegDefs)
  BY <1>0, <1>2, <1>3, ThreadsTyped, KeyThird
<1>6. /\ bound[3] = Len(RegDefs[i].values)
      /\ \A n \in 0..Len(RegDefs[i].values) :
           Leading(RegDefs[i], n) => QueryingPast(i, n)
  BY <1>0, <1>1 DEF ValuesInv, Querying
<1>7. ASSUME NEW n \in 0..Len(RegDefs[i].values), Leading(RegDefs[i], n)
      PROVE  /\ Len(r) >= n /\ \A j \in 1..n : r[j] = RegDefs[i].values[j]
             /\ inner[3] + 1 < n => Len(r) = bound[3]
             /\ inner[3] + 1 >= n => Len(r) >= n + bound[3] - (inner[3] + 1)
             /\ n >= 1 => someExist'[3]
  <2>0. /\ Len(v) >= n /\ \A j \in 1..n : v[j] = RegDefs[i].values[j]
        /\ bound[3] = Len(RegDefs[i].values)
        /\ inner[3] < n => Len(v) = bound[3]
        /\ inner[3] >= n => Len(v) >= n + bound[3] - inner[3]
        /\ n >= 1 /\ inner[3] >= 1 => someExist[3]
    BY <1>3, <1>6, <1>7 DEF QueryingPast, Kept
  <2>1. PICK x, l, b : x = inner[3] /\ l = Len(v) /\ b = bound[3]
    OBVIOUS
  <2>2. /\ n \in Nat /\ b \in Nat /\ x \in Nat /\ l \in Nat /\ n <= b /\ x < b
        /\ x < n => l = b
        /\ x >= n => l >= n + b - x
    BY <1>4, <1>5, <2>0, <2>1
  <2>3. /\ x + 1 < n => l = b
        /\ x + 1 >= n => l >= n + b - (x + 1)
        /\ x >= l => x >= n
        /\ x >= n => /\ l - 1 >= n /\ l - 1 >= n + b - (x + 1)
                     /\ ~(x + 1 < n)
                     /\ \A j \in 1..n : j \in 1..x /\ j \in 1..l - 1
        /\ x < n => x + 1 \in 1..n /\ x + 1 \in 1..b /\ x + 1 <= n
        /\ n >= 1 /\ x >= n => x >= 1
    BY <2>2, ValuesLeft
  <2>4. CASE Passed(v, r)
    BY <2>0, <2>1, <2>3, <2>4 DEF Passed
  <2>5. CASE x >= n /\ Shorter(v, r) /\ \A j \in 1..n : r[j] = v[j]
    BY <2>0, <2>1, <2>3, <2>5 DEF Shorter
  <2>6. CASE /\ Shorter(v, r)
             /\ x + 1 \in 1..l
             /\ ~ValuePresent(RegDefs[i], v[x + 1])
             /\ \A j \in 1..x : r[j] = v[j]
    <3>1. x >= n
      <4> SUFFICES ASSUME x < n PROVE FALSE
        BY <2>2
      <4>1. x + 1 \in 1..n /\ x + 1 \in 1..Len(RegDefs[i].values) /\ x + 1 <= n
        BY <2>0, <2>1, <2>3
      <4>2. v[x + 1] = RegDefs[i].values[x + 1]
        BY <2>0, <4>1
      <4>3. ValuePresent(RegDefs[i], RegDefs[i].values[x + 1])
        BY <1>7, <4>1 DEF Leading
      <4> QED BY <2>6, <4>2, <4>3
    <3>2. \A j \in 1..n : r[j] = v[j]
      BY <2>3, <2>6, <3>1
    <3> QED BY <2>5, <2>6, <3>1, <3>2
  <2>7. CASE Shorter(v, r) /\ x >= l /\ \A j \in 1..l - 1 : r[j] = v[j]
    <3>1. x >= n /\ \A j \in 1..n : r[j] = v[j]
      BY <2>3, <2>7
    <3> QED BY <2>5, <2>7, <3>1
  <2> QED BY <1>4, <2>1, <2>4, <2>6, <2>7
<1>8. Querying'
  <2>1. /\ outer'[3] + 1 = i /\ inner'[3] = inner[3] + 1 /\ bound'[3] = bound[3]
        /\ regVector'[i].values = r
    BY <1>0, <1>1, <1>3
  <2>2. ASSUME NEW n \in 0..Len(RegDefs[i].values), Leading(RegDefs[i], n)
        PROVE  QueryingPast(i, n)'
    BY <1>7, <2>1, <2>2 DEF QueryingPast, Kept
  <2> QED BY <1>6, <2>1, <2>2 DEF Querying
<1>9. \A k \in outer[3] + 2..Len(RegDefs) : Untouched(k)'
  <2>1. \A k \in outer[3] + 2..Len(RegDefs) :
          k \in 1..Len(RegDefs) /\ k # i /\ Untouched(k)
    BY <1>0, <1>1, <1>5 DEF ValuesInv
  <2> QED BY <1>4, <2>1 DEF Untouched
<1>10. \A k : Saved(k) <=> Saved(k)'
  BY <1>1 DEF Saved, Recorded
<1>11. threadDone' > Ended(1)' + Ended(2)' => threadDone > Ended(1) + Ended(2)
  BY <1>1 DEF Ended
<1> QED BY <1>1, <1>8, <1>9, <1>10, <1>11 DEF ValuesInv, Early, Searched

\* The steps of thread 2 that leave the keys and its place alone.
LEMMA ValuesQuiet ==
  ASSUME TypeInv, HandoverInv, checks <= 1, ValuesInv,
         RunAny(3) \/ Await(3) \/ ValuesOver(3) \/ RunCount(3)
  PROVE  ValuesInv'
<1>1. /\ pc \in [Threads -> Points] /\ 3 \in Threads
      /\ outer[3] \in Nat /\ inner[3] \in Nat /\ bound[3] \in Nat
  BY ThreadsTyped
<1>2. /\ Dispatched(3) => th[3] = 2
      /\ pc[3] # "reset"
  BY ThirdThread
<1>3. threadDone' > Ended(1)' + Ended(2)'
        => threadDone > Ended(1) + Ended(2) \/ pc[3] = "bump"
  <2>1. run(3)
    BY DEF run, RunSearch, RunRegistry
  <2> QED BY <1>1, <2>1, CountedThird
<1>4. CASE RunAny(3)
  <2>1. CASE ReadIndex(3) \/ EnterCs(3)
    BY <1>1, <1>3, <2>1, ValuesFrame DEF ReadIndex, EnterCs, Early, Searched
  <2>2. CASE Signal(3)
    <3>1. th[3] = 2
      BY <1>2, <2>2 DEF Signal, Dispatched
    <3> QED BY <1>1, <1>3, <2>2, <3>1, ValuesFrame DEF Signal, Early, Searched
  <2>3. CASE LeaveCs(3)
    <3>1. th[3] = 2
      BY <1>2, <2>3 DEF LeaveCs, Dispatched
    <3> QED BY <1>1, <1>3, <2>3, <3>1, ValuesFrame DEF LeaveCs, Early, Searched
  <2> QED BY <1>2, <1>4, <2>1, <2>2, <2>3 DEF RunAny, ResetIndex
<1>5. CASE Await(3)
  <2>1. /\ pc[3] = "await" /\ pc'[3] = "open"
        /\ UNCHANGED <<regVector, regS, outer>>
    BY <1>1, <1>2, <1>5 DEF Await, Dispatched
  <2>2. /\ outer'[3] = 0 /\ outer[3] = 0
        /\ SameKeys => \A i \in outer[3] + 1..Len(RegDefs) : Untouched(i)
    BY <2>1 DEF ValuesInv, Early
  <2>3. \A i : (Saved(i) <=> Saved(i)') /\ (Untouched(i) <=> Untouched(i)')
    BY <2>1 DEF Saved, Recorded, Untouched
  <2>4. SameKeys <=> SameKeys'
    BY <2>1 DEF SameKeys
  <2>5. \A i \in 1..0 : Saved(i)'
    OBVIOUS
  <2>6. pc[3] # "bump"
    BY <2>1
  <2> QED BY <1>3, <2>1, <2>2, <2>3, <2>4, <2>5, <2>6
          DEF ValuesInv, Early, Searched
<1>6. CASE ValuesOver(3)
  <2>1. /\ pc[3] = "query" /\ pc'[3] = "addreg" /\ inner[3] >= bound[3]
        /\ UNCHANGED <<regVector, regS, outer, someExist>>
    BY <1>1, <1>6 DEF ValuesOver
  <2>2. Queried
    <3>1. /\ bound[3] = Len(RegDefs[outer[3] + 1].values)
          /\ \A n \in 0..Len(RegDefs[outer[3] + 1].values) :
               Leading(RegDefs[outer[3] + 1], n)
                 => QueryingPast(outer[3] + 1, n)
      BY <2>1 DEF ValuesInv, Querying
    <3>2. ASSUME NEW n \in 0..Len(RegDefs[outer[3] + 1].values), n >= 1
          PROVE  inner[3] >= 1
      BY <1>1, <2>1, <3>1, <3>2
    <3> QED BY <3>1, <3>2 DEF Queried, QueryingPast
  <2>3. \A i : (Saved(i) <=> Saved(i)') /\ (Untouched(i) <=> Untouched(i)')
    BY <2>1 DEF Saved, Recorded, Untouched
  <2>4. Queried'
    BY <2>1, <2>2 DEF Queried, Kept
  <2>5. pc[3] # "bump" /\ outer'[3] = outer[3]
    BY <2>1
  <2> QED BY <1>3, <2>1, <2>3, <2>4, <2>5 DEF ValuesInv, Early, Searched
<1>7. CASE RunCount(3)
  BY <1>1, <1>3, <1>7, ValuesFrame DEF RunCount, CountWait, CountBump,
     CountTake, Report, Early, Searched
<1> QED BY <1>4, <1>5, <1>6, <1>7

\* Every step of thread 2.
LEMMA ValuesThird ==
  ASSUME TypeInv, HandoverInv, checks <= 1, KeysInv, ValuesInv,
         run(3)
  PROVE  ValuesInv'
<1>1. /\ Dispatched(3) => th[3] = 2
      /\ pc[3] \notin {"reset", "fill", "init", "ready", "resignal", "chdir"}
      /\ pc[3] \notin Searching
  BY ThirdThread
<1>2. ~RunFill(3)
  BY <1>1 DEF RunFill, FillFiles, FillRegs, PostInit, SetReady
<1>3. RunSearch(3) => Await(3)
  BY <1>1 DEF RunSearch, Resignal, SkipDrive, ChangeDir, SearchOver, FindHit,
     FindValid, FindMiss, BlockOver, FullPath, Searching
<1>4. ~RunDetect(3)
  BY <1>1 DEF RunDetect, LockDects, AddFile, AddFilePush, AddFileNotify,
     AddName, UnlockDects, EnterHwnd, AddFileAdvance, Searching
<1> QED BY <1>2, <1>3, <1>4, ValuesQuiet, ValuesOpen, ValuesEnd, ValuesQuery,
           ValuesRecord DEF run, RunRegistry

\* Every step of the program.
LEMMA ValuesNext ==
  ASSUME TypeInv, HandoverInv, checks <= 1, KeysInv, ValuesInv,
         [Next]_vars
  PROVE  ValuesInv'
<1>1. ASSUME UNCHANGED <<regVector, regS, outer, inner, bound, someExist,
                         threadDone>>,
             Ended(1) <= Ended(1)', Ended(2) <= Ended(2)',
             \/ pc'[3] = pc[3] \/ pc'[3] = "killed"
             \/ pc[3] = "off" /\ pc'[3] = "new"
      PROVE  ValuesInv'
  <2>1. threadDone' > Ended(1)' + Ended(2)' => threadDone > Ended(1) + Ended(2)
    BY <1>1, CountTyped DEF Ended
  <2> QED BY <1>1, <2>1, ValuesFrame DEF Early, Searched
<1>2. CASE UNCHANGED vars
  BY <1>1, <1>2 DEF Ended
<1>3. CASE Check \/ SwitchReset
  <2>1. PICK n \in Threads : pc[n] = "off" /\ pc' = [pc EXCEPT ![n] = "new"]
    BY <1>3, NewThread
  <2> QED BY <1>1, <1>3, <2>1, CountTyped DEF Check, SwitchReset, Ended, Bumped
<1>4. CASE SwitchWait \/ SwitchStore
  BY <1>1, <1>4 DEF SwitchWait, SwitchStore, Ended
<1>5. CASE Cancel
  <2>1. pc' = [pc EXCEPT ![3] = pc'[3]] /\ pc'[3] \in {pc[3], "killed"}
    BY <1>5, CancelsThird, CountTyped DEF Cancel
  <2> QED BY <1>1, <1>5, <2>1, CountTyped DEF Cancel, Ended
<1> QED BY <1>2, <1>3, <1>4, <1>5, ValuesThird, ValuesOthers DEF Next, _switch

\* Thread 2 has not begun.
LEMMA ValuesInit == Init => ValuesInv
<1> SUFFICES ASSUME Init PROVE ValuesInv
  OBVIOUS
<1>1. /\ pc[1] = "off" /\ pc[2] = "off" /\ pc[3] = "off" /\ outer[3] = 0
      /\ threadDone = 0 /\ regVector = <<>>
  BY MaxChecksTyped DEF Init, Threads
<1>2. ~(threadDone > Ended(1) + Ended(2))
  BY <1>1 DEF Ended, Bumped
<1>3. SameKeys => Len(RegDefs) = 0
  BY <1>1 DEF SameKeys
<1>4. SameKeys => \A i \in 1..Len(RegDefs) : Untouched(i)
  BY <1>3
<1> QED BY <1>1, <1>2, <1>4 DEF ValuesInv, Early, Searched

\* LeadingRecorded, for one check with or without a Cancel, whatever the keys and
\* the registry.
THEOREM RegistrySearched == Spec /\ [](checks <= 1) => []LeadingRecorded
<1>1. TypeInv /\ KeysInv /\ [Next]_vars => KeysInv'
  BY KeysNext
<1>2. /\ TypeInv /\ HandoverInv /\ checks <= 1 /\ KeysInv /\ ValuesInv
      /\ [Next]_vars
      => ValuesInv'
  BY ValuesNext
<1>3. /\ TypeInv /\ CountInv /\ SealInv /\ checks <= 1 /\ ValuesInv
      => LeadingRecorded
  <2> SUFFICES ASSUME TypeInv, CountInv, SealInv, checks <= 1, ValuesInv,
                      Sent("DONE")
               PROVE  \A i \in 1..Len(RegDefs) : Saved(i)
    BY DEF LeadingRecorded, Saved
  <2>1. threadDone > Ended(1) + Ended(2)
    BY AllEnded
  <2> QED BY <2>1 DEF ValuesInv
<1> QED BY <1>1, <1>2, <1>3, KeysInit, ValuesInit, EngineFacts, PTL DEF Spec

=============================================================================
