----------------------------- MODULE EngineLog -----------------------------
(***************************************************************************)
(* The list and its announcements, for every value of the constants: the   *)
(* messages number the paths, every path has its name in time, and one     *)
(* check implements DetectionLog.                                          *)
(***************************************************************************)
EXTENDS EngineProofs

USE DEF guiVars, indexVars, eventVars, lockVars, syncVars, dataVars, msgVars,
        loopVars, valueVars, dectVars, vars, Goto, Step, Acquire, WaitDects,
        mhThread

-----------------------------------------------------------------------------
(* The numbers of the messages.                                              *)

\* A thread that has pushed its path and has not advanced path_iter.
Announcing == {"notify", "advance"}

\* The messages so far carry the numbers below path_iter, in order, and perhaps
\* path_iter itself.
Numbered ==
  /\ \A i, j \in 1..Len(posted) :
       i < j /\ Detection(i) /\ Detection(j) =>
         /\ posted[i].val <= posted[j].val
         /\ cancels = 0 => posted[i].val # posted[j].val
  /\ \A i \in 1..Len(posted) : Detection(i) => posted[i].val <= path_iter
  /\ \A n \in 0..path_iter - 1 :
       \E i \in 1..Len(posted) : Detection(i) /\ posted[i].val = n

\* They carry path_iter when a thread is between PostMessage and path_iter++,
\* and, unless one was terminated there, only then.
Fresh ==
  /\ \A t \in Threads :
       pc[t] = "advance" =>
         \E i \in 1..Len(posted) : Detection(i) /\ posted[i].val = path_iter
  /\ cancels = 0 /\ (\A t \in Threads : pc[t] # "advance") =>
       \A i \in 1..Len(posted) : Detection(i) => posted[i].val # path_iter

\* The announcements are behind the list by the path that is about to be
\* announced, if there is one.
Behind ==
  /\ path_iter <= Len(Filepaths)
  /\ \A t \in Threads : pc[t] \in Announcing => path_iter < Len(Filepaths)
  /\ \A i \in 1..Len(posted) :
       Detection(i) => posted[i].val < Len(Filepaths)
  /\ cancels = 0 =>
       \/ path_iter = Len(Filepaths)
       \/ /\ path_iter + 1 = Len(Filepaths)
          /\ \E t \in Threads : pc[t] \in Announcing

NumberInv == Numbered /\ Fresh /\ Behind

\* The types these proofs use.
LEMMA ListTyped ==
  ASSUME TypeInv
  PROVE  /\ posted \in Seq(Messages) /\ Len(posted) \in Nat
         /\ Filepaths \in Seq(Paths) /\ Len(Filepaths) \in Nat
         /\ names \in Seq(Files) /\ Len(names) \in Nat
         /\ path_iter \in Nat /\ cancels \in Nat
         /\ pc \in [Threads -> Points]
         /\ \A i \in 1..Len(posted) :
              posted[i] \in Messages /\ posted[i].val \in Nat
<1>1. /\ posted \in Seq(Messages) /\ Filepaths \in Seq(Paths)
      /\ names \in Seq(Files) /\ path_iter \in Nat /\ cancels \in Nat
      /\ pc \in [Threads -> Points]
  BY MaxChecksTyped DEF TypeInv, TypeOK, DectTypeOK
<1>2. \A i \in 1..Len(posted) : posted[i] \in Messages
  BY <1>1, ElementOfSeq
<1>3. \A m \in Messages : m.val \in Nat
  BY DEF Messages
<1> QED BY <1>1, <1>2, <1>3, LenProperties

\* The thread a start() creates was not there before.
LEMMA NewThread ==
  ASSUME TypeInv, Check \/ SwitchReset
  PROVE  /\ nThreads + 1 \in Threads /\ pc[nThreads + 1] = "off"
         /\ pc' = [pc EXCEPT ![nThreads + 1] = "new"]
<1>1. nThreads + 1 \in Threads
  <2>1. CASE Check
    BY <2>1, MaxChecksTyped DEF TypeInv, TypeOK, Created, Check, Threads
  <2>2. CASE SwitchReset
    BY <2>2, MaxChecksTyped DEF TypeInv, TypeOK, Created, SwitchReset, Threads
  <2> QED BY <2>1, <2>2
<1>2. nThreads + 1 > nThreads
  BY ThreadsCounted
<1> QED BY <1>1, <1>2 DEF TypeInv, Created, Check, SwitchReset, start

\* A message appended to the queue.
LEMMA Appended ==
  ASSUME TypeInv, NEW m, NEW v, [msg |-> m, val |-> v] \in Messages, Post(m, v)
  PROVE  /\ Len(posted') = Len(posted) + 1
         /\ \A i \in 1..Len(posted) : posted'[i] = posted[i]
         /\ posted'[Len(posted) + 1].msg = m
         /\ posted'[Len(posted) + 1].val = v
<1>1. posted' = Append(posted, [msg |-> m, val |-> v])
  BY DEF Post
<1> QED BY <1>1, ListTyped, AppendProperties

\* A step that leaves the list, its counter and the numbers alone, and lets no
\* thread pass the announcement.  It may terminate one there.
LEMMA NumberStays ==
  ASSUME TypeInv, NumberInv, UNCHANGED <<Filepaths, path_iter>>,
         \A u \in Threads : pc'[u] \in Announcing => pc'[u] = pc[u],
         cancels' = 0 =>
           /\ cancels = 0
           /\ \A u \in Threads : pc[u] \in Announcing => pc'[u] = pc[u],
         \A i \in 1..Len(posted) :
           i \in 1..Len(posted') /\ posted'[i] = posted[i],
         \A i \in 1..Len(posted') : Detection(i)' => i \in 1..Len(posted)
  PROVE  NumberInv'
<1> USE DEF NumberInv, Announcing
<1>1. /\ \A i \in 1..Len(posted') : Detection(i)' =>
           i \in 1..Len(posted) /\ Detection(i) /\ posted'[i] = posted[i]
      /\ \A i \in 1..Len(posted) : Detection(i) =>
           i \in 1..Len(posted') /\ Detection(i)' /\ posted'[i] = posted[i]
  BY DEF Detection
<1>2. Numbered'
  <2> HIDE DEF Announcing
  <2>1. \A n \in 0..path_iter - 1 :
          \E i \in 1..Len(posted) : Detection(i) /\ posted[i].val = n
    BY DEF Numbered
  <2>2. \A n \in 0..path_iter - 1 :
          \E i \in 1..Len(posted') : Detection(i)' /\ posted'[i].val = n
    BY <1>1, <2>1
  <2> QED BY <1>1, <2>2 DEF Numbered
<1>3. Fresh'
  BY <1>1 DEF Fresh
<1>4. Behind'
  BY <1>1 DEF Behind
<1> QED BY <1>2, <1>3, <1>4

\* Such a step that posts nothing.
LEMMA NumberFrame ==
  ASSUME TypeInv, NumberInv, UNCHANGED <<posted, Filepaths, path_iter, cancels>>,
         \A u \in Threads :
           pc'[u] \in Announcing \/ pc[u] \in Announcing => pc'[u] = pc[u]
  PROVE  NumberInv'
  BY NumberStays

\* Such a step that posts a message of another kind.
LEMMA NumberPost ==
  ASSUME TypeInv, NumberInv, UNCHANGED <<Filepaths, path_iter>>,
         \A u \in Threads : pc'[u] \in Announcing => pc'[u] = pc[u],
         cancels' = 0 =>
           /\ cancels = 0
           /\ \A u \in Threads : pc[u] \in Announcing => pc'[u] = pc[u],
         NEW m, NEW v,
         m # "DETECTION", [msg |-> m, val |-> v] \in Messages, Post(m, v)
  PROVE  NumberInv'
<1>1. /\ Len(posted') = Len(posted) + 1 /\ Len(posted) \in Nat
      /\ \A i \in 1..Len(posted) : posted'[i] = posted[i]
      /\ posted'[Len(posted) + 1].msg # "DETECTION"
  BY Appended, ListTyped
<1>2. \A i \in 1..Len(posted') : Detection(i)' => i \in 1..Len(posted)
  BY <1>1 DEF Detection
<1>3. \A i \in 1..Len(posted) :
        i \in 1..Len(posted') /\ posted'[i] = posted[i]
  BY <1>1
<1> QED BY <1>2, <1>3, NumberStays

\* The push: the list is ahead of the announcements by one path.
LEMMA NumberPush ==
  ASSUME TypeInv, LockDiscipline, NumberInv, NEW t \in Threads, AddFilePush(t)
  PROVE  NumberInv'
<1> USE ListTyped
<1>1. /\ Len(Filepaths') = Len(Filepaths) + 1 /\ path_iter' = path_iter
      /\ cancels' = cancels /\ posted' = posted /\ pc[t] = "push"
      /\ pc' = [pc EXCEPT ![t] = "notify"]
  BY AppendProperties DEF AddFilePush, PushFile
<1>2. \A u \in Threads : pc[u] \notin Announcing
  BY <1>1, OnePusher DEF Adding, Announcing
<1>3. Numbered'
  BY <1>1 DEF NumberInv, Numbered, Detection
<1>4. Fresh'
  BY <1>1, <1>2 DEF NumberInv, Fresh, Detection, Announcing
<1>5. Behind'
  BY <1>1, <1>2 DEF NumberInv, Behind, Detection, Announcing
<1> QED BY <1>3, <1>4, <1>5 DEF NumberInv

\* PostMessage: no message carries the number yet, unless a thread was terminated
\* after it had posted one.
LEMMA NumberNotify ==
  ASSUME TypeInv, LockDiscipline, NumberInv, NEW t \in Threads, AddFileNotify(t)
  PROVE  NumberInv'
<1>1. [msg |-> "DETECTION", val |-> path_iter] \in Messages
  BY ListTyped DEF Messages
<1>2. /\ Len(posted') = Len(posted) + 1
      /\ Len(posted) \in Nat /\ path_iter \in Nat
      /\ \A i \in 1..Len(posted) :
           posted'[i] = posted[i] /\ posted[i].val \in Nat
      /\ posted'[Len(posted) + 1].msg = "DETECTION"
      /\ posted'[Len(posted) + 1].val = path_iter
  BY <1>1, Appended, ListTyped DEF AddFileNotify
<1>3. /\ Filepaths' = Filepaths /\ path_iter' = path_iter
      /\ cancels' = cancels /\ pc[t] = "notify" /\ pc \in [Threads -> Points]
      /\ pc' = [pc EXCEPT ![t] = "advance"]
  BY ListTyped DEF AddFileNotify
<1>4. \A u \in Threads : pc[u] \in Announcing => u = t
  BY <1>3, OnePusher DEF Adding, Announcing
<1>5. \A i \in 1..Len(posted) : Detection(i) =>
        /\ posted[i].val <= path_iter
        /\ cancels = 0 => posted[i].val # path_iter
  BY <1>3, <1>4 DEF NumberInv, Numbered, Fresh, Announcing
<1>6. ASSUME NEW i \in 1..Len(posted'), Detection(i)'
      PROVE  \/ i \in 1..Len(posted) /\ Detection(i) /\ posted'[i] = posted[i]
             \/ i = Len(posted) + 1 /\ posted'[i].val = path_iter
  BY <1>2, <1>6 DEF Detection
<1>7. /\ \A i \in 1..Len(posted) : Detection(i) =>
           i \in 1..Len(posted') /\ Detection(i)' /\ posted'[i] = posted[i]
      /\ \E i \in 1..Len(posted') : Detection(i)' /\ posted'[i].val = path_iter
  <2>1. Len(posted) + 1 \in 1..Len(posted')
    BY <1>2
  <2> QED BY <1>2, <2>1 DEF Detection
<1>8. Numbered'
  <2>1. ASSUME NEW i \in 1..Len(posted'), NEW j \in 1..Len(posted'),
               i < j, Detection(i)', Detection(j)'
        PROVE  /\ posted'[i].val <= posted'[j].val
               /\ cancels' = 0 => posted'[i].val # posted'[j].val
    <3>1. i \in 1..Len(posted) /\ Detection(i) /\ posted'[i] = posted[i]
      BY <1>2, <1>6, <2>1
    <3>2. CASE j \in 1..Len(posted) /\ Detection(j) /\ posted'[j] = posted[j]
      BY <1>3, <2>1, <3>1, <3>2 DEF NumberInv, Numbered
    <3>3. CASE posted'[j].val = path_iter
      BY <1>3, <1>5, <3>1, <3>3
    <3> QED BY <1>6, <2>1, <3>2, <3>3
  <2>2. ASSUME NEW i \in 1..Len(posted'), Detection(i)'
        PROVE  posted'[i].val <= path_iter'
    BY <1>2, <1>3, <1>5, <1>6, <2>2
  <2>3. ASSUME NEW n \in 0..path_iter' - 1
        PROVE  \E i \in 1..Len(posted') : Detection(i)' /\ posted'[i].val = n
    <3>1. PICK i \in 1..Len(posted) : Detection(i) /\ posted[i].val = n
      BY <1>3 DEF NumberInv, Numbered
    <3> QED BY <1>7, <3>1
  <2> QED BY <2>1, <2>2, <2>3 DEF Numbered
<1>9. Fresh'
  <2>1. \E i \in 1..Len(posted') : Detection(i)' /\ posted'[i].val = path_iter'
    BY <1>3, <1>7
  <2>2. pc'[t] = "advance"
    BY <1>3
  <2> QED BY <2>1, <2>2 DEF Fresh
<1>10. Behind'
  <2>1. path_iter < Len(Filepaths)
    BY <1>3 DEF NumberInv, Behind, Announcing
  <2>2. \A i \in 1..Len(posted') : Detection(i)' =>
          posted'[i].val < Len(Filepaths')
    BY <1>3, <1>6, <2>1 DEF NumberInv, Behind
  <2>3. pc'[t] \in Announcing
    BY <1>3 DEF Announcing
  <2> QED BY <1>3, <1>4, <2>1, <2>2, <2>3 DEF NumberInv, Behind
<1> QED BY <1>8, <1>9, <1>10 DEF NumberInv

\* path_iter++: the number just posted is below it.
LEMMA NumberAdvance ==
  ASSUME TypeInv, LockDiscipline, NumberInv, NEW t \in Threads,
         AddFileAdvance(t)
  PROVE  NumberInv'
<1> USE ListTyped
<1>1. /\ Filepaths' = Filepaths /\ path_iter' = path_iter + 1
      /\ cancels' = cancels /\ posted' = posted /\ pc[t] = "advance"
      /\ pc' = [pc EXCEPT ![t] = "addname"]
  BY DEF AddFileAdvance
<1>2. \A u \in Threads : pc[u] \in Announcing => u = t
  BY <1>1, OnePusher DEF Adding, Announcing
<1>3. \A u \in Threads : pc'[u] \notin Announcing
  BY <1>1, <1>2 DEF Announcing
<1>4. Numbered'
  <2>1. ASSUME NEW n \in 0..path_iter' - 1
        PROVE  \E i \in 1..Len(posted) : Detection(i) /\ posted[i].val = n
    <3>1. CASE n = path_iter
      BY <1>1, <3>1 DEF NumberInv, Fresh
    <3>2. CASE n \in 0..path_iter - 1
      BY <3>2 DEF NumberInv, Numbered
    <3> QED BY <1>1, <3>1, <3>2
  <2>2. \A i \in 1..Len(posted) : Detection(i) => posted[i].val <= path_iter + 1
    BY DEF NumberInv, Numbered
  <2> QED BY <1>1, <2>1, <2>2 DEF NumberInv, Numbered, Detection
<1>5. Fresh'
  <2>1. \A i \in 1..Len(posted) : Detection(i) => posted[i].val # path_iter + 1
    BY DEF NumberInv, Numbered
  <2> QED BY <1>1, <1>3, <2>1 DEF Fresh, Detection, Announcing
<1>6. Behind'
  BY <1>1, <1>3 DEF NumberInv, Behind, Detection, Announcing
<1> QED BY <1>4, <1>5, <1>6 DEF NumberInv

\* Every step of a thread.
LEMMA NumberRun ==
  ASSUME TypeInv, LockDiscipline, NumberInv, NEW t \in Threads, run(t)
  PROVE  NumberInv'
<1> USE ListTyped, NumberFrame DEF Announcing
<1>1. CASE RunAny(t)
  BY <1>1 DEF RunAny, ReadIndex, Signal, ResetIndex, EnterCs, LeaveCs
<1>2. CASE RunFill(t)
  <2>1. CASE PostInit(t)
    <3>1. [msg |-> "INIT_READY", val |-> TotalWork(t)] \in Messages
      BY TotalWorkTyped DEF Messages
    <3> QED BY <2>1, <3>1, NumberPost DEF PostInit
  <2> QED BY <1>2, <2>1 DEF RunFill, FillFiles, FillRegs, SetReady
<1>3. CASE RunSearch(t)
  BY <1>3 DEF RunSearch, Await, Resignal, SkipDrive, ChangeDir, SearchOver,
     FindHit, FindValid, FindMiss, BlockOver, FullPath
<1>4. CASE RunDetect(t)
  BY <1>4, NumberPush, NumberNotify, NumberAdvance DEF RunDetect, LockDects,
     EnterHwnd, AddFile, AddName, UnlockDects
<1>5. CASE RunRegistry(t)
  BY <1>5 DEF RunRegistry, OpenKey, KeysOver, QueryPresent, QueryAbsent,
     QueryBeyond, ValuesOver, AddReg
<1>6. CASE RunCount(t)
  <2>1. CASE Report(t)
    <3>1. [msg |-> "DONE", val |-> 0] \in Messages
      BY DEF Messages
    <3>2. CASE AllDone(t)
      BY <2>1, <3>1, <3>2, NumberPost DEF Report
    <3> QED BY <2>1, <3>2 DEF Report
  <2> QED BY <1>6, <2>1 DEF RunCount, CountWait, CountBump, CountTake
<1> QED BY <1>1, <1>2, <1>3, <1>4, <1>5, <1>6 DEF run

\* Every step of the program.  A Cancel may take the thread that was about to
\* announce a path, or to advance path_iter: its number is then used for the
\* next path.
LEMMA NumberNext ==
  ASSUME TypeInv, LockDiscipline, NumberInv, [Next]_vars
  PROVE  NumberInv'
<1> USE ListTyped
<1>1. CASE UNCHANGED vars
  BY <1>1, NumberFrame
<1>2. CASE Check \/ _switch
  <2>1. \A u \in Threads :
          pc'[u] \in Announcing \/ pc[u] \in Announcing => pc'[u] = pc[u]
    BY <1>2, NewThread DEF _switch, SwitchWait, SwitchStore, Announcing
  <2> QED BY <1>2, <2>1, NumberFrame DEF Check, _switch, SwitchWait,
             SwitchStore, SwitchReset
<1>3. CASE Cancel
  <2>1. [msg |-> "ABORTED", val |-> 0] \in Messages
    BY DEF Messages
  <2>2. cancels' # 0
    BY <1>3 DEF Cancel
  <2>3. \A u \in Threads : pc'[u] \in Announcing => pc'[u] = pc[u]
    BY <1>3 DEF Cancel, Announcing
  <2> QED BY <1>3, <2>1, <2>2, <2>3, NumberPost DEF Cancel
<1> QED BY <1>1, <1>2, <1>3, NumberRun DEF Next

\* Nothing is announced at first.
LEMMA NumberInit == Init => NumberInv
  BY DEF Init, DectInit, NumberInv, Numbered, Fresh, Behind, Announcing

\* DetectionsNumbered, for any number of checks and cancels: the messages carry
\* 0, 1, 2, ... in this order, without a gap and never ahead of the list;
\* without a Cancel none comes twice, and every path outside addFile has had its
\* own.
THEOREM NumbersInOrder == Spec => []DetectionsNumbered
<1>1. TypeInv /\ LockDiscipline /\ NumberInv => DetectionsNumbered
  <2> SUFFICES ASSUME TypeInv, LockDiscipline, NumberInv
               PROVE  DetectionsNumbered
    OBVIOUS
  <2> USE ListTyped
  <2>1. 0..path_iter - 1 \subseteq Numbers
    BY DEF NumberInv, Numbered, Numbers
  <2>2. Numbers \subseteq (0..path_iter) \cap (0..Len(Filepaths) - 1)
    <3>1. \A i \in 1..Len(posted) : Detection(i) =>
            posted[i].val \in (0..path_iter) \cap (0..Len(Filepaths) - 1)
      BY DEF NumberInv, Numbered, Behind
    <3> QED BY <3>1 DEF Numbers
  <2>3. ASSUME cancels = 0, hMdect = NoThread
        PROVE  Numbers = 0..Len(Filepaths) - 1
    <3>1. \A t \in Threads : pc[t] \notin Announcing
      BY <2>3, NotNoThread DEF LockDiscipline, Adding, Announcing
    <3>2. path_iter = Len(Filepaths)
      BY <2>3, <3>1 DEF NumberInv, Behind
    <3> QED BY <2>1, <2>2, <3>2
  <2> QED BY <2>1, <2>2, <2>3 DEF DetectionsNumbered, NumberInv, Numbered
<1>2. TypeInv /\ LockDiscipline /\ NumberInv /\ [Next]_vars => NumberInv'
  BY NumberNext
<1> QED BY <1>1, <1>2, NumberInit, TypeInvariant, LocksHeld, PTL DEF Spec

-----------------------------------------------------------------------------
(* The names.  The thread that holds hMdect has added its path, or found one *)
(* that its path is a prefix of, when it comes to the name.                  *)

\* The path a thread carries to the list is that of the file it is at.
FoundHere ==
  \A t \in Threads :
    pc[t] \in Searching \ {"find", "fullpath"} => found[t][2] = File(t)

\* A thread in addFile behind the test, or on its way through addName.
Naming == Announcing \cup {"addname", "namecs"}

\* The last path is the thread's, and there is room for its name.
Pushed(t) ==
  /\ Filepaths # <<>>
  /\ Filepaths[Len(Filepaths)] = found[t]
  /\ Len(names) < Len(Filepaths)

NamedInv ==
  cancels = 0 =>
    /\ Len(names) <= Len(Filepaths)
    /\ \A i \in 1..Len(Filepaths) :
         \/ Named(i)
         \/ /\ i = Len(Filepaths)
            /\ \E t \in Threads : pc[t] \in Naming /\ Pushed(t)
    /\ \A t \in Threads :
         /\ pc[t] \in Announcing => Pushed(t)
         /\ pc[t] \in Naming => Pushed(t) \/ FileExist(found[t])

\* The file a thread is at stays the same while others fill in more data.
LEMMA FileStays ==
  ASSUME TypeInv, NEW u \in Threads, pc[u] \in Searching \ {"find"},
         files' = files \/ \E s \in Seq(Files) : files' = files \o s,
         th'[u] = th[u], outer'[u] = outer[u], inner'[u] = inner[u],
         bound'[u] = bound[u]
  PROVE  File(u)' = File(u)
<1>1. /\ files \in Seq(Files) /\ Len(files) \in Nat
      /\ inner[u] \in Nat /\ bound[u] \in Nat
      /\ th[u] = 0 => bound[u] <= Len(files)
      /\ inner[u] < Len(BlockFiles(u))
  BY LenProperties DEF TypeInv, TypeOK, Loops, LoopsOf
<1>2. CASE th[u] # 0 \/ files' = files
  BY <1>2 DEF File, BlockFiles
<1>3. ASSUME th[u] = 0, NEW s \in Seq(Files), files' = files \o s
      PROVE  File(u)' = File(u)
  <2>1. /\ Len(files') = Len(files) + Len(s) /\ Len(s) \in Nat
        /\ files' \in Seq(Files)
        /\ \A i \in 1..Len(files) : files'[i] = files[i]
    BY <1>1, <1>3, ConcatProperties, LenProperties
  <2>2. /\ Len(SubSeq(files, 1, bound[u])) = bound[u]
        /\ \A i \in 1..bound[u] : SubSeq(files, 1, bound[u])[i] = files[i]
        /\ \A i \in 1..bound[u] : SubSeq(files', 1, bound[u])[i] = files'[i]
    BY <1>1, <1>3, <2>1
  <2>3. inner[u] + 1 \in 1..bound[u]
    BY <1>1, <1>3, <2>2 DEF BlockFiles
  <2>4. inner[u] + 1 \in 1..Len(files)
    BY <1>1, <1>3, <2>3
  <2> QED BY <1>3, <2>1, <2>2, <2>3, <2>4, ZenonT(30) DEF File, BlockFiles
<1> QED BY <1>2, <1>3

\* A step that leaves the counters of the threads on their way to the list
\* alone.
LEMMA FoundFrame ==
  ASSUME TypeInv, FoundHere,
         files' = files \/ \E s \in Seq(Files) : files' = files \o s,
         \A u \in Threads :
           pc'[u] \in Searching \ {"find", "fullpath"} =>
             /\ pc[u] \in Searching \ {"find", "fullpath"}
             /\ th'[u] = th[u] /\ outer'[u] = outer[u] /\ inner'[u] = inner[u]
             /\ bound'[u] = bound[u] /\ found'[u] = found[u]
  PROVE  FoundHere'
<1> SUFFICES ASSUME NEW u \in Threads,
                    pc'[u] \in Searching \ {"find", "fullpath"}
             PROVE  found'[u][2] = File(u)'
  BY DEF FoundHere
<1>1. File(u)' = File(u)
  BY FileStays
<1> QED BY <1>1 DEF FoundHere

\* Every step of a thread.
LEMMA FoundRun ==
  ASSUME TypeInv, FoundHere, NEW t \in Threads, run(t)
  PROVE  FoundHere'
<1> /\ pc \in [Threads -> Points] /\ th \in [Threads -> Nat]
    /\ outer \in [Threads -> Nat] /\ inner \in [Threads -> Nat]
    /\ bound \in [Threads -> Nat] /\ locth \in [Threads -> Nat]
    /\ found \in [Threads -> Paths \cup {NoPath}]
  BY DEF TypeInv, TypeOK
<1> USE DEF Searching
<1>1. CASE RunAny(t)
  BY <1>1, FoundFrame DEF RunAny, ReadIndex, Signal, ResetIndex, EnterCs,
     LeaveCs
<1>2. CASE RunFill(t)
  <2>1. CASE FillFiles(t)
    <3>1. Defs[outer[t] + 1] \in Seq(Files)
      BY <2>1, ConstantsTyped, ElementOfSeq DEF FillFiles
    <3> QED BY <2>1, <3>1, FoundFrame DEF FillFiles
  <2> QED BY <1>2, <2>1, FoundFrame DEF RunFill, FillRegs, PostInit, SetReady
<1>3. CASE RunSearch(t)
  <2>1. CASE FullPath(t)
    <3> SUFFICES ASSUME NEW u \in Threads,
                        pc'[u] \in Searching \ {"find", "fullpath"}
                 PROVE  found'[u][2] = File(u)'
      BY DEF FoundHere
    <3>1. File(u)' = File(u)
      BY <2>1 DEF FullPath, File, BlockFiles
    <3>2. CASE u = t
      BY <2>1, <3>1, <3>2 DEF FullPath, GetFullPathName
    <3>3. CASE u # t
      BY <2>1, <3>1, <3>3 DEF FullPath, FoundHere
    <3> QED BY <3>2, <3>3
  <2> QED BY <1>3, <2>1, FoundFrame DEF RunSearch, Await, Resignal, SkipDrive,
             ChangeDir, SearchOver, FindHit, FindValid, FindMiss, BlockOver
<1>4. CASE RunDetect(t)
  BY <1>4, FoundFrame DEF RunDetect, LockDects, AddFile, AddFilePush,
     AddFileNotify, AddName, UnlockDects, EnterHwnd, AddFileAdvance
<1>5. CASE RunRegistry(t)
  BY <1>5, FoundFrame DEF RunRegistry, OpenKey, KeysOver, QueryPresent,
     QueryAbsent, QueryBeyond, ValuesOver, AddReg
<1>6. CASE RunCount(t)
  BY <1>6, FoundFrame DEF RunCount, CountWait, CountBump, CountTake, Report
<1> QED BY <1>1, <1>2, <1>3, <1>4, <1>5, <1>6 DEF run

\* Every step of the program.
LEMMA FoundNext ==
  ASSUME TypeInv, FoundHere, [Next]_vars
  PROVE  FoundHere'
<1> pc \in [Threads -> Points]
  BY DEF TypeInv, TypeOK
<1>1. CASE UNCHANGED vars
  BY <1>1, FoundFrame
<1>2. CASE Check \/ _switch
  <2>1. \A u \in Threads : pc'[u] \in Searching => pc'[u] = pc[u]
    BY <1>2, NewThread DEF _switch, SwitchWait, SwitchStore, Searching
  <2> QED BY <1>2, <2>1, FoundFrame DEF Check, _switch, SwitchWait,
             SwitchStore, SwitchReset
<1>3. CASE Cancel
  BY <1>3, FoundFrame DEF Cancel, Searching
<1> QED BY <1>1, <1>2, <1>3, FoundRun DEF Next

\* No thread has a path at first.
LEMMA FoundInit == Init => FoundHere
  BY DEF Init, FoundHere, Searching

\* A step that leaves the list alone and brings nobody to the name.
LEMMA NamedFrame ==
  ASSUME NamedInv, UNCHANGED <<Filepaths, names, cancels, found>>,
         \A u \in Threads :
           /\ pc'[u] \in Naming <=> pc[u] \in Naming
           /\ pc'[u] \in Announcing => pc[u] \in Announcing
  PROVE  NamedInv'
  BY DEF NamedInv, Named, Pushed, FileExist, PathPrefix

\* The push.
LEMMA NamedPush ==
  ASSUME TypeInv, LockDiscipline, NamedInv, NEW t \in Threads, AddFilePush(t)
  PROVE  NamedInv'
<1> SUFFICES ASSUME cancels = 0 PROVE NamedInv'
  BY DEF NamedInv, AddFilePush
<1>1. /\ Len(Filepaths') = Len(Filepaths) + 1
      /\ \A i \in 1..Len(Filepaths) : Filepaths'[i] = Filepaths[i]
      /\ Filepaths'[Len(Filepaths) + 1] = found[t]
      /\ names' = names /\ found' = found /\ pc[t] = "push"
      /\ pc' = [pc EXCEPT ![t] = "notify"]
      /\ Len(Filepaths) \in Nat /\ Len(names) \in Nat
      /\ Len(names) <= Len(Filepaths)
  BY ListTyped, AppendProperties DEF AddFilePush, PushFile, NamedInv
<1>2. \A u \in Threads : pc[u] \notin Naming
  BY <1>1, OnePusher DEF Adding, Naming, Announcing
<1>3. \A u \in Threads : pc'[u] \in Naming => u = t
  BY <1>1, <1>2
<1>4. pc'[t] \in Naming
  BY <1>1, ListTyped DEF Naming, Announcing
<1>5. Pushed(t)'
  <2>1. Filepaths' # <<>>
    BY <1>1
  <2> QED BY <1>1, <2>1 DEF Pushed
<1>6. ASSUME NEW i \in 1..Len(Filepaths') PROVE Named(i)' \/ i = Len(Filepaths')
  <2>1. CASE i \in 1..Len(Filepaths)
    <3>1. Named(i)
      BY <1>2, <2>1 DEF NamedInv
    <3> QED BY <1>1, <2>1, <3>1 DEF Named
  <2> QED BY <1>1, <2>1
<1>7. Len(names') <= Len(Filepaths')
  BY <1>1
<1>8. \A u \in Threads : pc'[u] \in Announcing => pc'[u] \in Naming
  BY DEF Naming
<1> QED BY <1>3, <1>4, <1>5, <1>6, <1>7, <1>8 DEF NamedInv

\* The test of addFile.
LEMMA NamedTest ==
  ASSUME TypeInv, LockDiscipline, NamedInv, NEW t \in Threads, AddFile(t)
  PROVE  NamedInv'
<1>1. /\ UNCHANGED <<Filepaths, names, cancels, found>> /\ pc[t] = "filecs"
      /\ pc' = [pc EXCEPT ![t] =
                  IF FileExist(found[t]) THEN "addname" ELSE "push"]
  BY DEF AddFile
<1>2. \A u \in Threads : pc[u] \notin Naming
  BY <1>1, OnePusher DEF Adding, Naming, Announcing
<1>3. \A u \in Threads :
        /\ pc'[u] \notin Announcing
        /\ pc'[u] \in Naming => FileExist(found[u])
  BY <1>1, <1>2, ListTyped DEF Naming, Announcing
<1> QED BY <1>1, <1>2, <1>3
           DEF NamedInv, Named, Pushed, FileExist, PathPrefix

\* The name.  It is added to its path, or one that covers it is there: its own
\* path's, or that of the path addFile took for it.
LEMMA NamedAdd ==
  ASSUME TypeInv, LockDiscipline, FoundHere, NamedInv, NEW t \in Threads,
         AddName(t)
  PROVE  NamedInv'
<1> SUFFICES ASSUME cancels = 0 PROVE NamedInv'
  BY DEF NamedInv, AddName
<1>1. /\ Filepaths' = Filepaths /\ found' = found /\ pc[t] = "namecs"
      /\ pc' = [pc EXCEPT ![t] = "unlock"]
      /\ Len(Filepaths) \in Nat /\ Len(names) \in Nat
      /\ Len(names) <= Len(Filepaths)
      /\ \A i \in 1..Len(Filepaths) : Filepaths[i] \in Paths
      /\ \A i \in 1..Len(names) : names[i] \in Files
  BY ListTyped, ElementOfSeq DEF AddName, NamedInv
<1>2. found[t] \in Paths /\ found[t][2] = File(t) /\ File(t) \in Files
  BY <1>1 DEF FoundHere, TypeInv, Loops, LoopsOf, Searching, Paths
<1>3. \A u \in Threads : pc[u] \in Naming => u = t
  BY <1>1, OnePusher DEF Adding, Naming, Announcing
<1>4. \A u \in Threads : pc'[u] \notin Naming /\ pc'[u] \notin Announcing
  BY <1>1, <1>3, ListTyped DEF Naming, Announcing
<1>5. ASSUME NEW i \in 1..Len(Filepaths)
      PROVE  Named(i) \/ (i = Len(Filepaths) /\ Pushed(t))
  <2>1. \/ Named(i)
        \/ /\ i = Len(Filepaths)
           /\ \E u \in Threads : pc[u] \in Naming /\ Pushed(u)
    BY DEF NamedInv
  <2> QED BY <1>3, <2>1 DEF Pushed
<1>6. CASE NameExist(File(t))
  <2>1. names' = names
    BY <1>6 DEF AddName, addName
  <2>2. ASSUME Pushed(t) PROVE Named(Len(Filepaths))
    <3>1. PICK j \in 1..Len(names) : <<File(t), names[j]>> \in Prefix
      BY <1>6 DEF NameExist
    <3>2. j <= Len(Filepaths)
      BY <1>1
    <3> QED BY <1>2, <2>2, <3>1, <3>2 DEF Pushed, Named
  <2>3. \A i \in 1..Len(Filepaths) : Named(i)
    BY <1>5, <2>2
  <2>4. \A i \in 1..Len(Filepaths) : Named(i)'
    BY <1>1, <2>1, <2>3 DEF Named
  <2> QED BY <1>1, <1>4, <2>1, <2>4 DEF NamedInv
<1>7. CASE ~NameExist(File(t))
  <2>1. /\ Len(names') = Len(names) + 1
        /\ \A i \in 1..Len(names) : names'[i] = names[i]
        /\ names'[Len(names) + 1] = File(t)
    BY <1>7, ListTyped, AppendProperties DEF AddName, addName
  <2>2. Pushed(t)
    <3> SUFFICES ASSUME FileExist(found[t]), ~Pushed(t) PROVE FALSE
      BY <1>1 DEF NamedInv, Naming
    <3>1. PICK i \in 1..Len(Filepaths) : PathPrefix(found[t], Filepaths[i])
      BY DEF FileExist
    <3>2. PICK j \in 1..Len(names) : <<Filepaths[i][2], names[j]>> \in Prefix
      BY <1>5 DEF Named
    <3>3. <<File(t), Filepaths[i][2]>> \in Prefix
      BY <1>2, <3>1 DEF PathPrefix
    <3>4. Filepaths[i][2] \in Files /\ names[j] \in Files
      BY <1>1 DEF Paths
    <3>5. <<File(t), names[j]>> \in Prefix
      BY <1>2, <3>2, <3>3, <3>4, PrefixAssumption
    <3> QED BY <1>7, <3>5 DEF NameExist
  <2>3. Len(names') <= Len(Filepaths')
    BY <1>1, <2>1, <2>2 DEF Pushed
  <2>4. ASSUME NEW i \in 1..Len(Filepaths) PROVE Named(i)'
    <3>1. CASE Named(i)
      <4>1. PICK j \in 1..Len(names) :
              j <= i /\ <<Filepaths[i][2], names[j]>> \in Prefix
        BY <3>1 DEF Named
      <4>2. j \in 1..Len(names') /\ names'[j] = names[j]
        BY <1>1, <2>1
      <4> QED BY <1>1, <4>1, <4>2 DEF Named
    <3>2. CASE i = Len(Filepaths)
      <4>1. <<Filepaths[i][2], File(t)>> \in Prefix
        BY <1>2, <2>2, <3>2, PrefixAssumption DEF Pushed
      <4>2. Len(names) + 1 \in 1..Len(names') /\ Len(names) + 1 <= i
        BY <1>1, <2>1, <2>2, <3>2 DEF Pushed
      <4> QED BY <1>1, <2>1, <4>1, <4>2 DEF Named
    <3> QED BY <1>5, <3>1, <3>2
  <2> QED BY <1>1, <1>4, <2>3, <2>4 DEF NamedInv
<1> QED BY <1>6, <1>7

\* Every step of a thread.
LEMMA NamedRun ==
  ASSUME TypeInv, LockDiscipline, FoundHere, NamedInv, NEW t \in Threads, run(t)
  PROVE  NamedInv'
<1> USE ListTyped
<1> found \in [Threads -> Paths \cup {NoPath}]
  BY DEF TypeInv, TypeOK
<1>0. /\ Naming = {"notify", "advance", "addname", "namecs"}
      /\ Announcing = {"notify", "advance"}
  BY DEF Naming, Announcing
<1>1. CASE RunAny(t)
  BY <1>0, <1>1, NamedFrame DEF RunAny, ReadIndex, Signal, ResetIndex, EnterCs,
     LeaveCs
<1>2. CASE RunFill(t)
  BY <1>0, <1>2, NamedFrame DEF RunFill, FillFiles, FillRegs, PostInit, SetReady
<1>3. CASE RunSearch(t)
  <2>1. CASE FullPath(t)
    <3>1. \A u \in Threads :
            pc'[u] \in Naming =>
              pc'[u] = pc[u] /\ found'[u] = found[u]
      BY <2>1 DEF FullPath, Naming, Announcing
    <3>2. \A u \in Threads :
            pc[u] \in Naming =>
              pc'[u] = pc[u] /\ found'[u] = found[u]
      BY <2>1 DEF FullPath, Naming, Announcing
    <3>3. \A u \in Threads : pc'[u] \in Announcing => pc'[u] \in Naming
      BY DEF Naming
    <3> QED BY <2>1, <3>1, <3>2, <3>3
            DEF FullPath, NamedInv, Named, Pushed, FileExist, PathPrefix
  <2> QED BY <1>0, <1>3, <2>1, NamedFrame DEF RunSearch, Await, Resignal, SkipDrive,
             ChangeDir, SearchOver, FindHit, FindValid, FindMiss, BlockOver
<1>4. CASE RunDetect(t)
  <2>1. CASE EnterHwnd(t) \/ AddFileNotify(t) \/ AddFileAdvance(t)
    BY <1>0, <2>1, NamedFrame DEF EnterHwnd, AddFileNotify, AddFileAdvance
  <2>2. CASE LockDects(t) \/ UnlockDects(t)
    BY <1>0, <2>2, NamedFrame DEF LockDects, UnlockDects
  <2> QED BY <1>4, <2>1, <2>2, NamedPush, NamedTest, NamedAdd DEF RunDetect
<1>5. CASE RunRegistry(t)
  BY <1>0, <1>5, NamedFrame DEF RunRegistry, OpenKey, KeysOver, QueryPresent,
     QueryAbsent, QueryBeyond, ValuesOver, AddReg
<1>6. CASE RunCount(t)
  BY <1>0, <1>6, NamedFrame DEF RunCount, CountWait, CountBump, CountTake, Report
<1> QED BY <1>1, <1>2, <1>3, <1>4, <1>5, <1>6 DEF run

\* Every step of the program.
LEMMA NamedNext ==
  ASSUME TypeInv, LockDiscipline, FoundHere, NamedInv, [Next]_vars
  PROVE  NamedInv'
<1> USE ListTyped
<1>1. CASE UNCHANGED vars
  BY <1>1, NamedFrame
<1>2. CASE Check \/ _switch
  <2>1. \A u \in Threads : pc'[u] \in Searching \/ pc[u] \in Searching =>
          pc'[u] = pc[u]
    BY <1>2, NewThread DEF _switch, SwitchWait, SwitchStore, Searching
  <2>2. UNCHANGED <<Filepaths, names, cancels, found>>
    BY <1>2 DEF Check, _switch, SwitchWait, SwitchStore, SwitchReset
  <2> QED BY <2>1, <2>2, NamedFrame DEF Searching, Naming, Announcing
<1>3. CASE Cancel
  BY <1>3 DEF Cancel, NamedInv
<1> QED BY <1>1, <1>2, <1>3, NamedRun DEF Next

\* Nothing is named at first.
LEMMA NamedInit == Init => NamedInv
  BY DEF Init, DectInit, NamedInv, Naming, Announcing

\* NamesBeforePaths, for any number of checks: without a Cancel, outside the
\* lock, every path has a name at its own place or before.
THEOREM NamesInTime == Spec => []NamesBeforePaths
<1>1. LockDiscipline /\ NamedInv => NamesBeforePaths
  <2> SUFFICES ASSUME LockDiscipline, NamedInv, hMdect = NoThread
               PROVE  NamesBeforePaths
    BY DEF NamesBeforePaths
  <2>1. \A t \in Threads : pc[t] \notin Naming
    BY NotNoThread DEF LockDiscipline, Adding, Naming, Announcing
  <2> QED BY <2>1 DEF NamedInv, NamesBeforePaths
<1>2. /\ TypeInv /\ FoundHere /\ [Next]_vars => FoundHere'
      /\ TypeInv /\ LockDiscipline /\ FoundHere /\ NamedInv /\ [Next]_vars
           => NamedInv'
  BY FoundNext, NamedNext
<1> QED BY <1>1, <1>2, FoundInit, NamedInit, TypeInvariant, LocksHeld, PTL
        DEF Spec

-----------------------------------------------------------------------------
(* The end.  A check implements DetectionLog: what is left to prove is that  *)
(* the counts are right when the end is announced.                           *)

Bumped == {"take", "report", "done", "killed"}

\* Each thread takes a count of its own.
CountInv ==
  /\ \A t \in Threads : locth[t] <= threadDone
  /\ \A t, u \in Threads : pc[t] = "take" => locth[u] < threadDone
  /\ \A t, u \in Threads : t # u /\ locth[t] = locth[u] => locth[t] = 0

Ended(t) == IF pc[t] \in Bumped THEN 1 ELSE 0

\* No more have been counted than have ended, and who announced the end has the
\* last count.
SealInv ==
  checks <= 1 =>
    /\ threadDone <= Ended(1) + Ended(2) + Ended(3)
    /\ Sent("DONE") => \E t \in Threads : pc[t] = "done" /\ locth[t] >= 3

\* The types these proofs use.
LEMMA CountTyped ==
  ASSUME TypeInv
  PROVE  /\ threadDone \in Nat /\ checks \in Nat
         /\ locth \in [Threads -> Nat] /\ pc \in [Threads -> Points]
         /\ 1 \in Threads /\ 2 \in Threads /\ 3 \in Threads
         /\ Threads \subseteq Nat
<1>1. 1 \in Threads /\ 2 \in Threads /\ 3 \in Threads /\ Threads \subseteq Nat
  BY MaxChecksTyped DEF Threads
<1>2. /\ threadDone \in Nat /\ locth \in [Threads -> Nat]
      /\ pc \in [Threads -> Points]
  BY DEF TypeInv, TypeOK
<1>3. checks \in Nat
  BY MaxChecksTyped DEF TypeInv, TypeOK
<1> QED BY <1>1, <1>2, <1>3

\* A step that leaves the counts alone and brings nobody to take one.
LEMMA CountFrame ==
  ASSUME CountInv, UNCHANGED <<threadDone, locth>>,
         \A u \in Threads : pc'[u] = "take" => pc[u] = "take"
  PROVE  CountInv'
  BY DEF CountInv

\* The two steps of the count, with hTDone held.
LEMMA CountSteps ==
  ASSUME TypeInv, LockDiscipline, CountInv, NEW t \in Threads,
         CountBump(t) \/ CountTake(t)
  PROVE  CountInv'
<1> USE CountTyped
<1>1. \A u \in Threads : pc[u] \in Counting => u = t
  BY DEF LockDiscipline, Counting, CountBump, CountTake
<1>2. CASE CountBump(t)
  BY <1>2 DEF CountBump, CountInv
<1>3. CASE CountTake(t)
  <2>1. /\ threadDone' = threadDone /\ pc[t] = "take"
        /\ locth' = [locth EXCEPT ![t] = threadDone]
        /\ pc' = [pc EXCEPT ![t] = "report"]
    BY <1>3 DEF CountTake
  <2>2. \A u \in Threads : pc'[u] # "take"
    BY <1>1, <2>1 DEF Counting
  <2>3. \A u \in Threads : locth[u] < threadDone
    BY <2>1 DEF CountInv
  <2> QED BY <2>1, <2>2, <2>3 DEF CountInv
<1> QED BY <1>2, <1>3

\* Every step of a thread.
LEMMA CountRun ==
  ASSUME TypeInv, LockDiscipline, CountInv, NEW t \in Threads, run(t)
  PROVE  CountInv'
<1> USE CountTyped, CountFrame
<1>1. CASE RunAny(t)
  BY <1>1 DEF RunAny, ReadIndex, Signal, ResetIndex, EnterCs, LeaveCs
<1>2. CASE RunFill(t)
  BY <1>2 DEF RunFill, FillFiles, FillRegs, PostInit, SetReady
<1>3. CASE RunSearch(t)
  BY <1>3 DEF RunSearch, Await, Resignal, SkipDrive, ChangeDir, SearchOver,
     FindHit, FindValid, FindMiss, BlockOver, FullPath
<1>4. CASE RunDetect(t)
  BY <1>4 DEF RunDetect, LockDects, AddFile, AddFilePush, AddFileNotify,
     AddName, UnlockDects, EnterHwnd, AddFileAdvance
<1>5. CASE RunRegistry(t)
  BY <1>5 DEF RunRegistry, OpenKey, KeysOver, QueryPresent, QueryAbsent,
     QueryBeyond, ValuesOver, AddReg
<1>6. CASE RunCount(t)
  BY <1>6, CountSteps DEF RunCount, CountWait, Report
<1> QED BY <1>1, <1>2, <1>3, <1>4, <1>5, <1>6 DEF run

\* Every step of the program.
LEMMA CountNext ==
  ASSUME TypeInv, LockDiscipline, CountInv, [Next]_vars
  PROVE  CountInv'
<1> USE CountTyped
<1>1. CASE UNCHANGED vars
  BY <1>1, CountFrame
<1>2. CASE Check \/ _switch
  <2>1. \A u \in Threads : pc'[u] = "take" => pc[u] = "take"
    BY <1>2, NewThread DEF _switch, SwitchWait, SwitchStore
  <2> QED BY <1>2, <2>1, CountFrame DEF Check, _switch, SwitchWait,
             SwitchStore, SwitchReset
<1>3. CASE Cancel
  BY <1>3, CountFrame DEF Cancel
<1> QED BY <1>1, <1>2, <1>3, CountRun DEF Next

\* Nobody has been counted at first.
LEMMA CountInit == Init => CountInv
  BY DEF Init, CountInv

\* A message appended to the queue is sent, and none is taken off.
LEMMA SentAppended ==
  ASSUME TypeInv, NEW k, NEW m, NEW v, [msg |-> m, val |-> v] \in Messages,
         Post(m, v)
  PROVE  Sent(k)' <=> Sent(k) \/ m = k
<1>1. /\ Len(posted') = Len(posted) + 1 /\ Len(posted) \in Nat
      /\ \A i \in 1..Len(posted) : posted'[i] = posted[i]
      /\ posted'[Len(posted) + 1].msg = m
  BY Appended, ListTyped
<1>2. \A i \in 1..Len(posted') : i \in 1..Len(posted) \/ i = Len(posted) + 1
  BY <1>1
<1>3. /\ \A i \in 1..Len(posted) : i \in 1..Len(posted')
      /\ Len(posted) + 1 \in 1..Len(posted')
  BY <1>1
<1> QED BY <1>1, <1>2, <1>3 DEF Sent

\* A step that counts nobody and does not announce the end.
LEMMA SealFrame ==
  ASSUME TypeInv, SealInv, checks' <= 1 => checks <= 1,
         UNCHANGED <<threadDone, locth>>, Sent("DONE")' = Sent("DONE"),
         \A u \in Threads : pc[u] \in Bumped => pc'[u] \in Bumped,
         \A u \in Threads : pc[u] = "done" => pc'[u] = "done"
  PROVE  SealInv'
<1> SUFFICES ASSUME checks <= 1
             PROVE  /\ threadDone' <= Ended(1)' + Ended(2)' + Ended(3)'
                    /\ Sent("DONE")' =>
                         \E t \in Threads : pc'[t] = "done" /\ locth'[t] >= 3
  BY DEF SealInv
<1>1. threadDone <= Ended(1) + Ended(2) + Ended(3)
  BY DEF SealInv
<1>2. \A u \in {1, 2, 3} : Ended(u) <= Ended(u)' /\ Ended(u) \in Nat
                          /\ Ended(u)' \in Nat
  BY CountTyped DEF Ended
<1>3. threadDone' <= Ended(1)' + Ended(2)' + Ended(3)'
  BY <1>1, <1>2, CountTyped
<1> QED BY <1>3 DEF SealInv

\* The threads of one check.
LEMMA ThreeThreads ==
  ASSUME TypeInv, checks <= 1, NEW t \in Threads, pc[t] # "off"
  PROVE  t \in {1, 2, 3}
<1>1. t <= nThreads /\ t \in Nat /\ t > 0
  <2>1. t \in Nat /\ t > 0
    BY MaxChecksTyped DEF Threads
  <2>2. ~(t > nThreads)
    BY DEF TypeInv, Created
  <2> QED BY <2>1, <2>2, ThreadsCounted
<1> QED BY <1>1, ThreadsCounted

\* One more is counted, and has ended.
LEMMA SealBump ==
  ASSUME TypeInv, SealInv, NEW t \in Threads, CountBump(t)
  PROVE  SealInv' /\ (checks <= 1 => threadDone <= 2)
<1> SUFFICES ASSUME checks <= 1 PROVE SealInv' /\ threadDone <= 2
  BY DEF SealInv, CountBump
<1> USE CountTyped
<1>1. /\ pc[t] = "bump" /\ pc' = [pc EXCEPT ![t] = "take"]
      /\ threadDone' = threadDone + 1 /\ locth' = locth /\ posted' = posted
  BY DEF CountBump
<1>2. t \in {1, 2, 3}
  BY <1>1, ThreeThreads
<1>3. /\ Ended(t) = 0 /\ Ended(t)' = 1
      /\ \A u \in {1, 2, 3} : u # t => Ended(u)' = Ended(u)
      /\ \A u \in {1, 2, 3} : Ended(u) \in 0..1
  BY <1>1, <1>2 DEF Ended, Bumped
<1>4. threadDone <= Ended(1) + Ended(2) + Ended(3)
  BY DEF SealInv
<1>5. Ended(1)' + Ended(2)' + Ended(3)' = Ended(1) + Ended(2) + Ended(3) + 1
  BY <1>2, <1>3
<1>6. threadDone <= 2
  BY <1>2, <1>3, <1>4
<1>7. threadDone' <= Ended(1)' + Ended(2)' + Ended(3)'
  BY <1>1, <1>3, <1>4, <1>5
<1>8. Sent("DONE")' => \E u \in Threads : pc'[u] = "done" /\ locth'[u] >= 3
  <2>1. Sent("DONE")' = Sent("DONE")
    BY <1>1 DEF Sent
  <2>2. \A u \in Threads : pc[u] = "done" => pc'[u] = "done"
    BY <1>1
  <2> QED BY <1>1, <2>1, <2>2 DEF SealInv
<1> QED BY <1>6, <1>7, <1>8 DEF SealInv

\* No more than three are ever counted.
LEMMA SealBound ==
  ASSUME TypeInv, SealInv, checks <= 1
  PROVE  threadDone <= 3
<1>1. threadDone <= Ended(1) + Ended(2) + Ended(3)
  BY DEF SealInv
<1>2. \A u \in {1, 2, 3} : Ended(u) \in 0..1
  BY DEF Ended
<1> QED BY <1>1, <1>2, CountTyped

\* A thread that counts itself sets no end that others have seen.
LEMMA SealTake ==
  ASSUME TypeInv, SealInv, NEW t \in Threads, CountTake(t)
  PROVE  SealInv'
<1> USE CountTyped
<1>1. /\ pc[t] = "take" /\ pc' = [pc EXCEPT ![t] = "report"]
      /\ locth' = [locth EXCEPT ![t] = threadDone]
      /\ threadDone' = threadDone /\ posted' = posted /\ checks' = checks
  BY DEF CountTake
<1> SUFFICES ASSUME checks <= 1 PROVE SealInv'
  BY <1>1 DEF SealInv
<1>2. \A u \in {1, 2, 3} : Ended(u)' = Ended(u)
  BY <1>1 DEF Ended, Bumped
<1>3. Sent("DONE")' => \E u \in Threads : pc'[u] = "done" /\ locth'[u] >= 3
  <2>1. Sent("DONE")' = Sent("DONE")
    BY <1>1 DEF Sent
  <2>2. \A u \in Threads :
          pc[u] = "done" => pc'[u] = "done" /\ locth'[u] = locth[u]
    BY <1>1
  <2> QED BY <2>1, <2>2 DEF SealInv
<1> QED BY <1>1, <1>2, <1>3 DEF SealInv

\* The end is announced by the thread counted last, and not before.
LEMMA SealReport ==
  ASSUME TypeInv, CountInv, SealInv, NEW t \in Threads, Report(t)
  PROVE  /\ SealInv'
         /\ ~AllDone(t) => Sent("DONE")' = Sent("DONE")
         /\ AllDone(t) =>
              /\ Sent("DONE")'
              /\ checks <= 1 => threadDone = 3 /\ ~Sent("DONE")
<1> USE CountTyped
<1>1. /\ pc[t] = "report" /\ pc' = [pc EXCEPT ![t] = "done"]
      /\ UNCHANGED <<threadDone, locth, checks>>
  BY DEF Report
<1>2. ASSUME ~AllDone(t) PROVE Sent("DONE")' = Sent("DONE")
  BY <1>2 DEF Report, Sent
<1>3. ASSUME AllDone(t) PROVE Sent("DONE")'
  <2>1. [msg |-> "DONE", val |-> 0] \in Messages
    BY DEF Messages
  <2> QED BY <1>3, <2>1, SentAppended DEF Report
<1>4. ASSUME AllDone(t), checks <= 1 PROVE threadDone = 3
  <2>1. locth[t] >= 3 /\ locth[t] <= threadDone
    BY <1>4 DEF AllDone, CountInv
  <2> QED BY <1>4, <2>1, SealBound
<1>5. ASSUME AllDone(t), checks <= 1, Sent("DONE") PROVE FALSE
  <2>1. PICK u \in Threads : pc[u] = "done" /\ locth[u] >= 3
    BY <1>5 DEF SealInv
  <2>2. u # t /\ locth[u] <= 3 /\ locth[t] <= 3 /\ locth[t] >= 3
    BY <1>1, <1>4, <1>5, <2>1 DEF AllDone, CountInv
  <2> QED BY <2>1, <2>2 DEF CountInv
<1>6. SealInv'
  <2> SUFFICES ASSUME checks <= 1 PROVE SealInv'
    BY <1>1 DEF SealInv
  <2>1. \A u \in {1, 2, 3} : Ended(u)' = Ended(u)
    BY <1>1 DEF Ended, Bumped
  <2>2. Sent("DONE")' => \E u \in Threads : pc'[u] = "done" /\ locth'[u] >= 3
    <3>1. CASE AllDone(t)
      BY <1>1, <3>1 DEF AllDone
    <3>2. CASE ~AllDone(t)
      <4>1. \A u \in Threads : pc[u] = "done" => pc'[u] = "done"
        BY <1>1
      <4> QED BY <1>1, <1>2, <3>2, <4>1 DEF SealInv
    <3> QED BY <3>1, <3>2
  <2> QED BY <1>1, <2>1, <2>2 DEF SealInv
<1> QED BY <1>2, <1>3, <1>4, <1>5, <1>6

\* Every step of a thread.
LEMMA SealRun ==
  ASSUME TypeInv, CountInv, SealInv, NEW t \in Threads, run(t)
  PROVE  SealInv'
<1> USE CountTyped, SealFrame DEF Bumped
<1>1. CASE RunAny(t)
  BY <1>1 DEF RunAny, ReadIndex, Signal, ResetIndex, EnterCs, LeaveCs, Sent
<1>2. CASE RunFill(t)
  <2>1. CASE PostInit(t)
    <3>1. [msg |-> "INIT_READY", val |-> TotalWork(t)] \in Messages
      BY TotalWorkTyped DEF Messages
    <3>2. Sent("DONE")' = Sent("DONE")
      BY <2>1, <3>1, SentAppended DEF PostInit, Sent
    <3> QED BY <2>1, <3>2 DEF PostInit
  <2> QED BY <1>2, <2>1 DEF RunFill, FillFiles, FillRegs, SetReady, Sent
<1>3. CASE RunSearch(t)
  BY <1>3 DEF RunSearch, Await, Resignal, SkipDrive, ChangeDir, SearchOver,
     FindHit, FindValid, FindMiss, BlockOver, FullPath, Sent
<1>4. CASE RunDetect(t)
  <2>1. CASE AddFileNotify(t)
    <3>1. [msg |-> "DETECTION", val |-> path_iter] \in Messages
      BY ListTyped DEF Messages
    <3>2. Sent("DONE")' = Sent("DONE")
      BY <2>1, <3>1, SentAppended DEF AddFileNotify, Sent
    <3> QED BY <2>1, <3>2 DEF AddFileNotify
  <2> QED BY <1>4, <2>1 DEF RunDetect, LockDects, AddFile, AddFilePush,
       AddName, UnlockDects, EnterHwnd, AddFileAdvance, Sent
<1>5. CASE RunRegistry(t)
  BY <1>5 DEF RunRegistry, OpenKey, KeysOver, QueryPresent, QueryAbsent,
     QueryBeyond, ValuesOver, AddReg, Sent
<1>6. CASE RunCount(t)
  BY <1>6, SealBump, SealTake, SealReport DEF RunCount, CountWait, Sent
<1> QED BY <1>1, <1>2, <1>3, <1>4, <1>5, <1>6 DEF run

\* Every step of the program.
LEMMA SealNext ==
  ASSUME TypeInv, CountInv, SealInv, [Next]_vars
  PROVE  SealInv'
<1> USE CountTyped, SealFrame
<1>1. CASE UNCHANGED vars
  BY <1>1 DEF Sent
<1>2. CASE Check \/ _switch
  <2>1. \A u \in Threads : pc[u] \in Bumped => pc'[u] = pc[u]
    BY <1>2, NewThread DEF _switch, SwitchWait, SwitchStore, Bumped
  <2>2. checks' <= 1 => checks <= 1
    BY <1>2 DEF Check, _switch, SwitchWait, SwitchStore, SwitchReset
  <2> QED BY <1>2, <2>1, <2>2 DEF Check, _switch, SwitchWait, SwitchStore,
             SwitchReset, Sent, Bumped
<1>3. CASE Cancel
  <2>1. [msg |-> "ABORTED", val |-> 0] \in Messages
    BY DEF Messages
  <2>2. Sent("DONE")' = Sent("DONE")
    BY <1>3, <2>1, SentAppended DEF Cancel, Sent
  <2> QED BY <1>3, <2>2 DEF Cancel, Bumped
<1> QED BY <1>1, <1>2, <1>3, SealRun DEF Next

\* Nobody has ended at first.
LEMMA SealInit == Init => SealInv
  BY DEF Init, SealInv, Ended, Bumped, Sent

\* While a thread of the only check has not ended, not all are counted.
LEMMA Unfinished ==
  ASSUME TypeInv, SealInv, checks <= 1, NEW t \in Threads,
         pc[t] \notin Bumped \cup {"off"}
  PROVE  threadDone <= 2
<1>1. t \in {1, 2, 3} /\ Ended(t) = 0
  BY ThreeThreads DEF Ended
<1>2. threadDone <= Ended(1) + Ended(2) + Ended(3)
  BY DEF SealInv
<1>3. \A u \in {1, 2, 3} : Ended(u) \in 0..1
  BY DEF Ended
<1> QED BY <1>1, <1>2, <1>3, CountTyped

\* What is appended to a sequence leaves it in front.
LEMMA FrontOfAppend ==
  ASSUME NEW S, NEW s \in Seq(S), NEW e \in S
  PROVE  Len(Append(s, e)) = Len(s) + 1 /\ SubSeq(Append(s, e), 1, Len(s)) = s
<1>1. Append(s, e) \in Seq(S) /\ Len(Append(s, e)) = Len(s) + 1
      /\ \A i \in 1..Len(s) : Append(s, e)[i] = s[i]
  BY AppendProperties
<1>2. SubSeq(Append(s, e), 1, Len(s)) = s
  <2> DEFINE u == SubSeq(Append(s, e), 1, Len(s))
  <2>1. Len(s) \in Nat
    BY LenProperties
  <2>2. u \in Seq(S) /\ Len(u) = Len(s)
    BY <1>1, <2>1
  <2>3. \A i \in 1..Len(s) : u[i] = s[i]
    BY <1>1, <2>1
  <2> QED BY <2>2, <2>3, SeqEqual
<1> QED BY <1>1, <1>2

\* The steps of a thread, as steps of the log: the push detects a path, an added
\* key detects a key, the count finishes one searcher, and the message seals.
LEMMA LogRun ==
  ASSUME TypeInv, LockDiscipline, ListInv, CountInv, SealInv, checks <= 1,
         NEW t \in Threads, run(t)
  PROVE  [Log!LogNext]_(Log!logVars)
<1> USE CountTyped DEF Log!logVars
<1>1. CASE RunAny(t)
  BY <1>1 DEF RunAny, ReadIndex, Signal, ResetIndex, EnterCs, LeaveCs, Sent
<1>2. CASE RunFill(t)
  <2>1. CASE PostInit(t)
    <3>1. [msg |-> "INIT_READY", val |-> TotalWork(t)] \in Messages
      BY TotalWorkTyped DEF Messages
    <3>2. Sent("DONE")' = Sent("DONE")
      BY <2>1, <3>1, SentAppended DEF PostInit, Sent
    <3> QED BY <2>1, <3>2 DEF PostInit
  <2> QED BY <1>2, <2>1 DEF RunFill, FillFiles, FillRegs, SetReady, Sent
<1>3. CASE RunSearch(t)
  BY <1>3 DEF RunSearch, Await, Resignal, SkipDrive, ChangeDir, SearchOver,
     FindHit, FindValid, FindMiss, BlockOver, FullPath, Sent
<1>4. CASE RunDetect(t)
  <2>1. CASE AddFilePush(t)
    <3>1. /\ pc[t] = "push" /\ Filepaths' = Append(Filepaths, found[t])
          /\ UNCHANGED <<regS, threadDone, posted>>
      BY <2>1 DEF AddFilePush, PushFile
    <3>2. found[t] \in Paths
      BY <3>1 DEF TypeInv, Loops, LoopsOf, Searching
    <3>3. threadDone <= 2
      BY <3>1, Unfinished DEF Bumped
    <3>4. \A i \in 1..Len(Filepaths) : Filepaths[i] # found[t]
      <4> SUFFICES ASSUME NEW i \in 1..Len(Filepaths), Filepaths[i] = found[t]
                   PROVE  FALSE
        OBVIOUS
      <4>1. ~PathPrefix(found[t], Filepaths[i])
        BY <3>1 DEF ListInv, PushIsNew, FileExist
      <4> QED BY <3>2, <4>1, PrefixAssumption DEF PathPrefix, Paths
    <3>5. Log!DetectPath(found[t])
      BY <3>1, <3>3, <3>4 DEF Log!DetectPath, Sent
    <3> QED BY <3>2, <3>5 DEF Log!LogNext
  <2>2. CASE AddFileNotify(t)
    <3>1. [msg |-> "DETECTION", val |-> path_iter] \in Messages
      BY ListTyped DEF Messages
    <3>2. Sent("DONE")' = Sent("DONE")
      BY <2>2, <3>1, SentAppended DEF AddFileNotify, Sent
    <3> QED BY <2>2, <3>2 DEF AddFileNotify
  <2> QED BY <1>4, <2>1, <2>2 DEF RunDetect, LockDects, AddFile, AddName,
             UnlockDects, EnterHwnd, AddFileAdvance, Sent
<1>5. CASE RunRegistry(t)
  <2>1. CASE AddReg(t) /\ someExist[t]
    <3>1. /\ pc[t] = "addreg" /\ regS' = Append(regS, Key(t))
          /\ UNCHANGED <<Filepaths, threadDone, posted>>
      BY <2>1 DEF AddReg, addReg
    <3>2. threadDone <= 2
      BY <3>1, Unfinished DEF Bumped
    <3>3. regS \in Seq(RegKeys) /\ Key(t) \in RegKeys
      <4>1. outer[t] < Len(regVector)
        BY <3>1 DEF TypeInv, Loops, LoopsOf
      <4> QED BY <4>1, KeyTyped DEF TypeInv, TypeOK, DectTypeOK
    <3>4. Len(regS') = Len(regS) + 1 /\ SubSeq(regS', 1, Len(regS)) = regS
      BY <3>1, <3>3, FrontOfAppend
    <3>5. Log!DetectKey
      BY <3>1, <3>2, <3>4 DEF Log!DetectKey, Sent
    <3> QED BY <3>5 DEF Log!LogNext
  <2>2. CASE AddReg(t) /\ ~someExist[t]
    BY <2>2 DEF AddReg, Sent
  <2> QED BY <1>5, <2>1, <2>2 DEF RunRegistry, OpenKey, KeysOver, QueryPresent,
             QueryAbsent, QueryBeyond, ValuesOver, Sent
<1>6. CASE RunCount(t)
  <2>1. CASE CountBump(t)
    <3>1. threadDone <= 2
      BY <2>1, SealBump
    <3>2. Log!FinishOne
      BY <2>1, <3>1 DEF CountBump, Log!FinishOne, Sent
    <3> QED BY <3>2 DEF Log!LogNext
  <2>2. CASE Report(t)
    <3>1. UNCHANGED <<Filepaths, regS, threadDone>>
      BY <2>2 DEF Report
    <3>2. CASE AllDone(t)
      <4>1. threadDone = 3 /\ ~Sent("DONE") /\ Sent("DONE")'
        BY <2>2, <3>2, SealReport
      <4>2. Log!Seal
        BY <3>1, <4>1 DEF Log!Seal
      <4> QED BY <4>2 DEF Log!LogNext
    <3>3. CASE ~AllDone(t)
      BY <2>2, <3>1, <3>3, SealReport
    <3> QED BY <3>2, <3>3
  <2> QED BY <1>6, <2>1, <2>2 DEF RunCount, CountWait, CountTake, Sent
<1> QED BY <1>1, <1>2, <1>3, <1>4, <1>5, <1>6 DEF run

\* Every step of the program, as a step of the log.
LEMMA LogStep ==
  ASSUME TypeInv, LockDiscipline, ListInv, CountInv, SealInv, checks <= 1,
         [Next]_vars
  PROVE  [Log!LogNext]_(Log!logVars)
<1>1. CASE UNCHANGED vars
  BY <1>1 DEF Log!logVars, Sent
<1>2. CASE Check \/ _switch
  BY <1>2 DEF Check, _switch, SwitchWait, SwitchStore, SwitchReset, Sent,
     Log!logVars
<1>3. CASE Cancel
  <2>1. [msg |-> "ABORTED", val |-> 0] \in Messages
    BY DEF Messages
  <2>2. Sent("DONE")' = Sent("DONE")
    BY <1>3, <2>1, SentAppended DEF Cancel, Sent
  <2> QED BY <1>3, <2>2 DEF Cancel, Log!logVars
<1> QED BY <1>1, <1>2, <1>3, LogRun DEF Next

\* LogRefined, for every value of the constants: as long as the user asks for
\* one check, also when he cancels it, the list a WM_ENGINE_DONE hands to the
\* repair is final, the message is sent once, and no path is lost or repeated.
THEOREM OneCheckIsALog == Spec /\ [](checks <= 1) => LogRefined
<1>1. Init => Log!LogInit
  BY DEF Init, DectInit, Log!LogInit, Sent
<1>2. /\ TypeInv /\ LockDiscipline /\ ListInv /\ CountInv /\ SealInv
      /\ checks <= 1 /\ [Next]_vars
      => [Log!LogNext]_(Log!logVars)
  BY LogStep
<1>3. /\ TypeInv /\ LockDiscipline /\ ListInv /\ [Next]_vars => ListInv'
      /\ TypeInv /\ LockDiscipline /\ CountInv /\ [Next]_vars => CountInv'
      /\ TypeInv /\ CountInv /\ SealInv /\ [Next]_vars => SealInv'
  BY ListNext, CountNext, SealNext
<1>4. Init => ListInv /\ CountInv /\ SealInv
  BY ListInit, CountInit, SealInit
<1>5. Spec => [](TypeInv /\ LockDiscipline /\ ListInv /\ CountInv /\ SealInv)
  BY <1>3, <1>4, TypeInvariant, LocksHeld, PTL DEF Spec
<1> QED BY <1>1, <1>2, <1>5, PTL DEF Spec, LogRefined, Log!LogSpec
=============================================================================
