---------------------------- MODULE EngineProofs ----------------------------
(***************************************************************************)
(* Safety of Engine for every value of its constants: the mutexes protect  *)
(* what they are meant to, no path is listed twice, the window's thread    *)
(* never waits in _switch for an event nobody sets, the threads of one     *)
(* check have one role each, and nothing precedes WM_ENGINE_INIT_READY.    *)
(***************************************************************************)
EXTENDS EngineTypes

USE DEF guiVars, indexVars, eventVars, lockVars, syncVars, dataVars, msgVars,
        loopVars, valueVars, dectVars, vars, Goto, Step, Acquire, WaitDects,
        mhThread

-----------------------------------------------------------------------------
(* The mutexes.  LockDiscipline is inductive once it is known which threads  *)
(* exist: a new thread enters no section, and Cancel ends the newest one.    *)

\* No thread is the free value of a mutex.
LEMMA NotNoThread == \A t \in Threads : t # NoThread
  BY DEF Threads, NoThread

\* The thread a start() creates was not in any section.
LEMMA LockStart ==
  ASSUME TypeInv, LockDiscipline, start, UNCHANGED lockVars
  PROVE  LockDiscipline'
<1>1. nThreads + 1 \in Threads => pc[nThreads + 1] = "off"
  BY MaxChecksTyped DEF TypeInv, TypeOK, Created, Threads
<1>2. pc' = [pc EXCEPT ![nThreads + 1] = "new"] /\ pc \in [Threads -> Points]
  BY DEF TypeInv, TypeOK, start
<1>3. UNCHANGED <<hMdect, hTDone, cs>>
  OBVIOUS
<1> QED BY <1>1, <1>2, <1>3 DEF LockDiscipline, Adding, Counting, InsideCs

\* A terminated thread leaves its mutexes free and its critical section owned.
LEMMA LockCancel ==
  ASSUME TypeInv, LockDiscipline, Cancel
  PROVE  LockDiscipline'
<1>1. nThreads \in Threads
  BY MaxChecksTyped DEF TypeInv, TypeOK, Cancel, Threads
<1>2. pc \in [Threads -> Points]
  BY DEF TypeInv, TypeOK
<1>3. /\ pc' = [pc EXCEPT ![nThreads] =
                  IF pc[nThreads] = "done" THEN "done" ELSE "killed"]
      /\ hMdect' = IF hMdect = nThreads THEN NoThread ELSE hMdect
      /\ hTDone' = IF hTDone = nThreads THEN NoThread ELSE hTDone
      /\ cs' = cs
  BY DEF Cancel, Abandon
<1> QED
  BY <1>1, <1>2, <1>3, NotNoThread DEF LockDiscipline, Adding, Counting,
     InsideCs

\* Every step of a thread respects the sections.
LEMMA LockRun ==
  ASSUME TypeInv, LockDiscipline, NEW t \in Threads, run(t)
  PROVE  LockDiscipline'
<1> pc \in [Threads -> Points]
  BY DEF TypeInv, TypeOK
<1> USE NotNoThread DEF LockDiscipline, Adding, Counting, InsideCs
<1>1. CASE RunAny(t)
  <2>1. CASE ReadIndex(t)
    BY <2>1 DEF ReadIndex
  <2>2. CASE Signal(t)
    BY <2>2 DEF Signal
  <2>3. CASE ResetIndex(t)
    BY <2>3 DEF ResetIndex
  <2>4. CASE EnterCs(t)
    BY <2>4 DEF EnterCs
  <2>5. CASE LeaveCs(t)
    BY <2>5 DEF LeaveCs
  <2> QED BY <1>1, <2>1, <2>2, <2>3, <2>4, <2>5 DEF RunAny
<1>2. CASE RunFill(t)
  <2>1. CASE FillFiles(t)
    BY <2>1 DEF FillFiles
  <2>2. CASE FillRegs(t)
    BY <2>2 DEF FillRegs
  <2>3. CASE PostInit(t)
    BY <2>3 DEF PostInit
  <2>4. CASE SetReady(t)
    BY <2>4 DEF SetReady
  <2> QED BY <1>2, <2>1, <2>2, <2>3, <2>4 DEF RunFill
<1>3. CASE RunSearch(t)
  <2>1. CASE Await(t)
    BY <2>1 DEF Await
  <2>2. CASE Resignal(t)
    BY <2>2 DEF Resignal
  <2>3. CASE SkipDrive(t)
    BY <2>3 DEF SkipDrive
  <2>4. CASE ChangeDir(t)
    BY <2>4 DEF ChangeDir
  <2>5. CASE SearchOver(t)
    BY <2>5 DEF SearchOver
  <2>6. CASE FindHit(t)
    BY <2>6 DEF FindHit
  <2>7. CASE FindValid(t)
    BY <2>7 DEF FindValid
  <2>8. CASE FindMiss(t)
    BY <2>8 DEF FindMiss
  <2>9. CASE BlockOver(t)
    BY <2>9 DEF BlockOver
  <2>10. CASE FullPath(t)
    BY <2>10 DEF FullPath
  <2> QED BY <1>3, <2>1, <2>2, <2>3, <2>4, <2>5, <2>6, <2>7, <2>8, <2>9,
             <2>10 DEF RunSearch
<1>4. CASE RunDetect(t)
  <2>1. CASE LockDects(t)
    BY <2>1 DEF LockDects
  <2>2. CASE AddFile(t)
    BY <2>2 DEF AddFile
  <2>3. CASE AddFilePush(t)
    BY <2>3 DEF AddFilePush
  <2>4. CASE AddFileNotify(t)
    BY <2>4 DEF AddFileNotify
  <2>5. CASE AddName(t)
    BY <2>5 DEF AddName
  <2>6. CASE UnlockDects(t)
    BY <2>6 DEF UnlockDects
  <2>7. CASE EnterHwnd(t)
    BY <2>7 DEF EnterHwnd
  <2>8. CASE AddFileAdvance(t)
    BY <2>8 DEF AddFileAdvance
  <2> QED BY <1>4, <2>1, <2>2, <2>3, <2>4, <2>5, <2>6, <2>7, <2>8 DEF RunDetect
<1>5. CASE RunRegistry(t)
  <2>1. CASE OpenKey(t)
    BY <2>1 DEF OpenKey
  <2>2. CASE KeysOver(t)
    BY <2>2 DEF KeysOver
  <2>3. CASE QueryPresent(t)
    BY <2>3 DEF QueryPresent
  <2>4. CASE QueryAbsent(t)
    BY <2>4 DEF QueryAbsent
  <2>5. CASE QueryBeyond(t)
    BY <2>5 DEF QueryBeyond
  <2>6. CASE ValuesOver(t)
    BY <2>6 DEF ValuesOver
  <2>7. CASE AddReg(t)
    BY <2>7 DEF AddReg
  <2> QED BY <1>5, <2>1, <2>2, <2>3, <2>4, <2>5, <2>6, <2>7 DEF RunRegistry
<1>6. CASE RunCount(t)
  <2>1. CASE CountWait(t)
    BY <2>1 DEF CountWait
  <2>2. CASE CountBump(t)
    BY <2>2 DEF CountBump
  <2>3. CASE CountTake(t)
    BY <2>3 DEF CountTake
  <2>4. CASE Report(t)
    BY <2>4 DEF Report
  <2> QED BY <1>6, <2>1, <2>2, <2>3, <2>4 DEF RunCount
<1> QED BY <1>1, <1>2, <1>3, <1>4, <1>5, <1>6 DEF run

\* Every step of the program respects the sections.
LEMMA LockNext ==
  ASSUME TypeInv, LockDiscipline, [Next]_vars
  PROVE  LockDiscipline'
<1>1. CASE Check
  BY <1>1, LockStart DEF Check
<1>2. CASE _switch
  <2>1. CASE SwitchWait
    BY <2>1 DEF LockDiscipline, SwitchWait
  <2>2. CASE SwitchStore
    BY <2>2 DEF LockDiscipline, SwitchStore
  <2>3. CASE SwitchReset
    BY <2>3, LockStart DEF SwitchReset
  <2> QED BY <1>2, <2>1, <2>2, <2>3 DEF _switch
<1>3. CASE Cancel
  BY <1>3, LockCancel
<1>4. ASSUME NEW t \in Threads, run(t) PROVE LockDiscipline'
  BY <1>4, LockRun
<1>5. CASE UNCHANGED vars
  BY <1>5 DEF LockDiscipline
<1> QED BY <1>1, <1>2, <1>3, <1>4, <1>5 DEF Next

\* No thread is in a section at first.
LEMMA LockInit == Init => LockDiscipline
  BY NotNoThread DEF Init, LockDiscipline, Adding, Counting, InsideCs

\* LockDiscipline, for any number of checks and cancels: the three locks cover
\* their sections, also when threads of two checks share them and when one is
\* terminated inside.
THEOREM LocksHeld == Spec => []LockDiscipline
<1>1. TypeInv /\ LockDiscipline /\ [Next]_vars => LockDiscipline'
  BY LockNext
<1> QED BY <1>1, LockInit, TypeInvariant, PTL DEF Spec

-----------------------------------------------------------------------------
(* The list.  FileExist and push_back are two steps, with the lock held:     *)
(* what the test saw is still true at the push.                              *)

PushIsNew == \A t \in Threads : pc[t] = "push" => ~FileExist(found[t])

ListInv == NoDuplicatePaths /\ PushIsNew

\* Only a thread that holds hMdect adds a path or is about to.
LEMMA OnePusher ==
  ASSUME LockDiscipline, NEW t \in Threads, NEW u \in Threads,
         pc[t] \in Adding, pc[u] \in Adding
  PROVE  t = u
  BY DEF LockDiscipline

\* The push: the new path is last, and no earlier one begins with it.
LEMMA ListPush ==
  ASSUME TypeInv, LockDiscipline, ListInv, NEW t \in Threads, AddFilePush(t)
  PROVE  ListInv'
<1>1. pc[t] = "push" /\ found[t] \in Paths /\ Filepaths \in Seq(Paths)
  BY DEF AddFilePush, TypeInv, TypeOK, DectTypeOK, Loops, LoopsOf, Searching
<1>2. Filepaths' = Append(Filepaths, found[t])
  BY DEF AddFilePush, PushFile
<1>3. /\ Len(Filepaths') = Len(Filepaths) + 1
      /\ \A i \in 1..Len(Filepaths) : Filepaths'[i] = Filepaths[i]
      /\ Filepaths'[Len(Filepaths) + 1] = found[t]
      /\ Len(Filepaths) \in Nat
  BY <1>1, <1>2, AppendProperties, LenProperties
<1>4. NoDuplicatePaths'
  <2> SUFFICES ASSUME NEW i \in 1..Len(Filepaths'),
                      NEW j \in 1..Len(Filepaths'), i < j
               PROVE  ~PathPrefix(Filepaths'[j], Filepaths'[i])
    BY DEF NoDuplicatePaths, PathPrefix
  <2>1. i \in 1..Len(Filepaths)
    BY <1>3
  <2>2. CASE j \in 1..Len(Filepaths)
    BY <1>3, <2>1, <2>2 DEF ListInv, NoDuplicatePaths
  <2>3. CASE j = Len(Filepaths) + 1
    BY <1>1, <1>3, <2>1, <2>3 DEF ListInv, PushIsNew, FileExist
  <2> QED BY <1>3, <2>2, <2>3
<1>5. PushIsNew'
  <2> SUFFICES ASSUME NEW u \in Threads, pc'[u] = "push" PROVE FALSE
    BY DEF PushIsNew
  <2>1. pc' = [pc EXCEPT ![t] = "notify"] /\ pc \in [Threads -> Points]
    BY DEF AddFilePush, TypeInv, TypeOK
  <2>2. u # t /\ pc[u] = "push"
    BY <2>1
  <2> QED BY <1>1, <2>2, OnePusher DEF Adding
<1> QED BY <1>4, <1>5 DEF ListInv

\* The test: a thread that goes on to the push has not seen its path.
LEMMA ListTest ==
  ASSUME TypeInv, ListInv, NEW t \in Threads, AddFile(t)
  PROVE  ListInv'
<1>1. /\ pc' = [pc EXCEPT ![t] =
                  IF FileExist(found[t]) THEN "addname" ELSE "push"]
      /\ pc \in [Threads -> Points]
      /\ Filepaths' = Filepaths /\ found' = found
  BY DEF AddFile, TypeInv, TypeOK
<1> QED BY <1>1 DEF ListInv, NoDuplicatePaths, PushIsNew, FileExist, PathPrefix

\* The other steps that leave the list alone bring no thread to the push.
LEMMA ListFrame ==
  ASSUME ListInv, Filepaths' = Filepaths,
         \A u \in Threads :
           pc'[u] = "push" => pc[u] = "push" /\ found'[u] = found[u]
  PROVE  ListInv'
  BY DEF ListInv, NoDuplicatePaths, PushIsNew, FileExist, PathPrefix

\* Every step of a thread.
LEMMA ListRun ==
  ASSUME TypeInv, LockDiscipline, ListInv, NEW t \in Threads, run(t)
  PROVE  ListInv'
<1> pc \in [Threads -> Points] /\ found \in [Threads -> Paths \cup {NoPath}]
  BY DEF TypeInv, TypeOK
<1>1. CASE RunAny(t)
  <2>1. CASE ReadIndex(t)
    BY <2>1, ListFrame DEF ReadIndex
  <2>2. CASE Signal(t)
    BY <2>2, ListFrame DEF Signal
  <2>3. CASE ResetIndex(t)
    BY <2>3, ListFrame DEF ResetIndex
  <2>4. CASE EnterCs(t)
    BY <2>4, ListFrame DEF EnterCs
  <2>5. CASE LeaveCs(t)
    BY <2>5, ListFrame DEF LeaveCs
  <2> QED BY <1>1, <2>1, <2>2, <2>3, <2>4, <2>5 DEF RunAny
<1>2. CASE RunFill(t)
  <2>1. CASE FillFiles(t)
    BY <2>1, ListFrame DEF FillFiles
  <2>2. CASE FillRegs(t)
    BY <2>2, ListFrame DEF FillRegs
  <2>3. CASE PostInit(t)
    BY <2>3, ListFrame DEF PostInit
  <2>4. CASE SetReady(t)
    BY <2>4, ListFrame DEF SetReady
  <2> QED BY <1>2, <2>1, <2>2, <2>3, <2>4 DEF RunFill
<1>3. CASE RunSearch(t)
  <2>1. CASE Await(t)
    BY <2>1, ListFrame DEF Await
  <2>2. CASE Resignal(t)
    BY <2>2, ListFrame DEF Resignal
  <2>3. CASE SkipDrive(t)
    BY <2>3, ListFrame DEF SkipDrive
  <2>4. CASE ChangeDir(t)
    BY <2>4, ListFrame DEF ChangeDir
  <2>5. CASE SearchOver(t)
    BY <2>5, ListFrame DEF SearchOver
  <2>6. CASE FindHit(t)
    BY <2>6, ListFrame DEF FindHit
  <2>7. CASE FindValid(t)
    BY <2>7, ListFrame DEF FindValid
  <2>8. CASE FindMiss(t)
    BY <2>8, ListFrame DEF FindMiss
  <2>9. CASE BlockOver(t)
    BY <2>9, ListFrame DEF BlockOver
  <2>10. CASE FullPath(t)
    BY <2>10, ListFrame DEF FullPath
  <2> QED BY <1>3, <2>1, <2>2, <2>3, <2>4, <2>5, <2>6, <2>7, <2>8, <2>9,
             <2>10 DEF RunSearch
<1>4. CASE RunDetect(t)
  <2>1. CASE LockDects(t)
    BY <2>1, ListFrame DEF LockDects
  <2>2. CASE AddFile(t)
    BY <2>2, ListTest
  <2>3. CASE AddFilePush(t)
    BY <2>3, ListPush
  <2>4. CASE AddFileNotify(t)
    BY <2>4, ListFrame DEF AddFileNotify
  <2>5. CASE AddName(t)
    BY <2>5, ListFrame DEF AddName
  <2>6. CASE UnlockDects(t)
    BY <2>6, ListFrame DEF UnlockDects
  <2>7. CASE EnterHwnd(t)
    BY <2>7, ListFrame DEF EnterHwnd
  <2>8. CASE AddFileAdvance(t)
    BY <2>8, ListFrame DEF AddFileAdvance
  <2> QED BY <1>4, <2>1, <2>2, <2>3, <2>4, <2>5, <2>6, <2>7, <2>8 DEF RunDetect
<1>5. CASE RunRegistry(t)
  <2>1. CASE OpenKey(t)
    BY <2>1, ListFrame DEF OpenKey
  <2>2. CASE KeysOver(t)
    BY <2>2, ListFrame DEF KeysOver
  <2>3. CASE QueryPresent(t)
    BY <2>3, ListFrame DEF QueryPresent
  <2>4. CASE QueryAbsent(t)
    BY <2>4, ListFrame DEF QueryAbsent
  <2>5. CASE QueryBeyond(t)
    BY <2>5, ListFrame DEF QueryBeyond
  <2>6. CASE ValuesOver(t)
    BY <2>6, ListFrame DEF ValuesOver
  <2>7. CASE AddReg(t)
    BY <2>7, ListFrame DEF AddReg
  <2> QED BY <1>5, <2>1, <2>2, <2>3, <2>4, <2>5, <2>6, <2>7 DEF RunRegistry
<1>6. CASE RunCount(t)
  <2>1. CASE CountWait(t)
    BY <2>1, ListFrame DEF CountWait
  <2>2. CASE CountBump(t)
    BY <2>2, ListFrame DEF CountBump
  <2>3. CASE CountTake(t)
    BY <2>3, ListFrame DEF CountTake
  <2>4. CASE Report(t)
    BY <2>4, ListFrame DEF Report
  <2> QED BY <1>6, <2>1, <2>2, <2>3, <2>4 DEF RunCount
<1> QED BY <1>1, <1>2, <1>3, <1>4, <1>5, <1>6 DEF run

\* Every step of the program.
LEMMA ListNext ==
  ASSUME TypeInv, LockDiscipline, ListInv, [Next]_vars
  PROVE  ListInv'
<1> pc \in [Threads -> Points]
  BY DEF TypeInv, TypeOK
<1>1. CASE Check
  BY <1>1, ListFrame DEF Check, start
<1>2. CASE _switch
  BY <1>2, ListFrame DEF _switch, SwitchWait, SwitchStore, SwitchReset, start
<1>3. CASE Cancel
  BY <1>3, ListFrame DEF Cancel
<1>4. ASSUME NEW t \in Threads, run(t) PROVE ListInv'
  BY <1>4, ListRun
<1>5. CASE UNCHANGED vars
  BY <1>5, ListFrame
<1> QED BY <1>1, <1>2, <1>3, <1>4, <1>5 DEF Next

\* The list is empty at first.
LEMMA ListInit == Init => ListInv
  BY DEF Init, DectInit, ListInv, NoDuplicatePaths, PushIsNew

\* NoDuplicatePaths, for any list of definitions, drives and folders and any
\* number of overlapping checks: the test and the push of addFile act as one.
THEOREM NoDuplicates == Spec => []NoDuplicatePaths
<1>1. TypeInv /\ LockDiscipline /\ ListInv /\ [Next]_vars => ListInv'
  BY ListNext
<1>2. ListInv => NoDuplicatePaths
  BY DEF ListInv
<1> QED BY <1>1, <1>2, ListInit, TypeInvariant, LocksHeld, PTL DEF Spec

-----------------------------------------------------------------------------
(* The hand-over of the index. *)

\* A thread short of its SetEvent stays so until it makes it.
LEMMA SignalFrame ==
  ASSUME SwitchNotStuck, gpc' = gpc, hEvent' = hEvent,
         \A u \in Threads : pc[u] \in Started => pc'[u] \in Started
  PROVE  SwitchNotStuck'
  BY DEF SwitchNotStuck, Started

\* Every step of a thread.
LEMMA SignalRun ==
  ASSUME TypeInv, SwitchNotStuck, NEW t \in Threads, run(t)
  PROVE  SwitchNotStuck'
<1> pc \in [Threads -> Points]
  BY DEF TypeInv, TypeOK
<1>1. CASE RunAny(t)
  <2>1. CASE ReadIndex(t)
    BY <2>1, SignalFrame DEF ReadIndex, Started
  <2>2. CASE Signal(t)
    BY <2>2 DEF Signal, SwitchNotStuck
  <2>3. CASE ResetIndex(t)
    BY <2>3, SignalFrame DEF ResetIndex, Started
  <2>4. CASE EnterCs(t)
    BY <2>4, SignalFrame DEF EnterCs, Started
  <2>5. CASE LeaveCs(t)
    BY <2>5, SignalFrame DEF LeaveCs, Started
  <2> QED BY <1>1, <2>1, <2>2, <2>3, <2>4, <2>5 DEF RunAny
<1>2. CASE RunFill(t)
  <2>1. CASE FillFiles(t)
    BY <2>1, SignalFrame DEF FillFiles, Started
  <2>2. CASE FillRegs(t)
    BY <2>2, SignalFrame DEF FillRegs, Started
  <2>3. CASE PostInit(t)
    BY <2>3, SignalFrame DEF PostInit, Started
  <2>4. CASE SetReady(t)
    BY <2>4, SignalFrame DEF SetReady, Started
  <2> QED BY <1>2, <2>1, <2>2, <2>3, <2>4 DEF RunFill
<1>3. CASE RunSearch(t)
  <2>1. CASE Await(t)
    BY <2>1, SignalFrame DEF Await, Started
  <2>2. CASE Resignal(t)
    BY <2>2, SignalFrame DEF Resignal, Started
  <2>3. CASE SkipDrive(t)
    BY <2>3, SignalFrame DEF SkipDrive, Started
  <2>4. CASE ChangeDir(t)
    BY <2>4, SignalFrame DEF ChangeDir, Started
  <2>5. CASE SearchOver(t)
    BY <2>5, SignalFrame DEF SearchOver, Started
  <2>6. CASE FindHit(t)
    BY <2>6, SignalFrame DEF FindHit, Started
  <2>7. CASE FindValid(t)
    BY <2>7, SignalFrame DEF FindValid, Started
  <2>8. CASE FindMiss(t)
    BY <2>8, SignalFrame DEF FindMiss, Started
  <2>9. CASE BlockOver(t)
    BY <2>9, SignalFrame DEF BlockOver, Started
  <2>10. CASE FullPath(t)
    BY <2>10, SignalFrame DEF FullPath, Started
  <2> QED BY <1>3, <2>1, <2>2, <2>3, <2>4, <2>5, <2>6, <2>7, <2>8, <2>9,
             <2>10 DEF RunSearch
<1>4. CASE RunDetect(t)
  <2>1. CASE LockDects(t)
    BY <2>1, SignalFrame DEF LockDects, Started
  <2>2. CASE AddFile(t)
    BY <2>2, SignalFrame DEF AddFile, Started
  <2>3. CASE AddFilePush(t)
    BY <2>3, SignalFrame DEF AddFilePush, Started
  <2>4. CASE AddFileNotify(t)
    BY <2>4, SignalFrame DEF AddFileNotify, Started
  <2>5. CASE AddName(t)
    BY <2>5, SignalFrame DEF AddName, Started
  <2>6. CASE UnlockDects(t)
    BY <2>6, SignalFrame DEF UnlockDects, Started
  <2>7. CASE EnterHwnd(t)
    BY <2>7, SignalFrame DEF EnterHwnd, Started
  <2>8. CASE AddFileAdvance(t)
    BY <2>8, SignalFrame DEF AddFileAdvance, Started
  <2> QED BY <1>4, <2>1, <2>2, <2>3, <2>4, <2>5, <2>6, <2>7, <2>8 DEF RunDetect
<1>5. CASE RunRegistry(t)
  <2>1. CASE OpenKey(t)
    BY <2>1, SignalFrame DEF OpenKey, Started
  <2>2. CASE KeysOver(t)
    BY <2>2, SignalFrame DEF KeysOver, Started
  <2>3. CASE QueryPresent(t)
    BY <2>3, SignalFrame DEF QueryPresent, Started
  <2>4. CASE QueryAbsent(t)
    BY <2>4, SignalFrame DEF QueryAbsent, Started
  <2>5. CASE QueryBeyond(t)
    BY <2>5, SignalFrame DEF QueryBeyond, Started
  <2>6. CASE ValuesOver(t)
    BY <2>6, SignalFrame DEF ValuesOver, Started
  <2>7. CASE AddReg(t)
    BY <2>7, SignalFrame DEF AddReg, Started
  <2> QED BY <1>5, <2>1, <2>2, <2>3, <2>4, <2>5, <2>6, <2>7 DEF RunRegistry
<1>6. CASE RunCount(t)
  <2>1. CASE CountWait(t)
    BY <2>1, SignalFrame DEF CountWait, Started
  <2>2. CASE CountBump(t)
    BY <2>2, SignalFrame DEF CountBump, Started
  <2>3. CASE CountTake(t)
    BY <2>3, SignalFrame DEF CountTake, Started
  <2>4. CASE Report(t)
    BY <2>4, SignalFrame DEF Report, Started
  <2> QED BY <1>6, <2>1, <2>2, <2>3, <2>4 DEF RunCount
<1> QED BY <1>1, <1>2, <1>3, <1>4, <1>5, <1>6 DEF run

\* SwitchNotStuck, for any number of checks and cancels: the wait in _switch is
\* never for an event that nobody is going to set.
THEOREM SwitchNeverStuck == Spec => []SwitchNotStuck
<1>1. Init => SwitchNotStuck
  BY DEF Init, SwitchNotStuck
<1>2. TypeInv /\ SwitchNotStuck /\ [Next]_vars => SwitchNotStuck'
  <2> SUFFICES ASSUME TypeInv, SwitchNotStuck, [Next]_vars
               PROVE  SwitchNotStuck'
    OBVIOUS
  <2>1. CASE Check \/ SwitchReset
    <3>1. nThreads + 1 \in Threads
      <4>1. CASE Check
        BY <4>1, MaxChecksTyped DEF TypeInv, TypeOK, Created, Check, Threads
      <4>2. CASE SwitchReset
        BY <4>2, MaxChecksTyped DEF TypeInv, TypeOK, Created, SwitchReset,
           Threads
      <4> QED BY <2>1, <4>1, <4>2
    <3>2. pc'[nThreads + 1] = "new"
      BY <2>1, <3>1 DEF TypeInv, TypeOK, Check, SwitchReset, start
    <3> QED BY <3>1, <3>2 DEF SwitchNotStuck
  <2>2. CASE SwitchWait \/ SwitchStore \/ Cancel
    BY <2>2 DEF SwitchNotStuck, SwitchWait, SwitchStore, Cancel
  <2>3. ASSUME NEW t \in Threads, run(t) PROVE SwitchNotStuck'
    BY <2>3, SignalRun
  <2>4. CASE UNCHANGED vars
    BY <2>4 DEF SwitchNotStuck
  <2> QED BY <2>1, <2>2, <2>3, <2>4 DEF Next, _switch
<1> QED BY <1>1, <1>2, TypeInvariant, PTL DEF Spec

-----------------------------------------------------------------------------
(* The roles.  While only one check has been asked for, threadIndex is the   *)
(* number of _switches that have been made, and the thread a _switch waits   *)
(* for is the newest.                                                        *)

\* The index says how many threads have been started before the newest.
IndexInv ==
  /\ nThreads = 0 => threadIndex = 0 /\ ~hEvent
  /\ nThreads > 0 =>
       threadIndex = IF gpc = "reset" THEN nThreads ELSE nThreads - 1
  /\ gpc = "store" => gload = threadIndex

\* Who has yet to set the event is the newest, and the event is not set.
StartedInv ==
  \A t \in Threads :
    pc[t] \in Started =>
      t = nThreads /\ ~hEvent /\ gpc \notin {"store", "reset"}

\* The role is the order of the start, and never out of range.
RoleInv ==
  \A t \in Threads :
    /\ Dispatched(t) => th[t] = t - 1
    /\ pc[t] # "reset"

HandoverInv == checks <= 1 => IndexInv /\ StartedInv /\ RoleInv

\* How many threads there are: three for every check that is not being started.
LEMMA ThreadsCounted ==
  ASSUME TypeInv
  PROVE  /\ nThreads \in Nat /\ checks \in Nat /\ threadIndex \in Nat
         /\ gpc # "idle" => nThreads > 0
         /\ nThreads <= 3 * checks
<1>1. nThreads \in Nat /\ checks \in Nat /\ threadIndex \in Nat /\ gleft \in 0..2
  BY MaxChecksTyped DEF TypeInv, TypeOK
<1>2. /\ gpc = "idle" => nThreads = 3 * checks
      /\ gpc # "idle" => gleft > 0 /\ nThreads = 3 * checks - gleft
  BY DEF TypeInv, Created
<1> QED BY <1>1, <1>2, SMT

\* The thread a start() creates: it is the newest, nobody else is short of his
\* SetEvent, and it has no role yet.
LEMMA HandoverStart ==
  ASSUME TypeInv, start, th' = th, ~hEvent', gpc' \notin {"store", "reset"},
         \A t \in Threads : pc[t] \notin Started, RoleInv,
         nThreads + 1 \in Threads
  PROVE  StartedInv' /\ RoleInv'
<1>1. pc' = [pc EXCEPT ![nThreads + 1] = "new"] /\ pc \in [Threads -> Points]
  BY DEF TypeInv, TypeOK, start
<1> QED BY <1>1 DEF StartedInv, RoleInv, Dispatched, Started, start, Threads

\* Check: the first one finds the index and the event as they were made.
LEMMA HandoverCheck ==
  ASSUME TypeInv, HandoverInv, Check
  PROVE  HandoverInv'
<1> SUFFICES ASSUME checks' <= 1 PROVE (IndexInv /\ StartedInv /\ RoleInv)'
  BY DEF HandoverInv
<1>1. checks = 0 /\ nThreads = 0 /\ nThreads' = 1
  BY DEF TypeInv, TypeOK, Created, Check, start
<1>2. IndexInv /\ RoleInv /\ ~hEvent /\ threadIndex = 0
  BY <1>1 DEF HandoverInv, IndexInv
<1>3. \A t \in Threads : pc[t] = "off"
  BY <1>1 DEF TypeInv, Created, Threads
<1>4. nThreads + 1 \in Threads
  BY <1>1, MaxChecksTyped DEF Threads
<1>5. StartedInv' /\ RoleInv'
  BY <1>2, <1>3, <1>4, HandoverStart DEF Check, Started
<1> QED BY <1>1, <1>2, <1>5 DEF IndexInv, Check

\* The three steps of _switch.
LEMMA HandoverSwitch ==
  ASSUME TypeInv, HandoverInv, _switch
  PROVE  HandoverInv'
<1> SUFFICES ASSUME checks' <= 1 PROVE (IndexInv /\ StartedInv /\ RoleInv)'
  BY DEF HandoverInv
<1>1. IndexInv /\ StartedInv /\ RoleInv
  BY DEF HandoverInv, _switch, SwitchWait, SwitchStore, SwitchReset
<1>2. /\ gpc # "idle" => nThreads > 0
      /\ nThreads \in Nat /\ threadIndex \in Nat
  BY ThreadsCounted
<1>3. CASE SwitchWait
  BY <1>1, <1>2, <1>3 DEF SwitchWait, IndexInv, StartedInv, RoleInv, Dispatched
<1>4. CASE SwitchStore
  BY <1>1, <1>2, <1>4 DEF SwitchStore, IndexInv, StartedInv, RoleInv,
       Dispatched
<1>5. CASE SwitchReset
  <2>1. nThreads + 1 \in Threads
    BY <1>5, MaxChecksTyped DEF TypeInv, TypeOK, Created, SwitchReset, Threads
  <2>2. StartedInv' /\ RoleInv'
    BY <1>1, <1>5, <2>1, HandoverStart DEF SwitchReset, StartedInv
  <2> QED BY <1>1, <1>2, <1>5, <2>2 DEF SwitchReset, IndexInv, start
<1> QED BY <1>3, <1>4, <1>5 DEF _switch

\* Cancel ends a thread, which then has no role.
LEMMA HandoverCancel ==
  ASSUME TypeInv, HandoverInv, Cancel
  PROVE  HandoverInv'
<1> SUFFICES ASSUME checks' <= 1 PROVE (IndexInv /\ StartedInv /\ RoleInv)'
  BY DEF HandoverInv
<1>1. IndexInv /\ StartedInv /\ RoleInv
  BY DEF HandoverInv, Cancel
<1>2. pc \in [Threads -> Points]
  BY DEF TypeInv, TypeOK
<1> QED BY <1>1, <1>2 DEF Cancel, IndexInv, StartedInv, RoleInv, Dispatched,
           Started

\* A thread's step leaves the roles and the index as they are, unless it is one
\* of the first two.
LEMMA HandoverFrame ==
  ASSUME HandoverInv, UNCHANGED <<guiVars, threadIndex, hEvent, th>>,
         \A u \in Threads :
           /\ pc'[u] \in Started => pc[u] \in Started
           /\ pc'[u] # pc[u] =>
                /\ pc'[u] # "reset"
                /\ pc[u] \notin {"off", "new", "killed"}
  PROVE  HandoverInv'
  BY DEF HandoverInv, IndexInv, StartedInv, RoleInv, Dispatched

\* Reading the index gives a thread the role of its place.
LEMMA HandoverRead ==
  ASSUME TypeInv, HandoverInv, NEW t \in Threads, ReadIndex(t)
  PROVE  HandoverInv'
<1> SUFFICES ASSUME checks' <= 1 PROVE (IndexInv /\ StartedInv /\ RoleInv)'
  BY DEF HandoverInv
<1>1. IndexInv /\ StartedInv /\ RoleInv
  BY DEF HandoverInv, ReadIndex
<1>2. pc \in [Threads -> Points] /\ th \in [Threads -> Nat]
  BY DEF TypeInv, TypeOK
<1>3. pc[t] = "new" /\ pc' = [pc EXCEPT ![t] = "signal"]
      /\ th' = [th EXCEPT ![t] = threadIndex]
  BY DEF ReadIndex
<1>4. t = nThreads /\ threadIndex = nThreads - 1
  BY <1>1, <1>3 DEF IndexInv, StartedInv, Started, Threads
<1>5. RoleInv'
  BY <1>1, <1>2, <1>3, <1>4 DEF RoleInv, Dispatched
<1> QED BY <1>1, <1>2, <1>3, <1>5 DEF IndexInv, StartedInv, Started, ReadIndex

\* SetEvent: nobody is short of his any more.
LEMMA HandoverSignal ==
  ASSUME TypeInv, HandoverInv, NEW t \in Threads, Signal(t)
  PROVE  HandoverInv'
<1> SUFFICES ASSUME checks' <= 1 PROVE (IndexInv /\ StartedInv /\ RoleInv)'
  BY DEF HandoverInv
<1>1. IndexInv /\ StartedInv /\ RoleInv
  BY DEF HandoverInv, Signal
<1>2. pc \in [Threads -> Points]
  BY DEF TypeInv, TypeOK
<1>3. pc[t] = "signal" /\ th' = th /\ threadIndex' = threadIndex /\ gpc' = gpc
      /\ nThreads' = nThreads /\ gload' = gload
      /\ pc' = [pc EXCEPT ![t] = CASE th[t] = 0      -> "fill"
                                   [] th[t] \in 1..2 -> "enter"
                                   [] OTHER          -> "reset"]
  BY DEF Signal
<1>4. t = nThreads
  BY <1>1, <1>3 DEF StartedInv, Started
<1>5. \A u \in Threads : pc'[u] \notin Started
  BY <1>1, <1>2, <1>3, <1>4 DEF StartedInv, Started
<1>6. IndexInv'
  BY <1>1, <1>3, <1>4 DEF IndexInv, Threads
<1>7. th[t] = t - 1 /\ t \in 1..3
  <2>1. th[t] = t - 1
    BY <1>1, <1>3 DEF RoleInv, Dispatched
  <2>2. checks <= 1 /\ t \in Nat /\ t > 0
    BY MaxChecksTyped DEF Signal, Threads
  <2>3. t <= 3
    BY <1>4, <2>2, ThreadsCounted
  <2> QED BY <2>1, <2>2, <2>3
<1>8. RoleInv'
  BY <1>1, <1>2, <1>3, <1>7 DEF RoleInv, Dispatched
<1> QED BY <1>5, <1>6, <1>8 DEF StartedInv

\* Every step of a thread.  There is no role out of range, so nobody resets the
\* index.
LEMMA HandoverRun ==
  ASSUME TypeInv, HandoverInv, NEW t \in Threads, run(t)
  PROVE  HandoverInv'
<1> pc \in [Threads -> Points]
  BY DEF TypeInv, TypeOK
<1> USE HandoverFrame DEF Started
<1>1. CASE RunAny(t)
  <2>1. CASE ReadIndex(t)
    BY <2>1, HandoverRead
  <2>2. CASE Signal(t)
    BY <2>2, HandoverSignal
  <2>3. CASE ResetIndex(t)
    <3>1. pc[t] = "reset" /\ checks' = checks
      BY <2>3 DEF ResetIndex
    <3> QED BY <3>1 DEF HandoverInv, RoleInv
  <2>4. CASE EnterCs(t) \/ LeaveCs(t)
    BY <2>4 DEF EnterCs, LeaveCs
  <2> QED BY <1>1, <2>1, <2>2, <2>3, <2>4 DEF RunAny
<1>2. CASE RunFill(t)
  BY <1>2 DEF RunFill, FillFiles, FillRegs, PostInit, SetReady
<1>3. CASE RunSearch(t)
  BY <1>3 DEF RunSearch, Await, Resignal, SkipDrive, ChangeDir, SearchOver,
     FindHit, FindValid, FindMiss, BlockOver, FullPath
<1>4. CASE RunDetect(t)
  BY <1>4 DEF RunDetect, LockDects, AddFile, AddFilePush, AddFileNotify,
     AddName, UnlockDects, EnterHwnd, AddFileAdvance
<1>5. CASE RunRegistry(t)
  BY <1>5 DEF RunRegistry, OpenKey, KeysOver, QueryPresent, QueryAbsent,
     QueryBeyond, ValuesOver, AddReg
<1>6. CASE RunCount(t)
  BY <1>6 DEF RunCount, CountWait, CountBump, CountTake, Report
<1> QED BY <1>1, <1>2, <1>3, <1>4, <1>5, <1>6 DEF run

\* Every step of the program.
LEMMA HandoverNext ==
  ASSUME TypeInv, HandoverInv, [Next]_vars
  PROVE  HandoverInv'
<1>1. CASE UNCHANGED vars
  BY <1>1, HandoverFrame
<1> QED BY <1>1, HandoverCheck, HandoverSwitch, HandoverCancel, HandoverRun
        DEF Next

\* No thread has been started at first.
LEMMA HandoverInit == Init => HandoverInv
  BY DEF Init, HandoverInv, IndexInv, StartedInv, RoleInv, Dispatched, Started

\* RolesDistinct, for all constants: three threads have the three roles, also
\* when the last of them is cancelled.
THEOREM OneRoleEach == Spec => []RolesDistinct
<1>1. TypeInv /\ HandoverInv => RolesDistinct
  <2> SUFFICES ASSUME TypeInv, HandoverInv, checks <= 1,
                      NEW t \in Threads, NEW u \in Threads,
                      Dispatched(t), Dispatched(u), t # u
               PROVE  th[t] # th[u] /\ th[t] \in 0..2
    BY DEF RolesDistinct
  <2>1. th[t] = t - 1 /\ th[u] = u - 1
    BY DEF HandoverInv, RoleInv
  <2>2. t \in 1..3
    BY DEF TypeInv, TypeOK, Created, Dispatched, Threads
  <2> QED BY <2>1, <2>2 DEF Threads
<1>2. TypeInv /\ HandoverInv /\ [Next]_vars => HandoverInv'
  BY HandoverNext
<1> QED BY <1>1, <1>2, HandoverInit, TypeInvariant, PTL DEF Spec

-----------------------------------------------------------------------------
(* The data.  The first to get hDataReady gets it from a thread that has     *)
(* filled them in and said so.                                               *)

\* Behind the wait for the data, or behind their announcement.
Informed ==
  Points \ {"off", "new", "signal", "reset", "fill", "enter", "incs", "init",
            "await", "done", "killed"}

ReadyInv ==
  /\ NothingBeforeInit
  /\ hDataReady => InitFirst
  /\ \A t \in Threads : pc[t] \in Informed => InitFirst

\* The queue is only written at its end.
LEMMA PostedGrows ==
  ASSUME TypeInv, [Next]_vars
  PROVE  posted' = posted \/ \E m \in Messages : posted' = Append(posted, m)
<1>1. CASE UNCHANGED vars
  BY <1>1
<1>2. CASE Check \/ _switch
  BY <1>2 DEF Check, _switch, SwitchWait, SwitchStore, SwitchReset
<1>3. CASE Cancel
  BY <1>3 DEF Cancel, Post, Messages
<1>4. ASSUME NEW t \in Threads, run(t)
      PROVE  posted' = posted \/ \E m \in Messages : posted' = Append(posted, m)
  <2>1. CASE RunAny(t)
    BY <2>1 DEF RunAny, ReadIndex, Signal, ResetIndex, EnterCs, LeaveCs
  <2>2. CASE RunFill(t)
    <3>1. CASE PostInit(t)
      BY <3>1, TotalWorkTyped DEF PostInit, Post, Messages
    <3> QED BY <2>2, <3>1 DEF RunFill, FillFiles, FillRegs, SetReady
  <2>3. CASE RunSearch(t)
    BY <2>3 DEF RunSearch, Await, Resignal, SkipDrive, ChangeDir, SearchOver,
       FindHit, FindValid, FindMiss, BlockOver, FullPath
  <2>4. CASE RunDetect(t)
    <3>1. path_iter \in Nat
      BY DEF TypeInv, TypeOK, DectTypeOK
    <3>2. CASE AddFileNotify(t)
      BY <3>1, <3>2 DEF AddFileNotify, Post, Messages
    <3> QED BY <2>4, <3>2 DEF RunDetect, LockDects, AddFile, AddFilePush,
               AddName, UnlockDects, EnterHwnd, AddFileAdvance
  <2>5. CASE RunRegistry(t)
    BY <2>5 DEF RunRegistry, OpenKey, KeysOver, QueryPresent, QueryAbsent,
       QueryBeyond, ValuesOver, AddReg
  <2>6. CASE RunCount(t)
    BY <2>6 DEF RunCount, CountWait, CountBump, CountTake, Report, Post,
       Messages
  <2> QED BY <1>4, <2>1, <2>2, <2>3, <2>4, <2>5, <2>6 DEF run
<1> QED BY <1>1, <1>2, <1>3, <1>4 DEF Next

\* What has been first stays first.
LEMMA FirstStays ==
  ASSUME TypeInv, [Next]_vars, InitFirst
  PROVE  InitFirst'
<1>1. CASE posted' = posted
  BY <1>1 DEF InitFirst
<1>2. ASSUME NEW m \in Messages, posted' = Append(posted, m)
      PROVE  InitFirst'
  <2>1. posted \in Seq(Messages)
    BY DEF TypeInv, TypeOK
  <2>2. /\ Len(posted) \in Nat /\ Len(posted') = Len(posted) + 1
        /\ \A i \in 1..Len(posted) : posted'[i] = posted[i]
    BY <1>2, <2>1, AppendProperties, LenProperties
  <2>3. PICK i \in 1..Len(posted) :
          /\ posted[i].msg = "INIT_READY"
          /\ \A j \in 1..i - 1 : posted[j].msg = "ABORTED"
    BY DEF InitFirst
  <2>4. /\ i \in 1..Len(posted') /\ posted'[i] = posted[i]
        /\ \A j \in 1..i - 1 : posted'[j] = posted[j]
    BY <2>2
  <2> QED BY <2>3, <2>4 DEF InitFirst
<1> QED BY <1>1, <1>2, PostedGrows

\* Before that, a step that brings no thread past the wait changes nothing of
\* what a check produces.
LEMMA ReadyFrame ==
  ASSUME ReadyInv, ~InitFirst, UNCHANGED <<hDataReady, msgVars, dectVars>>,
         \A u \in Threads : pc'[u] \in Informed => pc[u] \in Informed
  PROVE  ReadyInv'
  BY DEF ReadyInv, NothingBeforeInit, InitFirst

\* A Cancel writes the one message that may come before.
LEMMA ReadyCancel ==
  ASSUME TypeInv, ReadyInv, ~InitFirst, Cancel
  PROVE  ReadyInv'
<1>1. posted \in Seq(Messages) /\ pc \in [Threads -> Points]
  BY DEF TypeInv, TypeOK
<1>2. posted' = Append(posted, [msg |-> "ABORTED", val |-> 0])
  BY DEF Cancel, Post
<1>3. /\ Len(posted) \in Nat /\ Len(posted') = Len(posted) + 1
      /\ \A i \in 1..Len(posted) : posted'[i] = posted[i]
      /\ posted'[Len(posted) + 1] = [msg |-> "ABORTED", val |-> 0]
  BY <1>1, <1>2, AppendProperties, LenProperties
<1>4. /\ ~(increments > 0) /\ Filepaths = <<>> /\ regS = <<>> /\ ~hDataReady
      /\ \A i \in 1..Len(posted) : posted[i].msg = "ABORTED"
      /\ \A u \in Threads : pc[u] \notin Informed
  BY DEF ReadyInv, NothingBeforeInit
<1>5. \A i \in 1..Len(posted') : posted'[i].msg = "ABORTED"
  BY <1>3, <1>4
<1>6. \A u \in Threads : pc'[u] \notin Informed
  BY <1>1, <1>4 DEF Cancel, Informed
<1> QED BY <1>4, <1>5, <1>6 DEF ReadyInv, NothingBeforeInit, Cancel

\* WM_ENGINE_INIT_READY is the first message that is not a Cancel's.
LEMMA ReadyPost ==
  ASSUME TypeInv, ReadyInv, ~InitFirst, NEW t \in Threads, PostInit(t)
  PROVE  InitFirst'
<1>1. posted \in Seq(Messages)
  BY DEF TypeInv, TypeOK
<1>2. posted' = Append(posted, [msg |-> "INIT_READY", val |-> TotalWork(t)])
  BY DEF PostInit, Post
<1>3. /\ Len(posted) \in Nat /\ Len(posted') = Len(posted) + 1
      /\ \A i \in 1..Len(posted) : posted'[i] = posted[i]
      /\ posted'[Len(posted) + 1].msg = "INIT_READY"
  BY <1>1, <1>2, AppendProperties, LenProperties
<1>4. \A i \in 1..Len(posted) : posted[i].msg = "ABORTED"
  BY DEF ReadyInv, NothingBeforeInit
<1>5. /\ Len(posted) + 1 \in 1..Len(posted')
      /\ \A j \in 1..(Len(posted) + 1) - 1 : posted'[j].msg = "ABORTED"
  BY <1>3, <1>4
<1> QED BY <1>3, <1>5 DEF InitFirst

\* Before the message, a thread's step is one of the set-up, or the message.
LEMMA ReadyRun ==
  ASSUME TypeInv, ReadyInv, ~InitFirst, NEW t \in Threads, run(t)
  PROVE  ReadyInv' \/ InitFirst'
<1> pc \in [Threads -> Points]
  BY DEF TypeInv, TypeOK
<1>1. pc[t] \notin Informed /\ ~hDataReady
  BY DEF ReadyInv
<1> USE <1>1 DEF Informed
<1>2. CASE RunAny(t)
  BY <1>2, ReadyFrame DEF RunAny, ReadIndex, Signal, ResetIndex, EnterCs,
     LeaveCs
<1>3. CASE RunFill(t)
  BY <1>3, ReadyFrame, ReadyPost DEF RunFill, FillFiles, FillRegs, SetReady
<1>4. CASE RunSearch(t)
  BY <1>4 DEF RunSearch, Await, TakeDataReady, Resignal, SkipDrive, ChangeDir,
     SearchOver, FindHit, FindValid, FindMiss, BlockOver, FullPath
<1>5. CASE RunDetect(t)
  BY <1>5 DEF RunDetect, LockDects, AddFile, AddFilePush, AddFileNotify,
     AddName, UnlockDects, EnterHwnd, AddFileAdvance
<1>6. CASE RunRegistry(t)
  BY <1>6 DEF RunRegistry, OpenKey, KeysOver, QueryPresent, QueryAbsent,
     QueryBeyond, ValuesOver, AddReg
<1>7. CASE RunCount(t)
  BY <1>7 DEF RunCount, CountWait, CountBump, CountTake, Report
<1> QED BY <1>2, <1>3, <1>4, <1>5, <1>6, <1>7 DEF run

\* Every step of the program.
LEMMA ReadyNext ==
  ASSUME TypeInv, ReadyInv, [Next]_vars
  PROVE  ReadyInv'
<1> pc \in [Threads -> Points]
  BY DEF TypeInv, TypeOK
<1>1. InitFirst' => ReadyInv'
  BY DEF ReadyInv, NothingBeforeInit
<1>2. CASE InitFirst
  BY <1>1, <1>2, FirstStays
<1>3. CASE ~InitFirst
  <2>1. CASE UNCHANGED vars
    BY <1>3, <2>1, ReadyFrame
  <2>2. CASE Check \/ _switch
    BY <1>3, <2>2, ReadyFrame DEF Check, _switch, SwitchWait, SwitchStore,
       SwitchReset, start, Informed
  <2> QED BY <1>1, <1>3, <2>1, <2>2, ReadyCancel, ReadyRun DEF Next
<1> QED BY <1>2, <1>3

\* Nothing has been done at first.
LEMMA ReadyInit == Init => ReadyInv
  BY DEF Init, DectInit, ReadyInv, NothingBeforeInit, Informed

\* NothingBeforeInit, for any number of checks and cancels: the wait for the
\* data holds back every thread that could count, detect or end.
THEOREM InitComesFirst == Spec => []NothingBeforeInit
<1>1. TypeInv /\ ReadyInv /\ [Next]_vars => ReadyInv'
  BY ReadyNext
<1>2. ReadyInv => NothingBeforeInit
  BY DEF ReadyInv
<1> QED BY <1>1, <1>2, ReadyInit, TypeInvariant, PTL DEF Spec
=============================================================================
