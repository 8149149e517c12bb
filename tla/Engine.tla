-------------------------------- MODULE Engine --------------------------------
(***************************************************************************)
(* A check of the machine: class cEngine, the commands "Check" and         *)
(* "Cancel" of the window procedure, and the cThread object they use.      *)
(*                                                                         *)
(* One cEngine object starts three threads on the same run().  A thread    *)
(* learns its role from the shared threadIndex: 0 searches the common      *)
(* folders, 1 the other drives, 2 the registry.  The window's thread hands *)
(* the index out by start, _switch, start, _switch, start.  The threads    *)
(* share the event hDataReady, the mutexes hMdect and hTDone, the critical *)
(* section cs, the list `dects` and, like all threads of a process, the    *)
(* current directory.                                                      *)
(***************************************************************************)
EXTENDS Detections, Drives, SequencesExt

CONSTANTS
  Folders,     \* the common folders, in the order of getCommonDirList
  Tables,      \* Tables[i]: the names that are legitimate in Folders[i]
  Defs,        \* for each definition the names of its files
  RegDefs,     \* the registry keys fillRegs extracts from the definitions
  Disk,        \* the paths present on the machine
  Reachable,   \* the directories SetCurrentDirectory can enter
  StartDir,    \* the current directory when the program starts
  OpenKeys,    \* the <<handle, path>> of the registry keys that can be opened
  KeyValues,   \* the <<handle, path, value>> present in the registry
  MaxChecks,   \* bound: how many times the user asks for a check
  MaxCancels   \* bound: how many times the user cancels

ASSUME EngineAssumption ==
  /\ Drives \in Seq(Dirs)
  /\ Folders \in Seq(Dirs)
  /\ Tables \in Seq(SUBSET Files)
  /\ Defs \in Seq(Seq(Files))
  /\ RegDefs \in Seq(RegKeys)
  /\ Disk \in SUBSET Paths
  /\ Reachable \in SUBSET Dirs
  /\ StartDir \in Dirs
  /\ MaxChecks \in Nat \ {0}
  /\ MaxCancels \in Nat

Threads == 1..3 * MaxChecks
NoThread == 0
NoPath == <<>>   \* fBuf before GetFullPathName fills it

VARIABLES
  gpc, gleft, gload,          \* the window's thread inside IDM_CHECK
  checks, cancels,            \* commands given so far
  nThreads,                   \* threads created; the last is mhThread
  threadIndex, threadDone,    \* fields of cEngine
  hEvent, hDataReady,         \* auto-reset events
  hMdect, hTDone, cs,         \* owner of each mutex and critical section
  cwd,                        \* current directory of the process
  files, regVector,           \* fields of cEngine
  posted, increments,         \* messages sent to the window
  pc, th,                     \* of each thread: its point in run(), its role
  outer, inner, bound,        \* of each thread: its loop counters
  found, locth, someExist     \* of each thread: locals of run()

guiVars == <<gpc, gleft, gload, checks, cancels, nThreads>>
indexVars == <<threadIndex, threadDone>>
eventVars == <<hEvent, hDataReady>>
lockVars == <<hMdect, hTDone, cs>>
syncVars == <<indexVars, eventVars, lockVars>>
dataVars == <<files, regVector>>
msgVars == <<posted, increments>>
loopVars == <<outer, inner, bound>>
valueVars == <<found, locth, someExist>>
vars == <<guiVars, syncVars, cwd, dataVars, msgVars, pc, th, loopVars,
          valueVars, dectVars>>

Points ==
  {"off", "new", "signal", "reset", "fill", "enter", "incs", "init", "ready",
   "await", "resignal", "chdir", "find", "fullpath", "lock", "addfile",
   "filecs", "push", "notify", "advance", "addname", "namecs", "unlock", "open",
   "query", "addreg", "count", "bump", "take", "report", "done", "killed"}

Messages ==
  [msg : {"INIT_READY"}, val : Nat] \cup [msg : {"DETECTION"}, val : Nat]
    \cup {[msg |-> "DONE", val |-> 0], [msg |-> "ABORTED", val |-> 0]}

TypeOK ==
  /\ gpc \in {"idle", "wait", "store", "reset"}
  /\ gleft \in 0..2
  /\ gload \in Nat
  /\ checks \in 0..MaxChecks
  /\ cancels \in 0..MaxCancels
  /\ nThreads \in 0..3 * MaxChecks
  /\ threadIndex \in Nat
  /\ threadDone \in Nat
  /\ hEvent \in BOOLEAN
  /\ hDataReady \in BOOLEAN
  /\ hMdect \in Threads \cup {NoThread}
  /\ hTDone \in Threads \cup {NoThread}
  /\ cs \in Threads \cup {NoThread}
  /\ cwd \in Dirs
  /\ files \in Seq(Files)
  /\ regVector \in Seq(RegKeys)
  /\ posted \in Seq(Messages)
  /\ increments \in Nat
  /\ pc \in [Threads -> Points]
  /\ th \in [Threads -> Nat]
  /\ outer \in [Threads -> Nat]
  /\ inner \in [Threads -> Nat]
  /\ bound \in [Threads -> Nat]
  /\ locth \in [Threads -> Nat]
  /\ found \in [Threads -> Paths \cup {NoPath}]
  /\ someExist \in [Threads -> BOOLEAN]
  /\ DectTypeOK

Init ==
  /\ gpc = "idle" /\ gleft = 0 /\ gload = 0
  /\ checks = 0 /\ cancels = 0 /\ nThreads = 0
  /\ threadIndex = 0 /\ threadDone = 0
  /\ hEvent = FALSE /\ hDataReady = FALSE
  /\ hMdect = NoThread /\ hTDone = NoThread /\ cs = NoThread
  /\ cwd = StartDir
  /\ files = <<>> /\ regVector = <<>>
  /\ posted = <<>> /\ increments = 0
  /\ pc = [t \in Threads |-> "off"]
  /\ th = [t \in Threads |-> 0]
  /\ outer = [t \in Threads |-> 0]
  /\ inner = [t \in Threads |-> 0]
  /\ bound = [t \in Threads |-> 0]
  /\ found = [t \in Threads |-> NoPath]
  /\ locth = [t \in Threads |-> 0]
  /\ someExist = [t \in Threads |-> FALSE]
  /\ DectInit

-------------------------------------------------------------------------------
(* Helpers. *)

Goto(t, q) == pc' = [pc EXCEPT ![t] = q]

Step(t, p, q) == pc[t] = p /\ Goto(t, q)

Post(m, v) == posted' = Append(posted, [msg |-> m, val |-> v])

Increment == increments' = increments + 1

\* Posted messages of one kind.
Sent(m) == \E i \in 1..Len(posted) : posted[i].msg = m

\* A free mutex or critical section goes to one waiter.
Acquire(m, t) == m = NoThread /\ m' = t

\* The wait for hMdect before addFile.  An operator named ...Not is a slip of
\* the one after it, here a mutex that excludes nobody; no specification uses
\* it.
WaitDectsNot(t) == hMdect' = t
WaitDects(t) == Acquire(hMdect, t)

\* An auto-reset event lets one waiter through.
TakeDataReadyNot == UNCHANGED hDataReady
TakeDataReady == hDataReady /\ hDataReady' = FALSE

ResignalDataReadyNot == UNCHANGED hDataReady
ResignalDataReady == hDataReady' = TRUE

\* start() keeps the handle of the thread created last.
mhThreadNot == 1
mhThread == nThreads

\* A mutex whose owner is terminated is abandoned.
Abandon(m) == IF m = mhThread THEN NoThread ELSE m

\* The condition for WM_ENGINE_DONE.
AllDoneNot(t) == locth[t] >= 2
AllDone(t) == locth[t] >= 3

\* The blocks of files a thread searches: the folders for thread 0; for
\* thread 1 every drive for every definition, numbered i * nd + j.
Blocks(t) == IF th[t] = 0 THEN Len(Folders) ELSE Len(Defs) * nd

\* Thread 0 searches all nfl files in every folder, thread 1 the files of one
\* definition.
BlockFiles(t) ==
  IF th[t] = 0 THEN SubSeq(files, 1, bound[t]) ELSE Defs[(outer[t] \div nd) + 1]

BlockDir(t) ==
  IF th[t] = 0 THEN Folders[outer[t] + 1] ELSE Drives[(outer[t] % nd) + 1]

File(t) == BlockFiles(t)[inner[t] + 1]

\* FindFirstFile looks in the directory that is current, ...
FindFirstFileNot(t) == TRUE
FindFirstFile(t) == <<cwd, File(t)>> \in Disk

\* ... and GetFullPathName puts the one that is current before the name.
GetFullPathNameNot(t) == File(t)
GetFullPathName(t) == <<cwd, File(t)>>

\* The answers isValid can give for the i-th folder: toLower returns nothing,
\* so the comparison with a non-empty table may come out either way.
isValid(i) ==
  IF i < Len(Tables) /\ Tables[i + 1] # {} THEN BOOLEAN ELSE {FALSE}

KeyOpens(k) == k.handle \in 0..4 /\ <<k.handle, k.keyPath>> \in OpenKeys

ValuePresent(k, v) == <<k.handle, k.keyPath, v>> \in KeyValues

\* "not so sure" in the code; regWork is 0, every insertRegObj counts 0.
TotalWork(t) == Len(Folders) * bound[t] + Len(Defs) * bound[t] * nd

-------------------------------------------------------------------------------
(* The window's thread.  start() creates a thread and keeps its handle. *)

start ==
  /\ nThreads' = nThreads + 1
  /\ Goto(nThreads + 1, "new")

\* IDM_CHECK up to the first _switch.  Nothing disables the menu's command.
Check ==
  /\ gpc = "idle"
  /\ checks < MaxChecks
  /\ checks' = checks + 1
  /\ start
  /\ gleft' = 2
  /\ gpc' = "wait"
  /\ UNCHANGED <<gload, cancels, syncVars, cwd, dataVars, msgVars, th,
                 loopVars, valueVars, dectVars>>

\* _switch: the wait for hEvent, and threadIndex++ read ...
SwitchWait ==
  /\ gpc = "wait"
  /\ hEvent
  /\ hEvent' = FALSE
  /\ gload' = threadIndex
  /\ gpc' = "store"
  /\ UNCHANGED <<gleft, checks, cancels, nThreads, indexVars, hDataReady,
                 lockVars, cwd, dataVars, msgVars, pc, th, loopVars,
                 valueVars, dectVars>>

\* Slip: threadIndex is not advanced.
SwitchStoreNot ==
  /\ gpc = "store"
  /\ threadIndex' = gload
  /\ gpc' = "reset"
  /\ UNCHANGED <<gleft, gload, checks, cancels, nThreads, threadDone,
                 eventVars, lockVars, cwd, dataVars, msgVars, pc, th,
                 loopVars, valueVars, dectVars>>

\* ... and written back ...
SwitchStore ==
  /\ gpc = "store"
  /\ threadIndex' = gload + 1
  /\ gpc' = "reset"
  /\ UNCHANGED <<gleft, gload, checks, cancels, nThreads, threadDone,
                 eventVars, lockVars, cwd, dataVars, msgVars, pc, th,
                 loopVars, valueVars, dectVars>>

\* ... then ResetEvent, and the start() that follows the _switch.
SwitchReset ==
  /\ gpc = "reset"
  /\ hEvent' = FALSE
  /\ start
  /\ gleft' = gleft - 1
  /\ gpc' = IF gleft = 1 THEN "idle" ELSE "wait"
  /\ UNCHANGED <<gload, checks, cancels, indexVars, hDataReady, lockVars, cwd,
                 dataVars, msgVars, th, loopVars, valueVars, dectVars>>

\* IDM_CANCEL: TerminateThread on mhThread.  Its mutexes become abandoned, which
\* frees them; a critical section it is in stays owned.
Cancel ==
  /\ gpc = "idle"
  /\ cancels < MaxCancels
  /\ nThreads > 0
  /\ cancels' = cancels + 1
  /\ Goto(mhThread, IF pc[mhThread] = "done" THEN "done" ELSE "killed")
  /\ hMdect' = Abandon(hMdect)
  /\ hTDone' = Abandon(hTDone)
  /\ Post("ABORTED", 0)
  /\ UNCHANGED <<gpc, gleft, gload, checks, nThreads, indexVars, eventVars, cs,
                 cwd, dataVars, increments, th, loopVars, valueVars,
                 dectVars>>

-------------------------------------------------------------------------------
(* run(), all roles: taking the index, and the counted end. *)

ReadIndex(t) ==
  /\ Step(t, "new", "signal")
  /\ th' = [th EXCEPT ![t] = threadIndex]
  /\ UNCHANGED <<guiVars, syncVars, cwd, dataVars, msgVars, loopVars,
                 valueVars, dectVars>>

\* Slip: SetEvent only in case 0.
SignalNot(t) ==
  /\ pc[t] = "signal"
  /\ hEvent' = (hEvent \/ th[t] = 0)
  /\ Goto(t, CASE th[t] = 0      -> "fill"
               [] th[t] \in 1..2 -> "enter"
               [] OTHER          -> "reset")
  /\ UNCHANGED <<guiVars, indexVars, hDataReady, lockVars, cwd, dataVars,
                 msgVars, th, loopVars, valueVars, dectVars>>

Signal(t) ==
  /\ pc[t] = "signal"
  /\ hEvent' = TRUE
  /\ Goto(t, CASE th[t] = 0      -> "fill"
               [] th[t] \in 1..2 -> "enter"
               [] OTHER          -> "reset")
  /\ UNCHANGED <<guiVars, indexVars, hDataReady, lockVars, cwd, dataVars,
                 msgVars, th, loopVars, valueVars, dectVars>>

\* default: "we are out of range reset the index"
ResetIndex(t) ==
  /\ Step(t, "reset", "done")
  /\ threadIndex' = 0
  /\ UNCHANGED <<guiVars, threadDone, eventVars, lockVars, cwd, dataVars,
                 msgVars, th, loopVars, valueVars, dectVars>>

EnterCs(t) ==
  /\ Step(t, "enter", "incs")
  /\ Acquire(cs, t)
  /\ UNCHANGED <<guiVars, indexVars, eventVars, hMdect, hTDone, cwd, dataVars,
                 msgVars, th, loopVars, valueVars, dectVars>>

LeaveCs(t) ==
  /\ Step(t, "incs", IF th[t] = 0 THEN "init" ELSE "await")
  /\ cs' = NoThread
  /\ UNCHANGED <<guiVars, indexVars, eventVars, hMdect, hTDone, cwd, dataVars,
                 msgVars, th, loopVars, valueVars, dectVars>>

CountWait(t) ==
  /\ Step(t, "count", "bump")
  /\ Acquire(hTDone, t)
  /\ UNCHANGED <<guiVars, indexVars, eventVars, hMdect, cs, cwd, dataVars,
                 msgVars, th, loopVars, valueVars, dectVars>>

CountBump(t) ==
  /\ Step(t, "bump", "take")
  /\ threadDone' = threadDone + 1
  /\ UNCHANGED <<guiVars, threadIndex, eventVars, lockVars, cwd, dataVars,
                 msgVars, th, loopVars, valueVars, dectVars>>

CountTake(t) ==
  /\ Step(t, "take", "report")
  /\ locth' = [locth EXCEPT ![t] = threadDone]
  /\ hTDone' = NoThread
  /\ UNCHANGED <<guiVars, indexVars, eventVars, hMdect, cs, cwd, dataVars,
                 msgVars, th, loopVars, found, someExist, dectVars>>

Report(t) ==
  /\ Step(t, "report", "done")
  /\ IF AllDone(t) THEN Post("DONE", 0) ELSE UNCHANGED posted
  /\ UNCHANGED <<guiVars, syncVars, cwd, dataVars, increments, th, loopVars,
                 valueVars, dectVars>>

-------------------------------------------------------------------------------
(* run(), roles 0 and 1: the data, and the search for files. *)

\* Slip: nFiles is the count of the last definition.
FillFilesNot(t) ==
  /\ pc[t] = "fill"
  /\ outer[t] < Len(Defs)
  /\ files' = files \o Defs[outer[t] + 1]
  /\ bound' = [bound EXCEPT ![t] = Len(Defs[outer[t] + 1])]
  /\ outer' = [outer EXCEPT ![t] = @ + 1]
  /\ UNCHANGED <<guiVars, syncVars, cwd, regVector, msgVars, pc, th, inner,
                 valueVars, dectVars>>

\* fillFiles appends the files of each definition; the count of this pass goes
\* to nFiles.
FillFiles(t) ==
  /\ pc[t] = "fill"
  /\ outer[t] < Len(Defs)
  /\ files' = files \o Defs[outer[t] + 1]
  /\ bound' = [bound EXCEPT ![t] = @ + Len(Defs[outer[t] + 1])]
  /\ outer' = [outer EXCEPT ![t] = @ + 1]
  /\ UNCHANGED <<guiVars, syncVars, cwd, regVector, msgVars, pc, th, inner,
                 valueVars, dectVars>>

\* fillRegs.  A second pass finds every key in regVector already.
FillRegs(t) ==
  /\ Step(t, "fill", "enter")
  /\ outer[t] = Len(Defs)
  /\ regVector' = IF regVector = <<>> THEN RegDefs ELSE regVector
  /\ outer' = [outer EXCEPT ![t] = 0]
  /\ UNCHANGED <<guiVars, syncVars, cwd, files, msgVars, th, inner, bound,
                 valueVars, dectVars>>

PostInit(t) ==
  /\ Step(t, "init", "ready")
  /\ Post("INIT_READY", TotalWork(t))
  /\ UNCHANGED <<guiVars, syncVars, cwd, dataVars, increments, th, loopVars,
                 valueVars, dectVars>>

SetReady(t) ==
  /\ Step(t, "ready", "chdir")
  /\ hDataReady' = TRUE
  /\ UNCHANGED <<guiVars, indexVars, hEvent, lockVars, cwd, dataVars, msgVars,
                 th, loopVars, valueVars, dectVars>>

\* Threads 1 and 2 wait for the data of thread 0; only thread 1 passes the
\* event on.
Await(t) ==
  /\ Step(t, "await", IF th[t] = 1 THEN "resignal" ELSE "open")
  /\ TakeDataReady
  /\ UNCHANGED <<guiVars, indexVars, hEvent, lockVars, cwd, dataVars, msgVars,
                 th, loopVars, valueVars, dectVars>>

Resignal(t) ==
  /\ Step(t, "resignal", "chdir")
  /\ ResignalDataReady
  /\ UNCHANGED <<guiVars, indexVars, hEvent, lockVars, cwd, dataVars, msgVars,
                 th, loopVars, valueVars, dectVars>>

\* The root drive and the drives that fail the type test are passed over.
SkipDrive(t) ==
  /\ pc[t] = "chdir"
  /\ th[t] = 1
  /\ outer[t] < Blocks(t)
  /\ ~DriveSearched(outer[t] % nd)
  /\ outer' = [outer EXCEPT ![t] = @ + 1]
  /\ UNCHANGED <<guiVars, syncVars, cwd, dataVars, msgVars, pc, th, inner,
                 bound, valueVars, dectVars>>

\* SetCurrentDirectory; the result is not looked at.
ChangeDir(t) ==
  /\ Step(t, "chdir", "find")
  /\ outer[t] < Blocks(t)
  /\ th[t] = 1 => DriveSearched(outer[t] % nd)
  /\ cwd' = IF BlockDir(t) \in Reachable THEN BlockDir(t) ELSE cwd
  /\ inner' = [inner EXCEPT ![t] = 0]
  /\ UNCHANGED <<guiVars, syncVars, dataVars, msgVars, th, outer, bound,
                 valueVars, dectVars>>

SearchOver(t) ==
  /\ Step(t, "chdir", "count")
  /\ outer[t] >= Blocks(t)
  /\ UNCHANGED <<guiVars, syncVars, cwd, dataVars, msgVars, th, loopVars,
                 valueVars, dectVars>>

FindHit(t) ==
  /\ Step(t, "find", "fullpath")
  /\ inner[t] < Len(BlockFiles(t))
  /\ FindFirstFile(t)
  /\ th[t] = 0 => FALSE \in isValid(outer[t])
  /\ UNCHANGED <<guiVars, syncVars, cwd, dataVars, msgVars, th, loopVars,
                 valueVars, dectVars>>

\* A legitimate file: continue, past the WM_INCREMENT_WD.
FindValid(t) ==
  /\ pc[t] = "find"
  /\ inner[t] < Len(BlockFiles(t))
  /\ FindFirstFile(t)
  /\ th[t] = 0
  /\ TRUE \in isValid(outer[t])
  /\ inner' = [inner EXCEPT ![t] = @ + 1]
  /\ UNCHANGED <<guiVars, syncVars, cwd, dataVars, msgVars, pc, th, outer,
                 bound, valueVars, dectVars>>

FindMiss(t) ==
  /\ pc[t] = "find"
  /\ inner[t] < Len(BlockFiles(t))
  /\ ~FindFirstFile(t)
  /\ inner' = [inner EXCEPT ![t] = @ + 1]
  /\ Increment
  /\ UNCHANGED <<guiVars, syncVars, cwd, dataVars, posted, pc, th, outer,
                 bound, valueVars, dectVars>>

BlockOver(t) ==
  /\ Step(t, "find", "chdir")
  /\ inner[t] >= Len(BlockFiles(t))
  /\ outer' = [outer EXCEPT ![t] = @ + 1]
  /\ UNCHANGED <<guiVars, syncVars, cwd, dataVars, msgVars, th, inner, bound,
                 valueVars, dectVars>>

\* The current directory may have changed since FindFirstFile.
FullPath(t) ==
  /\ Step(t, "fullpath", "lock")
  /\ found' = [found EXCEPT ![t] = GetFullPathName(t)]
  /\ UNCHANGED <<guiVars, syncVars, cwd, dataVars, msgVars, th, loopVars,
                 locth, someExist, dectVars>>

LockDects(t) ==
  /\ Step(t, "lock", "addfile")
  /\ WaitDects(t)
  /\ UNCHANGED <<guiVars, indexVars, eventVars, hTDone, cs, cwd, dataVars,
                 msgVars, th, loopVars, valueVars, dectVars>>

\* addFile and addName go through cs for the window's handle, inside hMdect.
EnterHwnd(t) ==
  /\ Step(t, "addfile", "filecs") \/ Step(t, "addname", "namecs")
  /\ Acquire(cs, t)
  /\ UNCHANGED <<guiVars, indexVars, eventVars, hMdect, hTDone, cwd, dataVars,
                 msgVars, th, loopVars, valueVars, dectVars>>

\* addFile: out of cs, then the test.
AddFile(t) ==
  /\ Step(t, "filecs", IF FileExist(found[t]) THEN "addname" ELSE "push")
  /\ cs' = NoThread
  /\ UNCHANGED <<guiVars, indexVars, eventVars, hMdect, hTDone, cwd, dataVars,
                 msgVars, th, loopVars, valueVars, dectVars>>

AddFilePush(t) ==
  /\ Step(t, "push", "notify")
  /\ PushFile(found[t])
  /\ UNCHANGED <<guiVars, syncVars, cwd, dataVars, msgVars, th, loopVars,
                 valueVars, names, regS, path_iter>>

\* Slip: the number after the path's.
AddFileNotifyNot(t) ==
  /\ Step(t, "notify", "advance")
  /\ Post("DETECTION", path_iter + 1)
  /\ UNCHANGED <<guiVars, syncVars, cwd, dataVars, increments, th, loopVars,
                 valueVars, dectVars>>

\* The message carries path_iter, ...
AddFileNotify(t) ==
  /\ Step(t, "notify", "advance")
  /\ Post("DETECTION", path_iter)
  /\ UNCHANGED <<guiVars, syncVars, cwd, dataVars, increments, th, loopVars,
                 valueVars, dectVars>>

\* ... which is advanced after it.
AddFileAdvance(t) ==
  /\ Step(t, "advance", "addname")
  /\ path_iter' = path_iter + 1
  /\ UNCHANGED <<guiVars, syncVars, cwd, dataVars, msgVars, th, loopVars,
                 valueVars, Filepaths, names, regS>>

\* addName: out of cs, then the test and the push_back.
AddName(t) ==
  /\ Step(t, "namecs", "unlock")
  /\ cs' = NoThread
  /\ addName(File(t))
  /\ UNCHANGED <<guiVars, indexVars, eventVars, hMdect, hTDone, cwd, dataVars,
                 msgVars, th, loopVars, valueVars, Filepaths, regS, path_iter>>

UnlockDects(t) ==
  /\ Step(t, "unlock", "find")
  /\ hMdect' = NoThread
  /\ inner' = [inner EXCEPT ![t] = @ + 1]
  /\ Increment
  /\ UNCHANGED <<guiVars, indexVars, eventVars, hTDone, cs, cwd, dataVars,
                 posted, th, outer, bound, valueVars, dectVars>>

-------------------------------------------------------------------------------
(* run(), role 2: the registry. *)

Key(t) == regVector[outer[t] + 1]

OpenKey(t) ==
  /\ outer[t] < Len(regVector)
  /\ Step(t, "open", IF KeyOpens(Key(t)) THEN "query" ELSE "addreg")
  /\ inner' = [inner EXCEPT ![t] = 0]
  /\ bound' = [bound EXCEPT ![t] = Len(Key(t).values)]
  /\ UNCHANGED <<guiVars, syncVars, cwd, dataVars, msgVars, th, outer,
                 valueVars, dectVars>>

KeysOver(t) ==
  /\ Step(t, "open", "count")
  /\ outer[t] >= Len(regVector)
  /\ UNCHANGED <<guiVars, syncVars, cwd, dataVars, msgVars, th, loopVars,
                 valueVars, dectVars>>

SomeExists(t) == someExist' = [someExist EXCEPT ![t] = TRUE]

\* The next value of the key, present.
QueryPresent(t) ==
  /\ pc[t] = "query"
  /\ inner[t] < bound[t]
  /\ inner[t] < Len(Key(t).values)
  /\ ValuePresent(Key(t), Key(t).values[inner[t] + 1])
  /\ SomeExists(t)
  /\ inner' = [inner EXCEPT ![t] = @ + 1]
  /\ Increment
  /\ UNCHANGED <<guiVars, syncVars, cwd, dataVars, posted, pc, th, outer,
                 bound, found, locth, dectVars>>

\* Slip: the iterator is one place back.
QueryAbsentNot(t) ==
  /\ pc[t] = "query"
  /\ inner[t] < bound[t]
  /\ inner[t] < Len(Key(t).values)
  /\ ~ValuePresent(Key(t), Key(t).values[inner[t] + 1])
  /\ regVector' = [regVector EXCEPT ![outer[t] + 1].values =
                     RemoveAt(@, inner[t])]
  /\ inner' = [inner EXCEPT ![t] = @ + 1]
  /\ Increment
  /\ UNCHANGED <<guiVars, syncVars, cwd, files, posted, pc, th, outer, bound,
                 valueVars, dectVars>>

\* The next value of the key, absent: "pop it out".  The loop goes on at the
\* next index, up to the size the list had before.
QueryAbsent(t) ==
  /\ pc[t] = "query"
  /\ inner[t] < bound[t]
  /\ inner[t] < Len(Key(t).values)
  /\ ~ValuePresent(Key(t), Key(t).values[inner[t] + 1])
  /\ regVector' = [regVector EXCEPT ![outer[t] + 1].values =
                     RemoveAt(@, inner[t] + 1)]
  /\ inner' = [inner EXCEPT ![t] = @ + 1]
  /\ Increment
  /\ UNCHANGED <<guiVars, syncVars, cwd, files, posted, pc, th, outer, bound,
                 valueVars, dectVars>>

\* Past the end of the shortened list the name read is arbitrary.  The registry
\* has it, or it does not and the erase takes the last value off the list.
QueryBeyond(t) ==
  /\ pc[t] = "query"
  /\ inner[t] < bound[t]
  /\ inner[t] >= Len(Key(t).values)
  /\ \/ /\ SomeExists(t)
        /\ UNCHANGED regVector
     \/ /\ Key(t).values # <<>>
        /\ regVector' = [regVector EXCEPT ![outer[t] + 1].values =
                           SubSeq(@, 1, Len(@) - 1)]
        /\ UNCHANGED someExist
  /\ inner' = [inner EXCEPT ![t] = @ + 1]
  /\ Increment
  /\ UNCHANGED <<guiVars, syncVars, cwd, files, posted, pc, th, outer, bound,
                 found, locth, dectVars>>

ValuesOver(t) ==
  /\ Step(t, "query", "addreg")
  /\ inner[t] >= bound[t]
  /\ UNCHANGED <<guiVars, syncVars, cwd, dataVars, msgVars, th, loopVars,
                 valueVars, dectVars>>

\* someExist keeps what an earlier key made of it.
AddReg(t) ==
  /\ Step(t, "addreg", "open")
  /\ IF someExist[t] THEN addReg(Key(t)) ELSE UNCHANGED regS
  /\ outer' = [outer EXCEPT ![t] = @ + 1]
  /\ UNCHANGED <<guiVars, syncVars, cwd, dataVars, msgVars, th, inner, bound,
                 valueVars, Filepaths, names, path_iter>>

-------------------------------------------------------------------------------
RunAny(t) == ReadIndex(t) \/ Signal(t) \/ ResetIndex(t) \/ EnterCs(t) \/ LeaveCs(t)

RunFill(t) == FillFiles(t) \/ FillRegs(t) \/ PostInit(t) \/ SetReady(t)

RunSearch(t) ==
  \/ Await(t) \/ Resignal(t) \/ SkipDrive(t) \/ ChangeDir(t) \/ SearchOver(t)
  \/ FindHit(t) \/ FindValid(t) \/ FindMiss(t) \/ BlockOver(t) \/ FullPath(t)

RunDetect(t) ==
  \/ LockDects(t) \/ EnterHwnd(t) \/ AddFile(t) \/ AddFilePush(t)
  \/ AddFileNotify(t) \/ AddFileAdvance(t) \/ AddName(t) \/ UnlockDects(t)

RunRegistry(t) ==
  \/ OpenKey(t) \/ KeysOver(t) \/ QueryPresent(t) \/ QueryAbsent(t)
  \/ QueryBeyond(t) \/ ValuesOver(t) \/ AddReg(t)

RunCount(t) == CountWait(t) \/ CountBump(t) \/ CountTake(t) \/ Report(t)

run(t) ==
  \/ RunAny(t) \/ RunFill(t) \/ RunSearch(t) \/ RunDetect(t) \/ RunRegistry(t)
  \/ RunCount(t)

_switch == SwitchWait \/ SwitchStore \/ SwitchReset

Next == Check \/ _switch \/ Cancel \/ \E t \in Threads : run(t)

\* The operating system schedules every thread; nobody has to use the menu.
Fairness == WF_vars(_switch) /\ \A t \in Threads : WF_vars(run(t))

Spec == Init /\ [][Next]_vars /\ Fairness
================================================================================
