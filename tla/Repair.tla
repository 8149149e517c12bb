-------------------------------- MODULE Repair --------------------------------
(***************************************************************************)
(* The removal of what a check found: class payLoads, the command "Repair" *)
(* of the window procedure and the handlers of its messages.               *)
(*                                                                         *)
(* A payLoads object, too, starts threads on one run() and hands the roles *)
(* out by its threadIndx: 0 creates a system restore point, 1 ends the     *)
(* processes and deletes the files of `dects`, 2 deletes the registry      *)
(* values.  The window's thread starts role 0 alone (YES), or calls        *)
(* _switch, start, _switch, start for roles 1 and 2 (NO, or YES when asked *)
(* to continue without a restore point).                                   *)
(***************************************************************************)
EXTENDS Detections

CONSTANTS
  FoundPaths, FoundNames, FoundKeys,  \* the list the check left
  Exes,             \* the names isExe accepts
  Running,          \* the names that processes run under
  Killable,         \* the names whose processes may be terminated
  Disk,             \* the paths on the machine
  Undeletable,      \* those DeleteFile refuses for good
  OpenKeys,         \* the <<handle, path>> that can be opened
  WritableKeys,     \* those whose values may be deleted
  KeyValues,        \* the <<handle, path, value>> present in the registry
  RestoreOutcomes,  \* the message numbers createSystemRestore may post
  ErrorInit,        \* what the uninitialised field `error` may hold
  Hindered,         \* may something get in the way of a repair: the dead array
                    \* NextFile returns is overwritten, free() of an array on
                    \* the stack ends the program, a process outlives the call
                    \* that terminates it
  MaxRepairs        \* bound: how many times the user asks for a repair

ASSUME RepairAssumption ==
  /\ FoundPaths \in Seq(Paths) /\ FoundNames \in Seq(Files)
  /\ FoundKeys \in Seq(RegKeys)
  /\ Exes \in SUBSET Files /\ Running \in SUBSET Files
  /\ Killable \in SUBSET Files
  /\ Disk \in SUBSET Paths /\ Undeletable \in SUBSET Paths
  /\ RestoreOutcomes \in SUBSET (0..5)
  /\ ErrorInit \in SUBSET BOOLEAN /\ Hindered \in SUBSET BOOLEAN
  /\ MaxRepairs \in Nat \ {0}

Threads == 1..3 * MaxRepairs
NoThread == 0
NoName == <<>>   \* tmp when the list of names is at its end
Junk == <<>>     \* what is left of a path in an overwritten array
NoKey == <<>>    \* key before the first RegOpenKey

VARIABLES
  rpc, rleft, repairs,     \* the window's thread in IDM_REPAIR
  nThreads,                \* threads created
  threadIndx, threadDone, workDone, error,   \* fields of payLoads
  hthidEvent,              \* auto-reset event
  gHdect, hThDone,         \* owner of each mutex
  posted, handled,         \* messages for the window, how many it has handled
  pc, th, indx,            \* of each thread: point in run(), role, count
  at, size, procs, value,  \* of each thread: i, nfile or sz, nproc, j
  tmp, tm, key,            \* of each thread: process, file and open key
  disk, processes, dying, registry,  \* the machine
  hindered                 \* the member of Hindered in this behaviour

guiVars == <<rpc, rleft, repairs, nThreads>>
fieldVars == <<threadIndx, threadDone, workDone, error>>
lockVars == <<gHdect, hThDone>>
msgVars == <<posted, handled>>
loopVars == <<at, size, procs, value>>
localVars == <<tmp, tm, key>>
osVars == <<disk, processes, dying, registry>>
fixedVars == <<dectVars, hindered>>   \* a repair only reads the list
vars == <<guiVars, fieldVars, hthidEvent, lockVars, msgVars, pc, th, indx,
          loopVars, localVars, osVars, fixedVars>>

Points ==
  {"off", "new", "signal", "restore", "files", "lock", "next", "kill", "delete",
   "keys", "open", "lockkey", "value", "count", "bump", "take", "report",
   "done"}

Messages ==
  [msg : {"SYSTEM", "PROC_KILLED", "FILE_DEL", "REGS_REMOVED", "PAYLOAD_DONE"},
   val : Nat, res : 0..5]

TypeOK ==
  /\ rpc \in {"idle", "set", "wait", "reset", "crashed"} /\ rleft \in 0..2
  /\ repairs \in 0..MaxRepairs /\ nThreads \in 0..3 * MaxRepairs
  /\ threadIndx \in Nat /\ threadDone \in Nat /\ workDone \in Nat
  /\ error \in BOOLEAN /\ hthidEvent \in BOOLEAN
  /\ gHdect \in Threads \cup {NoThread} /\ hThDone \in Threads \cup {NoThread}
  /\ posted \in Seq(Messages) /\ handled \in 0..Len(posted)
  /\ pc \in [Threads -> Points]
  /\ th \in [Threads -> Nat] /\ indx \in [Threads -> Nat]
  /\ at \in [Threads -> Nat] /\ size \in [Threads -> Nat]
  /\ procs \in [Threads -> Nat] /\ value \in [Threads -> Nat]
  /\ tmp \in [Threads -> Files \cup {NoName}]
  /\ tm \in [Threads -> Paths \cup {Junk}]
  /\ key \in [Threads -> OpenKeys \cup {NoKey}]
  /\ disk \in SUBSET Disk /\ registry \in SUBSET KeyValues
  /\ processes \in SUBSET Running /\ dying \in SUBSET Running
  /\ hindered \in Hindered
  /\ DectTypeOK

Init ==
  /\ rpc = "idle" /\ rleft = 0 /\ repairs = 0 /\ nThreads = 0
  /\ threadIndx = 0 /\ threadDone = 0 /\ workDone = 0 /\ error \in ErrorInit
  /\ hthidEvent = FALSE /\ gHdect = NoThread /\ hThDone = NoThread
  /\ posted = <<>> /\ handled = 0
  /\ pc = [t \in Threads |-> "off"]
  /\ th = [t \in Threads |-> 0] /\ indx = [t \in Threads |-> 0]
  /\ at = [t \in Threads |-> 0] /\ size = [t \in Threads |-> 0]
  /\ procs = [t \in Threads |-> 0] /\ value = [t \in Threads |-> 0]
  /\ tmp = [t \in Threads |-> NoName] /\ tm = [t \in Threads |-> Junk]
  /\ key = [t \in Threads |-> NoKey]
  /\ disk = Disk /\ registry = KeyValues
  /\ processes = Running /\ dying = {}
  /\ hindered \in Hindered
  /\ Filepaths = FoundPaths /\ names = FoundNames /\ regS = FoundKeys
  /\ path_iter = Len(FoundPaths)

-------------------------------------------------------------------------------
(* Helpers. *)

Goto(t, q) == pc' = [pc EXCEPT ![t] = q]

Step(t, p, q) == rpc # "crashed" /\ pc[t] = p /\ Goto(t, q)

Post(m, v, r) == posted' = Append(posted, [msg |-> m, val |-> v, res |-> r])

\* A free mutex goes to one waiter.
Acquire(m, t) == m = NoThread /\ m' = t

\* The wait for gHdect before the i-th file.  An operator named ...Not is a slip
\* of the one after it, here a mutex that excludes nobody; no specification
\* uses it.
WaitListNot(t) == gHdect' = t
WaitList(t) == Acquire(gHdect, t)

\* The condition for WM_PAYLOAD_DONE.
BothDoneNot(t) == indx[t] >= 1
BothDone(t) == indx[t] >= 2

\* What DeleteFile, killProcess and RegDeleteValue find.
isExe(f) == f \in Exes

InUse(p) == p[2] \in processes \cup dying

\* DeleteFile fails for a path that is not there or whose program runs.
CanDelete(p) == p \in disk /\ p \notin Undeletable /\ ~InUse(p)

\* 0: killed, 1: not killed, 2: no such process.  The processes of one name are
\* one: of several, isKilled tells how the last one fared.
killProcess(f) ==
  CASE f \in processes /\ f \in Killable -> 0
    [] f \in processes /\ f \notin Killable -> 1
    [] OTHER -> 2

\* Under HKEY_LOCAL_MACHINE (2) all access is asked for, elsewhere what there is.
KeyOpens(k) ==
  /\ k.handle \in 0..4 /\ <<k.handle, k.keyPath>> \in OpenKeys
  /\ k.handle = 2 => <<k.handle, k.keyPath>> \in WritableKeys

MayWrite(k) == <<k.handle, k.keyPath>> \in WritableKeys

Key(t) == regS[at[t] + 1]

-------------------------------------------------------------------------------
(* The window's thread. *)

start ==
  /\ nThreads' = nThreads + 1
  /\ Goto(nThreads + 1, "new")

\* IDM_REPAIR, YES: a restore point first.  The menu's command stays enabled.
RepairYes ==
  /\ rpc = "idle" /\ repairs < MaxRepairs
  /\ repairs' = repairs + 1
  /\ start
  /\ UNCHANGED <<rpc, rleft, fieldVars, hthidEvent, lockVars, msgVars, th,
                 indx, loopVars, localVars, osVars, fixedVars>>

\* IDM_REPAIR, NO: the two threads at once.
RepairNo ==
  /\ rpc = "idle" /\ repairs < MaxRepairs
  /\ repairs' = repairs + 1
  /\ rpc' = "set" /\ rleft' = 2
  /\ UNCHANGED <<nThreads, fieldVars, hthidEvent, lockVars, msgVars, pc, th,
                 indx, loopVars, localVars, osVars, fixedVars>>

\* _switch: "event wasn't set" ...
SwitchSetNot ==
  /\ rpc = "set"
  /\ rpc' = "wait"
  /\ UNCHANGED <<rleft, repairs, nThreads, fieldVars, hthidEvent, lockVars,
                 msgVars, pc, th, indx, loopVars, localVars, osVars, fixedVars>>

SwitchSet ==
  /\ rpc = "set"
  /\ hthidEvent' = (hthidEvent \/ threadIndx = 0)
  /\ rpc' = "wait"
  /\ UNCHANGED <<rleft, repairs, nThreads, fieldVars, lockVars, msgVars, pc,
                 th, indx, loopVars, localVars, osVars, fixedVars>>

\* ... the wait and threadIndx++, which no thread writes ...
SwitchWait ==
  /\ rpc = "wait"
  /\ hthidEvent
  /\ hthidEvent' = FALSE
  /\ threadIndx' = threadIndx + 1
  /\ rpc' = "reset"
  /\ UNCHANGED <<rleft, repairs, nThreads, threadDone, workDone, error,
                 lockVars, msgVars, pc, th, indx, loopVars, localVars, osVars,
                 fixedVars>>

\* ... ResetEvent, and the start() after the _switch.
SwitchReset ==
  /\ rpc = "reset"
  /\ hthidEvent' = FALSE
  /\ start
  /\ rleft' = rleft - 1
  /\ rpc' = IF rleft = 1 THEN "idle" ELSE "set"
  /\ UNCHANGED <<repairs, fieldVars, lockVars, msgVars, th, indx, loopVars,
                 localVars, osVars, fixedVars>>

\* The next message of the queue.
Handle(m) ==
  /\ rpc = "idle"
  /\ handled < Len(posted)
  /\ posted[handled + 1].msg = m
  /\ handled' = handled + 1
  /\ UNCHANGED <<repairs, nThreads, fieldVars, hthidEvent, lockVars, posted, pc,
                 th, indx, loopVars, localVars, osVars, fixedVars>>

\* WM_SYSTEM_MSG: after an error the user may continue with the repair; after
\* success, or when the user declines, nothing is started.
HandleSystem ==
  /\ Handle("SYSTEM")
  /\ \/ /\ posted[handled + 1].res < 5
        /\ rpc' = "set" /\ rleft' = 2
     \/ UNCHANGED <<rpc, rleft>>

\* WM_FILE_DEL and WM_PROC_KILLED read the list under gHdect; the second frees
\* an array on the stack.
HandleFile ==
  /\ Handle("FILE_DEL")
  /\ gHdect = NoThread
  /\ UNCHANGED <<rpc, rleft>>

HandleProc ==
  /\ Handle("PROC_KILLED")
  /\ gHdect = NoThread
  /\ \/ UNCHANGED rpc
     \/ hindered /\ posted[handled + 1].res < 2 /\ rpc' = "crashed"
  /\ UNCHANGED rleft

\* WM_REGS_REMOVED and WM_PAYLOAD_DONE only show a text and a button.
HandleText ==
  /\ Handle("REGS_REMOVED") \/ Handle("PAYLOAD_DONE")
  /\ UNCHANGED <<rpc, rleft>>

-------------------------------------------------------------------------------
(* run(), all roles. *)

ReadIndex(t) ==
  /\ Step(t, "new", "signal")
  /\ th' = [th EXCEPT ![t] = threadIndx]
  /\ UNCHANGED <<guiVars, fieldVars, hthidEvent, lockVars, msgVars, indx,
                 loopVars, localVars, osVars, fixedVars>>

\* There is no role for an index above 2.
Signal(t) ==
  /\ Step(t, "signal", CASE th[t] = 0 -> "restore"
                         [] th[t] = 1 -> "files"
                         [] th[t] = 2 -> "keys"
                         [] OTHER     -> "done")
  /\ hthidEvent' = TRUE
  /\ UNCHANGED <<guiVars, fieldVars, lockVars, msgVars, th, indx, loopVars,
                 localVars, osVars, fixedVars>>

CountWait(t) ==
  /\ Step(t, "count", "bump")
  /\ Acquire(hThDone, t)
  /\ UNCHANGED <<guiVars, fieldVars, hthidEvent, gHdect, msgVars, th, indx,
                 loopVars, localVars, osVars, fixedVars>>

CountBump(t) ==
  /\ Step(t, "bump", "take")
  /\ threadDone' = threadDone + 1
  /\ UNCHANGED <<guiVars, threadIndx, workDone, error, hthidEvent, lockVars,
                 msgVars, th, indx, loopVars, localVars, osVars, fixedVars>>

CountTake(t) ==
  /\ Step(t, "take", "report")
  /\ indx' = [indx EXCEPT ![t] = threadDone]
  /\ hThDone' = NoThread
  /\ UNCHANGED <<guiVars, fieldVars, hthidEvent, gHdect, msgVars, th, loopVars,
                 localVars, osVars, fixedVars>>

\* Thread 2 posts ERROR, a macro of windows.h that is 0, for _ERROR.
Report(t) ==
  /\ Step(t, "report", "done")
  /\ \/ ~BothDone(t) /\ UNCHANGED posted
     \/ BothDone(t) /\ error /\ workDone # 0 /\ th[t] = 1
          /\ Post("PAYLOAD_DONE", 0, 1)
     \/ BothDone(t) /\ (~error \/ workDone = 0 \/ th[t] = 2)
          /\ Post("PAYLOAD_DONE", 0, 0)
  /\ UNCHANGED <<guiVars, fieldVars, hthidEvent, lockVars, handled, th, indx,
                 loopVars, localVars, osVars, fixedVars>>

-------------------------------------------------------------------------------
(* run(), role 0: createSystemRestore ends with one of its six messages. *)

CreateRestore(t) ==
  /\ Step(t, "restore", "done")
  /\ \E r \in RestoreOutcomes : Post("SYSTEM", 0, r)
  /\ UNCHANGED <<guiVars, fieldVars, hthidEvent, lockVars, handled, th, indx,
                 loopVars, localVars, osVars, fixedVars>>

-------------------------------------------------------------------------------
(* run(), role 1: processes and files. *)

ReadFiles(t) ==
  /\ Step(t, "files", "lock")
  /\ size' = [size EXCEPT ![t] = Len(Filepaths)]
  /\ procs' = [procs EXCEPT ![t] = Len(names)]
  /\ UNCHANGED <<guiVars, fieldVars, hthidEvent, lockVars, msgVars, th, indx,
                 at, value, localVars, osVars, fixedVars>>

LockList(t) ==
  /\ Step(t, "lock", "next")
  /\ at[t] < size[t]
  /\ WaitList(t)
  /\ UNCHANGED <<guiVars, fieldVars, hthidEvent, hThDone, msgVars, th, indx,
                 loopVars, localVars, osVars, fixedVars>>

FilesOver(t) ==
  /\ Step(t, "lock", "count")
  /\ at[t] >= size[t]
  /\ UNCHANGED <<guiVars, fieldVars, hthidEvent, lockVars, msgVars, th, indx,
                 loopVars, localVars, osVars, fixedVars>>

\* The i-th name, while there is one.  The slip takes the path.
NextNameNot(t) == Filepaths[at[t] + 1]
NextName(t) == IF at[t] < procs[t] THEN names[at[t] + 1] ELSE NoName

\* NextName answers from a static array, NextFile from a dead one.
NextFile(t) ==
  /\ Step(t, "next", "kill")
  /\ workDone' = workDone + 1
  /\ tmp' = [tmp EXCEPT ![t] = NextName(t)]
  /\ \E intact \in IF hindered THEN BOOLEAN ELSE {TRUE} :
       tm' = [tm EXCEPT ![t] = IF intact THEN Filepaths[at[t] + 1] ELSE Junk]
  /\ gHdect' = NoThread
  /\ UNCHANGED <<guiVars, threadIndx, threadDone, error, hthidEvent, hThDone,
                 msgVars, th, indx, loopVars, key, osVars, fixedVars>>

\* Slip: the process is looked for after its file is deleted.
KillNot(t) ==
  /\ Step(t, "kill", "delete")
  /\ UNCHANGED <<guiVars, fieldVars, hthidEvent, lockVars, msgVars, th, indx,
                 loopVars, localVars, osVars, fixedVars>>

\* The process of the i-th name, if that is the name of a program.
Kill(t) ==
  /\ Step(t, "kill", "delete")
  /\ IF isExe(tmp[t]) /\ at[t] < procs[t]
     THEN /\ Post("PROC_KILLED", at[t], killProcess(tmp[t]))
          /\ IF killProcess(tmp[t]) = 0
             THEN /\ processes' = processes \ {tmp[t]}
                  /\ dying' = IF hindered THEN dying \cup {tmp[t]} ELSE dying
             ELSE UNCHANGED <<processes, dying>>
     ELSE UNCHANGED <<posted, processes, dying>>
  /\ UNCHANGED <<guiVars, fieldVars, hthidEvent, lockVars, handled, th, indx,
                 loopVars, localVars, disk, registry, fixedVars>>

\* The file of the i-th path.
Delete(t) ==
  /\ Step(t, "delete", "lock")
  /\ IF tm[t] # Junk /\ CanDelete(tm[t])
     THEN /\ disk' = disk \ {tm[t]}
          /\ Post("FILE_DEL", at[t], 0)
          /\ UNCHANGED error
     ELSE /\ error' = TRUE
          /\ Post("FILE_DEL", at[t], 1)
          /\ UNCHANGED disk
  /\ at' = [at EXCEPT ![t] = @ + 1]
  /\ UNCHANGED <<guiVars, threadIndx, threadDone, workDone, hthidEvent,
                 lockVars, handled, th, indx, size, procs, value, localVars,
                 processes, dying, registry, fixedVars>>

\* The operating system finishes a terminated process.
Exit ==
  /\ dying # {}
  /\ \E f \in dying : dying' = dying \ {f}
  /\ UNCHANGED <<guiVars, fieldVars, hthidEvent, lockVars, msgVars, pc, th,
                 indx, loopVars, localVars, disk, processes, registry,
                 fixedVars>>

-------------------------------------------------------------------------------
(* run(), role 2: the registry. *)

ReadKeys(t) ==
  /\ Step(t, "keys", "open")
  /\ size' = [size EXCEPT ![t] = Len(regS)]
  /\ UNCHANGED <<guiVars, fieldVars, hthidEvent, lockVars, msgVars, th, indx,
                 at, procs, value, localVars, osVars, fixedVars>>

\* rokRetVal is not looked at: when the key cannot be opened, `key` is still
\* the one before.
OpenKey(t) ==
  /\ Step(t, "open", "lockkey")
  /\ at[t] < size[t]
  /\ key' = IF KeyOpens(Key(t))
            THEN [key EXCEPT ![t] = <<Key(t).handle, Key(t).keyPath>>]
            ELSE key
  /\ UNCHANGED <<guiVars, fieldVars, hthidEvent, lockVars, msgVars, th, indx,
                 loopVars, tmp, tm, osVars, fixedVars>>

KeysOver(t) ==
  /\ Step(t, "open", "count")
  /\ at[t] >= size[t]
  /\ UNCHANGED <<guiVars, fieldVars, hthidEvent, lockVars, msgVars, th, indx,
                 loopVars, localVars, osVars, fixedVars>>

LockKey(t) ==
  /\ Step(t, "lockkey", "value")
  /\ Acquire(gHdect, t)
  /\ workDone' = workDone + 1
  /\ value' = [value EXCEPT ![t] = 0]
  /\ UNCHANGED <<guiVars, threadIndx, threadDone, error, hthidEvent, hThDone,
                 msgVars, th, indx, at, size, procs, localVars, osVars,
                 fixedVars>>

\* Slip: one index for the key and for the value.
ValueNot(t) == Key(t).values[1]
Value(t) == Key(t).values[value[t] + 1]

\* RegDeleteValue, with whatever key is open and whatever may be done to it.
DeleteValue(t) ==
  /\ rpc # "crashed" /\ pc[t] = "value"
  /\ value[t] < Len(Key(t).values)
  /\ LET entry == key[t] \o <<Value(t)>>
     IN  IF key[t] \in WritableKeys /\ entry \in registry
         THEN /\ registry' = registry \ {entry}
              /\ Post("REGS_REMOVED", at[t], 0)
              /\ UNCHANGED error
         ELSE /\ error' = TRUE
              /\ Post("REGS_REMOVED", at[t], 1)
              /\ UNCHANGED registry
  /\ value' = [value EXCEPT ![t] = @ + 1]
  /\ UNCHANGED <<guiVars, threadIndx, threadDone, workDone, hthidEvent,
                 lockVars, handled, pc, th, indx, at, size, procs, localVars,
                 disk, processes, dying, fixedVars>>

UnlockKey(t) ==
  /\ Step(t, "value", "open")
  /\ value[t] >= Len(Key(t).values)
  /\ gHdect' = NoThread
  /\ at' = [at EXCEPT ![t] = @ + 1]
  /\ UNCHANGED <<guiVars, fieldVars, hthidEvent, hThDone, msgVars, th, indx,
                 size, procs, value, localVars, osVars, fixedVars>>

-------------------------------------------------------------------------------
RunAny(t) ==
  \/ ReadIndex(t) \/ Signal(t) \/ CountWait(t) \/ CountBump(t) \/ CountTake(t)
  \/ Report(t) \/ CreateRestore(t)

RunFiles(t) ==
  ReadFiles(t) \/ LockList(t) \/ FilesOver(t) \/ NextFile(t) \/ Kill(t) \/ Delete(t)

RunKeys(t) ==
  \/ ReadKeys(t) \/ OpenKey(t) \/ KeysOver(t) \/ LockKey(t) \/ DeleteValue(t)
  \/ UnlockKey(t)

run(t) == RunAny(t) \/ RunFiles(t) \/ RunKeys(t)

_switch == SwitchSet \/ SwitchWait \/ SwitchReset

HandleAny == HandleSystem \/ HandleFile \/ HandleProc \/ HandleText

Next ==
  \/ RepairYes \/ RepairNo \/ _switch \/ HandleAny \/ Exit
  \/ \E t \in Threads : run(t)

\* Threads and processes are scheduled, the window's thread comes back to its
\* queue and its questions are answered; nobody has to ask for a repair.
Fairness ==
  /\ WF_vars(_switch) /\ WF_vars(HandleAny) /\ WF_vars(Exit)
  /\ \A t \in Threads : WF_vars(run(t))

Spec == Init /\ [][Next]_vars /\ Fairness
================================================================================
