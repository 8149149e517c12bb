------------------------------ MODULE RepairProofs ------------------------------
(***************************************************************************)
(* The repair, for every list a check may leave, every machine and every    *)
(* number of repairs the user asks for, unless a theorem says otherwise.    *)
(***************************************************************************)
EXTENDS RepairProperties, SequenceTheorems, FiniteSetTheorems, TLAPS

-----------------------------------------------------------------------------
(* Types.  That threads never run out needs a count: a repair is worth three *)
(* threads, one for the restore point and two when the user then continues.  *)

\* The loops of run() stay inside the lists, whose lengths were read before.
LoopInv ==
  \A t \in Threads :
    /\ pc[t] \in {"off", "new", "signal", "files", "keys"} => at[t] = 0
    /\ pc[t] \in {"lock", "next", "kill", "delete"} =>
         size[t] = Len(Filepaths) /\ procs[t] = Len(names)
    /\ pc[t] \in {"next", "kill", "delete"} => at[t] < Len(Filepaths)
    /\ pc[t] \in {"kill", "delete"} => tmp[t] = NextName(t)
    /\ pc[t] \in {"open", "lockkey", "value"} => size[t] = Len(regS)
    /\ pc[t] \in {"lockkey", "value"} => at[t] < Len(regS)

\* Where IDM_REPAIR is, and which threads there are.
GuiInv ==
  /\ rpc \in {"idle", "crashed"} => rleft = 0
  /\ rpc \in {"set", "wait", "reset"} => rleft > 0
  /\ rpc = "reset" => threadIndx > 0
  /\ \A t \in Threads : pc[t] = "off" <=> t > nThreads

\* The role of a thread, from where it is.
PlaceInv ==
  \A t \in Threads :
    /\ pc[t] = "restore" => th[t] = 0
    /\ pc[t] \in {"files", "lock", "next", "kill", "delete"} => th[t] = 1
    /\ pc[t] \in {"keys", "open", "lockkey", "value"} => th[t] = 2
    /\ pc[t] \in {"count", "bump", "take", "report"} => th[t] \in {1, 2}

\* A thread that will post WM_SYSTEM_MSG, and such a message to be handled: the
\* answer to either may start two threads.
Owes(t) ==
  \/ pc[t] = "new" /\ threadIndx = 0
  \/ pc[t] = "signal" /\ th[t] = 0
  \/ pc[t] = "restore"

Owing == {t \in Threads : Owes(t)}

ToAnswer == {i \in 1..Len(posted) : i > handled /\ posted[i].msg = "SYSTEM"}

Debts == Cardinality(Owing)
Answers == Cardinality(ToAnswer)

ThreadCount == nThreads + rleft + 2 * Debts + 2 * Answers <= 3 * repairs

TypeInv == TypeOK /\ LoopInv /\ GuiInv /\ PlaceInv /\ ThreadCount

-----------------------------------------------------------------------------
(* _switch.  From the second time on its event comes from the thread started *)
(* last.                                                                     *)
SwitchInv ==
  rpc \in {"idle", "set", "wait"} /\ (threadIndx > 0 \/ rpc = "wait") =>
    hthidEvent \/ \E t \in Threads : pc[t] \in {"new", "signal"}

-----------------------------------------------------------------------------
(* The order of killing and deleting. *)

\* The processes a thread has looked for before it is at its point.
Passed(t, i) ==
  /\ pc[t] \in {"lock", "next", "kill", "delete"}
  /\ i < at[t] \/ (i = at[t] /\ pc[t] = "delete")

Tried(i) ==
  \E l \in 1..Len(posted) : posted[l].msg = "PROC_KILLED" /\ posted[l].val = i

KillInv ==
  \A t \in Threads : \A i \in 0..(Len(names) - 1) :
    Passed(t, i) /\ isExe(names[i + 1]) =>
      Tried(i) /\ (names[i + 1] \in processes => names[i + 1] \notin Killable)

-----------------------------------------------------------------------------
(* One repair: its roles. *)

\* The threads started without a _switch: that of the restore point.
Unswitched == nThreads + (IF rpc = "reset" THEN 1 ELSE 0) - threadIndx

IndexInv ==
  /\ Unswitched \in {0, 1}
  /\ repairs = 0 => nThreads = 0 /\ rpc = "idle" /\ Len(posted) = 0
                      /\ ~hthidEvent
  /\ rpc \in {"idle", "crashed"} => threadIndx \in {0, 2}
  /\ rpc \in {"set", "wait"} => threadIndx + rleft = 2
  /\ rpc = "reset" => threadIndx + rleft = 3

RoleInv ==
  \A t \in Threads :
    /\ pc[t] \notin {"off", "new"} => th[t] = t - Unswitched
    /\ pc[t] \in {"new", "signal"} => t = nThreads /\ ~hthidEvent /\ rpc # "reset"

\* The restore point is made, and its message answered, before the first
\* _switch.
RestoreInv ==
  /\ Unswitched = 1 /\ pc[1] # "done" => nThreads = 1 /\ rpc \in {"idle", "crashed"}
  /\ \A i \in 1..Len(posted) : posted[i].msg = "SYSTEM" =>
       /\ Unswitched = 1 /\ pc[1] = "done"
       /\ i > handled => nThreads = 1 /\ rpc \in {"idle", "crashed"}
  /\ \A i, j \in 1..Len(posted) :
       posted[i].msg = "SYSTEM" /\ posted[j].msg = "SYSTEM" => i = j

OneRepairInv == repairs <= 1 => IndexInv /\ RoleInv /\ RestoreInv

-----------------------------------------------------------------------------
(* One repair: the count of the threads that have finished. *)

Worker(t) == th[t] \in {1, 2} /\ pc[t] \notin {"off", "new", "signal"}
Counted(t) == Worker(t) /\ pc[t] \in {"take", "report", "done"}
Over(t) == Worker(t) /\ pc[t] \in {"report", "done"}

Finished(r) == \E t \in Threads : Counted(t) /\ th[t] = r

CountInv ==
  /\ threadDone = (IF Finished(1) THEN 1 ELSE 0) + (IF Finished(2) THEN 1 ELSE 0)
  /\ \A t \in Threads : Over(t) => indx[t] \in 1..threadDone
  /\ \A t, u \in Threads : Over(t) /\ Over(u) /\ indx[t] = indx[u] => t = u
  /\ \A t, u \in Threads : pc[t] = "take" /\ Over(u) => indx[u] < threadDone
  /\ Sent("PAYLOAD_DONE") =>
       \E t \in Threads : Worker(t) /\ pc[t] = "done" /\ indx[t] = 2

TallyInv == repairs <= 1 => CountInv /\ DoneIsLast

-----------------------------------------------------------------------------
(* What has been deleted. *)

Cleaned(p) ==
  p \in Undeletable \/ p[2] \in Running \ Killable \/ p \notin disk

AllCleaned(n) == \A i \in 1..Len(FoundPaths) : i <= n => Cleaned(FoundPaths[i])

Taking(t) == pc[t] \in {"kill", "delete"} => tm[t] = FoundPaths[at[t] + 1]

\* A thread of role 1 leaves no path behind it, unless hindered.
FilesLeft(t) ==
  Worker(t) /\ th[t] = 1 =>
    /\ AllCleaned(at[t])
    /\ pc[t] \in {"count", "bump", "take", "report", "done"} => at[t] >= Len(FoundPaths)

FilesInv == ~hindered => dying = {} /\ \A t \in Threads : Taking(t) /\ FilesLeft(t)

Emptied(k) == KeyOpens(k) /\ MayWrite(k) => Entries(k) \cap registry = {}

AllEmptied(n) == \A i \in 1..Len(FoundKeys) : i <= n => Emptied(FoundKeys[i])

\* Of the key k the first n values are gone.
EmptiedTo(k, n) ==
  KeyOpens(k) /\ MayWrite(k) =>
    \A j \in 1..Len(k.values) : j <= n => <<k.handle, k.keyPath, k.values[j]>> \notin registry

\* A thread of role 2 leaves no key behind it.
KeysLeft(t) ==
  Worker(t) /\ th[t] = 2 =>
    /\ AllEmptied(at[t])
    /\ pc[t] \in {"lockkey", "value"} /\ KeyOpens(FoundKeys[at[t] + 1]) =>
         key[t] = <<FoundKeys[at[t] + 1].handle, FoundKeys[at[t] + 1].keyPath>>
    /\ pc[t] = "value" => EmptiedTo(FoundKeys[at[t] + 1], value[t])
    /\ pc[t] \in {"count", "bump", "take", "report", "done"} => at[t] >= Len(FoundKeys)

KeysInv == \A t \in Threads : KeysLeft(t)

USE DEF guiVars, fieldVars, lockVars, msgVars, loopVars, localVars, osVars,
        fixedVars, dectVars, vars, Goto, Step, Acquire, WaitList

-----------------------------------------------------------------------------
(* Types of what the operators yield. *)

\* The numbers of the model are natural numbers.
LEMMA Bounds ==
  ASSUME TypeOK
  PROVE  /\ MaxRepairs \in Nat /\ Threads \in SUBSET Nat
         /\ \A t \in Threads : t # NoThread
         /\ nThreads \in Nat /\ repairs \in Nat /\ repairs <= MaxRepairs
         /\ Len(posted) \in Nat /\ Len(names) \in Nat /\ Len(Filepaths) \in Nat
         /\ Len(regS) \in Nat /\ handled \in Nat /\ handled <= Len(posted)
<1>1. /\ MaxRepairs \in Nat /\ Threads \in SUBSET Nat
      /\ \A t \in Threads : t # NoThread
  BY RepairAssumption DEF Threads, NoThread
<1>2. Len(posted) \in Nat /\ handled \in Nat /\ handled <= Len(posted)
  BY SMTT(30) DEF TypeOK
<1>3. Len(names) \in Nat /\ Len(Filepaths) \in Nat /\ Len(regS) \in Nat
  <2>1. DectTypeOK
    BY DEF TypeOK
  <2> QED BY <2>1, LenProperties DEF DectTypeOK
<1>4. nThreads \in Nat /\ repairs \in Nat /\ repairs <= MaxRepairs
  BY <1>1 DEF TypeOK
<1> QED BY <1>1, <1>2, <1>3, <1>4

Kinds == {"SYSTEM", "PROC_KILLED", "FILE_DEL", "REGS_REMOVED", "PAYLOAD_DONE"}

\* A message is appended to the queue, and the others stay.
LEMMA PostTyped ==
  ASSUME TypeOK, NEW m \in Kinds, NEW v \in Nat, NEW r \in 0..5, Post(m, v, r)
  PROVE  /\ posted' \in Seq(Messages) /\ Len(posted') = Len(posted) + 1
         /\ Len(posted') >= Len(posted)
         /\ \A i \in 1..Len(posted) : posted'[i] = posted[i]
         /\ posted'[Len(posted) + 1] = [msg |-> m, val |-> v, res |-> r]
<1>1. [msg |-> m, val |-> v, res |-> r] \in Messages
  BY DEF Messages, Kinds
<1>2. posted \in Seq(Messages)
  BY DEF TypeOK
<1>3. Len(posted) \in Nat
  BY Bounds
<1> QED BY <1>1, <1>2, <1>3, AppendProperties DEF Post

\* What the queue and the lists hold.
LEMMA Elements ==
  ASSUME TypeOK
  PROVE  /\ \A i \in 1..Len(posted) : posted[i] \in Messages
         /\ \A i \in 1..Len(Filepaths) : Filepaths[i] \in Paths
         /\ \A i \in 1..Len(names) : names[i] \in Files
         /\ \A i \in 1..Len(regS) : regS[i] \in RegKeys
  BY ElementOfSeq DEF TypeOK, DectTypeOK

\* Names, paths and keys that a thread takes from the list.
LEMMA Taken ==
  ASSUME TypeOK, LoopInv, NEW t \in Threads
  PROVE  /\ pc[t] = "next" => NextName(t) \in Files \cup {NoName}
         /\ pc[t] \in {"next", "kill", "delete"} =>
              at[t] + 1 \in 1..Len(Filepaths) /\ Filepaths[at[t] + 1] \in Paths
         /\ pc[t] \in {"lockkey", "value"} => Key(t) \in RegKeys
         /\ pc[t] = "open" /\ at[t] < size[t] => Key(t) \in RegKeys
<1>1. at[t] \in Nat /\ procs[t] \in Nat /\ size[t] \in Nat
  BY DEF TypeOK
<1>2. pc[t] = "next" /\ at[t] < procs[t] => at[t] + 1 \in 1..Len(names)
  BY <1>1, Bounds, SMTT(30) DEF LoopInv
<1>3. pc[t] \in {"next", "kill", "delete"} => at[t] + 1 \in 1..Len(Filepaths)
  BY <1>1, Bounds, SMTT(30) DEF LoopInv
<1>4. pc[t] \in {"lockkey", "value"} => at[t] + 1 \in 1..Len(regS)
  BY <1>1, Bounds, SMTT(30) DEF LoopInv
<1>5. pc[t] = "open" /\ at[t] < size[t] => at[t] + 1 \in 1..Len(regS)
  BY <1>1, Bounds, SMTT(30) DEF LoopInv
<1> QED BY <1>2, <1>3, <1>4, <1>5, Elements DEF NextName, Key

\* killProcess returns one of the three codes.
LEMMA Killed ==
  \A f : killProcess(f) \in 0..2
  BY DEF killProcess

-----------------------------------------------------------------------------
(* TypeOK, action by action. *)

\* The types after a step of the window's thread or of a process.
LEMMA TypeGui ==
  ASSUME TypeOK, GuiInv,
         RepairYes \/ RepairNo \/ _switch \/ HandleAny \/ Exit,
         nThreads' <= 3 * MaxRepairs
  PROVE  TypeOK'
<1> USE Bounds
<1>0. nThreads' = nThreads + 1 => nThreads' \in 0..3 * MaxRepairs
  OBVIOUS
<1>1. CASE RepairYes
  <2>1. nThreads' \in 0..3 * MaxRepairs /\ repairs' \in 0..MaxRepairs
    BY <1>0, <1>1 DEF RepairYes, start
  <2>2. pc' \in [Threads -> Points]
    BY <1>1 DEF RepairYes, start, TypeOK, Points
  <2> QED BY <1>1, <2>1, <2>2 DEF RepairYes, TypeOK, DectTypeOK
<1>2. CASE RepairNo
  <2>1. repairs' \in 0..MaxRepairs /\ rleft' \in 0..2
    BY <1>2 DEF RepairNo
  <2> QED BY <1>2, <2>1 DEF RepairNo, TypeOK, DectTypeOK
<1>3. CASE SwitchSet
  <2>1. hthidEvent' \in BOOLEAN /\ rpc' = "wait"
    BY <1>3 DEF SwitchSet
  <2> QED BY <1>3, <2>1 DEF SwitchSet, TypeOK, DectTypeOK
<1>4. CASE SwitchWait
  <2>1. threadIndx' \in Nat /\ rpc' = "reset" /\ hthidEvent' = FALSE
    BY <1>4 DEF SwitchWait, TypeOK
  <2> QED BY <1>4, <2>1 DEF SwitchWait, TypeOK, DectTypeOK
<1>5. CASE SwitchReset
  <2>1. rleft' \in 0..2
    BY <1>5 DEF SwitchReset, TypeOK, GuiInv
  <2>2. rpc' \in {"idle", "set"} /\ nThreads' = nThreads + 1
    BY <1>5 DEF SwitchReset, start
  <2>3. pc' \in [Threads -> Points]
    BY <1>5 DEF SwitchReset, start, TypeOK, Points
  <2> QED BY <1>0, <1>5, <2>1, <2>2, <2>3 DEF SwitchReset, TypeOK, DectTypeOK
<1>6. ASSUME NEW m, Handle(m)
      PROVE  handled' \in 0..Len(posted')
  BY <1>6 DEF Handle
<1>7. CASE HandleSystem
  <2>1. rpc' \in {"idle", "set"} /\ rleft' \in 0..2
    BY <1>7 DEF HandleSystem, Handle, TypeOK
  <2> QED BY <1>6, <1>7, <2>1 DEF HandleSystem, Handle, TypeOK, DectTypeOK
<1>8. CASE HandleFile
  BY <1>6, <1>8 DEF HandleFile, Handle, TypeOK, DectTypeOK
<1>9. CASE HandleProc
  BY <1>6, <1>9 DEF HandleProc, Handle, TypeOK, DectTypeOK
<1>10. CASE HandleText
  BY <1>6, <1>10 DEF HandleText, Handle, TypeOK, DectTypeOK
<1>11. CASE Exit
  BY <1>11 DEF Exit, TypeOK, DectTypeOK
<1> QED BY <1>1, <1>2, <1>3, <1>4, <1>5, <1>7, <1>8, <1>9, <1>10, <1>11
        DEF _switch, HandleAny

\* The types after the steps of run() that all roles share.
LEMMA TypeAny ==
  ASSUME TypeOK, NEW t \in Threads, RunAny(t)
  PROVE  TypeOK'
<1> USE Bounds
<1>1. CASE ReadIndex(t)
  BY <1>1 DEF ReadIndex, TypeOK, DectTypeOK, Points
<1>2. CASE Signal(t)
  BY <1>2 DEF Signal, TypeOK, DectTypeOK, Points
<1>3. CASE CountWait(t)
  <2>1. hThDone' \in Threads \cup {NoThread} /\ pc' \in [Threads -> Points]
    BY <1>3 DEF CountWait, TypeOK, Points
  <2> QED BY <1>3, <2>1 DEF CountWait, TypeOK, DectTypeOK
<1>4. CASE CountBump(t)
  <2>1. threadDone' \in Nat /\ pc' \in [Threads -> Points]
    BY <1>4 DEF CountBump, TypeOK, Points
  <2> QED BY <1>4, <2>1 DEF CountBump, TypeOK, DectTypeOK
<1>5. CASE CountTake(t)
  BY <1>5 DEF CountTake, TypeOK, DectTypeOK, Points
<1>6. CASE Report(t)
  <2>1. posted' \in Seq(Messages) /\ Len(posted') >= Len(posted)
    <3>1. CASE posted' = posted
      BY <3>1 DEF TypeOK
    <3>2. CASE posted' # posted
      <4>1. PICK r \in {0, 1} : Post("PAYLOAD_DONE", 0, r)
        BY <1>6, <3>2 DEF Report
      <4>2. "PAYLOAD_DONE" \in Kinds /\ r \in 0..5 /\ 0 \in Nat
        BY DEF Kinds
      <4> QED BY <4>1, <4>2, PostTyped, Zenon
    <3> QED BY <3>1, <3>2
  <2>2. handled' \in 0..Len(posted')
    BY <1>6, <2>1 DEF Report
  <2> QED BY <1>6, <2>1, <2>2 DEF Report, TypeOK, DectTypeOK, Points
<1>7. CASE CreateRestore(t)
  <2>1. posted' \in Seq(Messages) /\ Len(posted') >= Len(posted)
    <3>1. PICK r \in RestoreOutcomes : Post("SYSTEM", 0, r)
      BY <1>7 DEF CreateRestore
    <3>2. "SYSTEM" \in Kinds /\ r \in 0..5 /\ 0 \in Nat
      BY RepairAssumption DEF Kinds
    <3> QED BY <3>1, <3>2, PostTyped, Zenon
  <2>2. handled' \in 0..Len(posted')
    BY <1>7, <2>1 DEF CreateRestore
  <2> QED BY <1>7, <2>1, <2>2 DEF CreateRestore, TypeOK, DectTypeOK, Points
<1> QED BY <1>1, <1>2, <1>3, <1>4, <1>5, <1>6, <1>7 DEF RunAny

\* The types after a step of the thread that kills and deletes.
LEMMA TypeFiles ==
  ASSUME TypeOK, LoopInv, NEW t \in Threads, RunFiles(t)
  PROVE  TypeOK'
<1> USE Bounds
<1>1. CASE ReadFiles(t)
  BY <1>1 DEF ReadFiles, TypeOK, DectTypeOK, Points
<1>2. CASE LockList(t)
  <2>1. gHdect' \in Threads \cup {NoThread} /\ pc' \in [Threads -> Points]
    BY <1>2 DEF LockList, TypeOK, Points
  <2> QED BY <1>2, <2>1 DEF LockList, TypeOK, DectTypeOK
<1>3. CASE FilesOver(t)
  BY <1>3 DEF FilesOver, TypeOK, DectTypeOK, Points
<1>4. CASE NextFile(t)
  <2>1. tmp' \in [Threads -> Files \cup {NoName}]
    BY <1>4, Taken DEF NextFile, TypeOK
  <2>2. tm' \in [Threads -> Paths \cup {Junk}]
    BY <1>4, Taken DEF NextFile, TypeOK
  <2>3. pc' \in [Threads -> Points] /\ workDone' \in Nat
    BY <1>4 DEF NextFile, TypeOK, Points
  <2> QED BY <1>4, <2>1, <2>2, <2>3 DEF NextFile, TypeOK, DectTypeOK
<1>5. CASE Kill(t)
  <2>1. posted' \in Seq(Messages) /\ Len(posted') >= Len(posted)
    <3>1. CASE posted' = posted
      BY <3>1 DEF TypeOK
    <3>2. CASE posted' # posted
      <4>1. Post("PROC_KILLED", at[t], killProcess(tmp[t]))
        BY <1>5, <3>2 DEF Kill
      <4>2. "PROC_KILLED" \in Kinds /\ killProcess(tmp[t]) \in 0..5 /\ at[t] \in Nat
        BY Killed DEF Kinds, TypeOK
      <4> QED BY <4>1, <4>2, PostTyped, Zenon
    <3> QED BY <3>1, <3>2
  <2>2. handled' \in 0..Len(posted')
    BY <1>5, <2>1 DEF Kill
  <2>3. processes' \in SUBSET Running /\ dying' \in SUBSET Running
    <3>1. killProcess(tmp[t]) = 0 => tmp[t] \in processes
      BY DEF killProcess
    <3>2. processes \in SUBSET Running /\ dying \in SUBSET Running
      BY DEF TypeOK
    <3> QED BY <1>5, <3>1, <3>2 DEF Kill
  <2>4. pc' \in [Threads -> Points]
    BY <1>5 DEF Kill, TypeOK, Points
  <2> QED BY <1>5, <2>1, <2>2, <2>3, <2>4 DEF Kill, TypeOK, DectTypeOK
<1>6. CASE Delete(t)
  <2>1. posted' \in Seq(Messages) /\ Len(posted') >= Len(posted)
    <3>1. PICK r \in {0, 1} : Post("FILE_DEL", at[t], r)
      BY <1>6 DEF Delete
    <3>2. "FILE_DEL" \in Kinds /\ r \in 0..5 /\ at[t] \in Nat
      BY DEF Kinds, TypeOK
    <3> QED BY <3>1, <3>2, PostTyped, Zenon
  <2>2. handled' \in 0..Len(posted')
    BY <1>6, <2>1 DEF Delete
  <2>3. disk' \in SUBSET Disk /\ error' \in BOOLEAN
    BY <1>6 DEF Delete, TypeOK
  <2>4. pc' \in [Threads -> Points]
    BY <1>6 DEF Delete, TypeOK, Points
  <2>5. at' \in [Threads -> Nat]
    <3>1. at' = [at EXCEPT ![t] = @ + 1] /\ at \in [Threads -> Nat]
      BY <1>6 DEF Delete, TypeOK
    <3> QED BY <3>1
  <2> QED BY <1>6, <2>1, <2>2, <2>3, <2>4, <2>5 DEF Delete, TypeOK, DectTypeOK
<1> QED BY <1>1, <1>2, <1>3, <1>4, <1>5, <1>6 DEF RunFiles

\* The types after a step of the registry's thread.
LEMMA TypeKeys ==
  ASSUME TypeOK, LoopInv, NEW t \in Threads, RunKeys(t)
  PROVE  TypeOK'
<1> USE Bounds
<1>1. CASE ReadKeys(t)
  BY <1>1 DEF ReadKeys, TypeOK, DectTypeOK, Points
<1>2. CASE OpenKey(t)
  <2>1. key' \in [Threads -> OpenKeys \cup {NoKey}]
    BY <1>2 DEF OpenKey, KeyOpens, TypeOK
  <2>2. pc' \in [Threads -> Points]
    BY <1>2 DEF OpenKey, TypeOK, Points
  <2> QED BY <1>2, <2>1, <2>2 DEF OpenKey, TypeOK, DectTypeOK
<1>3. CASE KeysOver(t)
  BY <1>3 DEF KeysOver, TypeOK, DectTypeOK, Points
<1>4. CASE LockKey(t)
  <2>1. gHdect' \in Threads \cup {NoThread} /\ pc' \in [Threads -> Points]
    BY <1>4 DEF LockKey, TypeOK, Points
  <2>2. workDone' \in Nat /\ value' \in [Threads -> Nat]
    BY <1>4 DEF LockKey, TypeOK
  <2> QED BY <1>4, <2>1, <2>2 DEF LockKey, TypeOK, DectTypeOK
<1>5. CASE DeleteValue(t)
  <2>1. posted' \in Seq(Messages) /\ Len(posted') >= Len(posted)
    <3>1. PICK r \in {0, 1} : Post("REGS_REMOVED", at[t], r)
      BY <1>5 DEF DeleteValue
    <3>2. "REGS_REMOVED" \in Kinds /\ r \in 0..5 /\ at[t] \in Nat
      BY DEF Kinds, TypeOK
    <3> QED BY <3>1, <3>2, PostTyped, ZenonT(30)
  <2>2. handled' \in 0..Len(posted')
    BY <1>5, <2>1 DEF DeleteValue
  <2>3. registry' \in SUBSET KeyValues /\ error' \in BOOLEAN
    BY <1>5 DEF DeleteValue, TypeOK
  <2>4. value' \in [Threads -> Nat]
    BY <1>5, SMTT(30) DEF DeleteValue, TypeOK
  <2> QED BY <1>5, <2>1, <2>2, <2>3, <2>4, ZenonT(30) DEF DeleteValue, TypeOK, DectTypeOK
<1>6. CASE UnlockKey(t)
  <2>1. at' \in [Threads -> Nat] /\ pc' \in [Threads -> Points]
    BY <1>6, SMTT(30) DEF UnlockKey, TypeOK, Points
  <2> QED BY <1>6, <2>1, ZenonT(30) DEF UnlockKey, TypeOK, DectTypeOK
<1> QED BY <1>1, <1>2, <1>3, <1>4, <1>5, <1>6 DEF RunKeys

-----------------------------------------------------------------------------
(* The rest of the type invariant. *)

\* The list does not change, nor does what is fixed of the machine.
LEMMA ListFixed ==
  ASSUME [Next]_vars
  PROVE  /\ Filepaths' = Filepaths /\ names' = names /\ regS' = regS
         /\ path_iter' = path_iter /\ hindered' = hindered
<1> DEFINE Fixed == UNCHANGED <<dectVars, hindered>>
<1>1. CASE RepairYes \/ RepairNo \/ _switch \/ HandleAny \/ Exit \/ UNCHANGED vars
  <2>1. Fixed
    BY <1>1 DEF RepairYes, RepairNo, _switch, SwitchSet, SwitchWait, SwitchReset,
         HandleAny, HandleSystem, HandleFile, HandleProc, HandleText, Handle, Exit
  <2> QED BY <2>1
<1>2. ASSUME NEW t \in Threads, run(t)
      PROVE  Fixed
  <2>1. CASE RunAny(t)
    BY <2>1 DEF RunAny, ReadIndex, Signal, CountWait, CountBump, CountTake, Report,
                CreateRestore
  <2>2. CASE RunFiles(t)
    BY <2>2 DEF RunFiles, ReadFiles, LockList, FilesOver, NextFile, Kill, Delete
  <2>3. CASE RunKeys(t)
    BY <2>3 DEF RunKeys, ReadKeys, OpenKey, KeysOver, LockKey, DeleteValue, UnlockKey
  <2> QED BY <1>2, <2>1, <2>2, <2>3 DEF run
<1> QED BY <1>1, <1>2 DEF Next

\* A thread that is started is the first that is off.
LEMMA Started ==
  ASSUME TypeOK, GuiInv, start, nThreads + 1 <= 3 * MaxRepairs
  PROVE  /\ nThreads + 1 \in Threads /\ pc[nThreads + 1] = "off"
         /\ nThreads' = nThreads + 1
         /\ pc'[nThreads + 1] = "new"
         /\ \A t \in Threads : t # nThreads + 1 => pc'[t] = pc[t]
<1>1. nThreads + 1 \in Threads
  BY Bounds DEF Threads
<1>2. pc[nThreads + 1] = "off"
  BY <1>1, Bounds DEF GuiInv
<1> QED BY <1>1, <1>2 DEF start, TypeOK

\* The window's thread leaves every thread where it is, but starts one.
LEMMA GuiSteps ==
  ASSUME RepairYes \/ RepairNo \/ _switch \/ HandleAny \/ Exit
  PROVE  /\ start \/ (pc' = pc /\ nThreads' = nThreads)
         /\ UNCHANGED <<at, size, procs, value, tmp, tm, key, th, indx, posted,
                        threadDone, disk, registry, processes, names, regS, Filepaths>>
         /\ SwitchWait \/ threadIndx' = threadIndx
         /\ HandleAny \/ handled' = handled
         /\ RepairYes \/ RepairNo \/ repairs' = repairs
  BY DEF RepairYes, RepairNo, _switch, SwitchSet, SwitchWait, SwitchReset,
         HandleAny, HandleSystem, HandleFile, HandleProc, HandleText, Handle, Exit

\* The window's thread leaves the loops alone; a thread it starts is in none.
LEMMA LoopGui ==
  ASSUME TypeOK, LoopInv, GuiInv, nThreads' <= 3 * MaxRepairs,
         RepairYes \/ RepairNo \/ _switch \/ HandleAny \/ Exit
  PROVE  LoopInv'
<1>1. UNCHANGED <<at, size, procs, tmp, names, regS, Filepaths>>
  BY GuiSteps
<1>2. CASE pc' = pc
  BY <1>1, <1>2 DEF LoopInv, NextName
<1>3. CASE start
  <2>1. nThreads + 1 <= 3 * MaxRepairs
    BY <1>3 DEF start
  <2>2. /\ nThreads + 1 \in Threads /\ pc[nThreads + 1] = "off"
        /\ pc'[nThreads + 1] = "new"
        /\ \A t \in Threads : t # nThreads + 1 => pc'[t] = pc[t]
    BY <1>3, <2>1, Started
  <2> QED BY <1>1, <2>2 DEF LoopInv, NextName
<1> QED BY <1>2, <1>3, GuiSteps

\* LoopInv after a step of a thread.
LEMMA LoopRun ==
  ASSUME TypeOK, LoopInv, NEW t \in Threads, run(t)
  PROVE  LoopInv'
<1> USE DEF LoopInv, NextName
<1>0. /\ pc \in [Threads -> Points] /\ at \in [Threads -> Nat]
      /\ size \in [Threads -> Nat] /\ procs \in [Threads -> Nat]
      /\ tmp \in [Threads -> Files \cup {NoName}]
  BY DEF TypeOK
<1>1. CASE RunAny(t)
  BY <1>0, <1>1 DEF RunAny, ReadIndex, Signal, CountWait, CountBump, CountTake,
                    Report, CreateRestore
<1>2. CASE ReadFiles(t)
  BY <1>0, <1>2 DEF ReadFiles
<1>3. CASE LockList(t)
  BY <1>0, <1>3 DEF LockList
<1>4. CASE FilesOver(t)
  BY <1>0, <1>4 DEF FilesOver
<1>5. CASE NextFile(t)
  BY <1>0, <1>5 DEF NextFile
<1>6. CASE Kill(t)
  BY <1>0, <1>6 DEF Kill
<1>7. CASE Delete(t)
  BY <1>0, <1>7 DEF Delete
<1>8. CASE ReadKeys(t)
  BY <1>0, <1>8 DEF ReadKeys
<1>9. CASE OpenKey(t)
  BY <1>0, <1>9 DEF OpenKey
<1>10. CASE KeysOver(t)
  BY <1>0, <1>10 DEF KeysOver
<1>11. CASE LockKey(t)
  BY <1>0, <1>11 DEF LockKey
<1>12. CASE DeleteValue(t)
  BY <1>0, <1>12 DEF DeleteValue
<1>13. CASE UnlockKey(t)
  BY <1>0, <1>13 DEF UnlockKey
<1> QED BY <1>1, <1>2, <1>3, <1>4, <1>5, <1>6, <1>7, <1>8, <1>9, <1>10, <1>11,
           <1>12, <1>13 DEF run, RunFiles, RunKeys

\* A step of run() moves one thread that exists, and changes what it holds.
LEMMA RunMoves ==
  ASSUME TypeOK, NEW t \in Threads, run(t)
  PROVE  /\ pc[t] \notin {"off", "done"} /\ pc'[t] \notin {"off", "new"}
         /\ \A u \in Threads : u # t => pc'[u] = pc[u]
         /\ UNCHANGED <<rpc, rleft, repairs, nThreads, threadIndx, handled>>
         /\ \A u \in Threads : u # t => th'[u] = th[u] /\ indx'[u] = indx[u]
  BY DEF run, RunAny, ReadIndex, Signal, CountWait, CountBump, CountTake, Report,
         CreateRestore, RunFiles, ReadFiles, LockList, FilesOver, NextFile, Kill,
         Delete, RunKeys, ReadKeys, OpenKey, KeysOver, LockKey, DeleteValue,
         UnlockKey, TypeOK

\* PlaceInv after a step: where a thread is tells its role.
LEMMA PlaceStep ==
  ASSUME TypeOK, PlaceInv, GuiInv, nThreads' <= 3 * MaxRepairs, [Next]_vars
  PROVE  PlaceInv'
<1> USE DEF PlaceInv
<1>0. pc \in [Threads -> Points] /\ th \in [Threads -> Nat]
  BY DEF TypeOK
<1>1. CASE RepairYes \/ RepairNo \/ _switch \/ HandleAny \/ Exit
  <2>1. th' = th
    BY <1>1, GuiSteps
  <2>2. CASE pc' = pc
    BY <2>1, <2>2
  <2>3. CASE start
    <3>1. nThreads + 1 <= 3 * MaxRepairs
      BY <2>3 DEF start
    <3> QED BY <2>1, <2>3, <3>1, Started
  <2> QED BY <1>1, <2>2, <2>3, GuiSteps
<1>2. ASSUME NEW t \in Threads, RunAny(t) PROVE PlaceInv'
  <2>1. CASE ReadIndex(t)
    BY <1>0, <2>1 DEF ReadIndex
  <2>2. CASE Signal(t)
    BY <1>0, <2>2 DEF Signal
  <2>3. CASE ~ReadIndex(t) /\ ~Signal(t)
    BY <1>0, <1>2, <2>3 DEF RunAny, CountWait, CountBump, CountTake, Report, CreateRestore
  <2> QED BY <2>1, <2>2, <2>3
<1>3. ASSUME NEW t \in Threads, RunFiles(t) PROVE PlaceInv'
  BY <1>0, <1>3 DEF RunFiles, ReadFiles, LockList, FilesOver, NextFile, Kill, Delete
<1>4. ASSUME NEW t \in Threads, RunKeys(t) PROVE PlaceInv'
  BY <1>0, <1>4 DEF RunKeys, ReadKeys, OpenKey, KeysOver, LockKey, DeleteValue, UnlockKey
<1>5. CASE UNCHANGED vars
  BY <1>5
<1> QED BY <1>1, <1>2, <1>3, <1>4, <1>5 DEF Next, run

\* GuiInv after a step: a thread is started, by the window, before it runs.
LEMMA GuiStep ==
  ASSUME TypeOK, GuiInv, nThreads' <= 3 * MaxRepairs, [Next]_vars
  PROVE  GuiInv'
<1>1. nThreads \in Nat /\ rleft \in 0..2 /\ threadIndx \in Nat /\ Threads \in SUBSET Nat
  BY Bounds DEF TypeOK
<1>2. \A t \in Threads : pc'[t] = "off" <=> t > nThreads'
  <2>1. CASE pc' = pc /\ nThreads' = nThreads
    BY <2>1 DEF GuiInv
  <2>2. CASE start
    <3>1. nThreads + 1 <= 3 * MaxRepairs
      BY <2>2 DEF start
    <3>2. /\ pc'[nThreads + 1] = "new" /\ nThreads' = nThreads + 1
          /\ \A t \in Threads : t # nThreads + 1 => pc'[t] = pc[t]
      BY <2>2, <3>1, Started
    <3> QED BY <1>1, <3>2 DEF GuiInv
  <2>3. ASSUME NEW t \in Threads, run(t)
        PROVE  \A u \in Threads : pc'[u] = "off" <=> u > nThreads'
    BY <2>3, RunMoves DEF GuiInv
  <2> QED BY <2>1, <2>2, <2>3, GuiSteps DEF Next
<1>3. /\ rpc' \in {"idle", "crashed"} => rleft' = 0
      /\ rpc' \in {"set", "wait", "reset"} => rleft' > 0
      /\ rpc' = "reset" => threadIndx' > 0
  <2>1. CASE RepairYes \/ RepairNo
    BY <2>1 DEF RepairYes, RepairNo, GuiInv
  <2>2. CASE _switch
    BY <1>1, <2>2 DEF _switch, SwitchSet, SwitchWait, SwitchReset, GuiInv
  <2>3. CASE HandleAny
    BY <2>3 DEF HandleAny, HandleSystem, HandleFile, HandleProc, HandleText, Handle, GuiInv
  <2>4. CASE Exit
    BY <2>4 DEF Exit, GuiInv
  <2>5. ASSUME NEW t \in Threads, run(t)
        PROVE  UNCHANGED <<rpc, rleft, threadIndx>>
    BY <2>5, RunMoves
  <2>6. CASE UNCHANGED vars
    BY <2>6 DEF GuiInv
  <2> QED BY <2>1, <2>2, <2>3, <2>4, <2>5, <2>6 DEF Next, GuiInv
<1> QED BY <1>2, <1>3 DEF GuiInv

-----------------------------------------------------------------------------
(* The count of the threads. *)

\* The threads and messages that ThreadCount counts are finitely many.
LEMMA Finite ==
  ASSUME TypeOK
  PROVE  /\ IsFiniteSet(Owing) /\ Cardinality(Owing) \in Nat
         /\ IsFiniteSet(ToAnswer) /\ Cardinality(ToAnswer) \in Nat
<1>1. IsFiniteSet(Threads) /\ Owing \in SUBSET Threads
  <2>1. 1 \in Int /\ 3 * MaxRepairs \in Int
    BY Bounds
  <2> QED BY <2>1, FS_Interval DEF Threads, Owing
<1>2. IsFiniteSet(1..Len(posted)) /\ ToAnswer \in SUBSET (1..Len(posted))
  <2>1. 1 \in Int /\ Len(posted) \in Int
    BY Bounds
  <2> QED BY <2>1, FS_Interval DEF ToAnswer
<1>3. IsFiniteSet(Owing) /\ IsFiniteSet(ToAnswer)
  BY <1>1, <1>2, FS_Subset
<1> QED BY <1>3, FS_CardinalityType

\* Both sets as the steps change them: to a part, to one more, to one less.
LEMMA Fewer ==
  ASSUME NEW S, NEW T, IsFiniteSet(S), T \subseteq S
  PROVE  Cardinality(T) <= Cardinality(S) /\ Cardinality(T) \in Nat
                                          /\ Cardinality(S) \in Nat
<1>1. T \in SUBSET S
  OBVIOUS
<1> QED BY <1>1, FS_Subset, FS_CardinalityType

\* A set that gains at most one element.
LEMMA OneMore ==
  ASSUME NEW S, NEW T, NEW x, IsFiniteSet(S), T \subseteq S \cup {x}
  PROVE  Cardinality(T) <= Cardinality(S) + 1
<1>1. /\ IsFiniteSet(S \cup {x})
      /\ Cardinality(S \cup {x}) = IF x \in S THEN Cardinality(S) ELSE Cardinality(S) + 1
  BY FS_AddElement
<1>2. Cardinality(S) \in Nat
  BY FS_CardinalityType
<1>3. Cardinality(T) <= Cardinality(S \cup {x}) /\ Cardinality(T) \in Nat
  BY <1>1, Fewer
<1> QED BY <1>1, <1>2, <1>3

\* A set that loses one element.
LEMMA OneFewer ==
  ASSUME NEW S, NEW T, NEW x, IsFiniteSet(S), T \subseteq S \ {x}, x \in S
  PROVE  Cardinality(T) <= Cardinality(S) - 1
<1>1. /\ IsFiniteSet(S \ {x})
      /\ Cardinality(S \ {x}) = IF x \in S THEN Cardinality(S) - 1 ELSE Cardinality(S)
  BY FS_RemoveElement
<1>2. Cardinality(T) <= Cardinality(S \ {x})
  BY <1>1, Fewer
<1> QED BY <1>1, <1>2

\* No request ever runs out of threads: what ThreadCount says of the debt.
LEMMA ThreadsEnough ==
  ASSUME TypeInv, [Next]_vars
  PROVE  nThreads' <= 3 * MaxRepairs
<1>1. /\ nThreads \in Nat /\ MaxRepairs \in Nat /\ repairs \in 0..MaxRepairs
      /\ rleft \in 0..2 /\ Debts \in Nat /\ Answers \in Nat
  BY Bounds, Finite DEF TypeInv, TypeOK, Debts, Answers
<1>2. nThreads + rleft <= 3 * repairs
  BY <1>1 DEF TypeInv, ThreadCount
<1>3. CASE RepairYes
  <2>1. repairs + 1 <= MaxRepairs /\ nThreads' = nThreads + 1
    BY <1>1, <1>3 DEF RepairYes, start
  <2> QED BY <1>1, <1>2, <2>1
<1>4. CASE SwitchReset
  <2>1. rleft > 0 /\ nThreads' = nThreads + 1
    BY <1>4 DEF SwitchReset, start, TypeInv, GuiInv
  <2> QED BY <1>1, <1>2, <2>1
<1>5. CASE ~RepairYes /\ ~SwitchReset
  <2>1. nThreads' = nThreads
    BY <1>5, RunMoves DEF TypeInv, Next, RepairNo, _switch, SwitchSet, SwitchWait,
       HandleAny, HandleSystem, HandleFile, HandleProc, HandleText, Handle, Exit
  <2> QED BY <1>1, <1>2, <2>1
<1> QED BY <1>3, <1>4, <1>5

\* Who owes a message after a step.
LEMMA OwingStep ==
  ASSUME TypeInv, [Next]_vars
  PROVE  /\ RepairYes => Owing' \subseteq Owing \cup {nThreads + 1}
         /\ ~RepairYes => Owing' \subseteq Owing
         /\ \A t \in Threads : CreateRestore(t) => t \in Owing /\ Owing' \subseteq Owing \ {t}
<1> USE DEF TypeInv, Owing, Owes
<1>0. pc \in [Threads -> Points] /\ th \in [Threads -> Nat] /\ Threads' = Threads
  BY DEF TypeOK, Threads
<1>1. CASE RepairYes
  <2>1. start /\ threadIndx' = threadIndx /\ th' = th /\ nThreads + 1 <= 3 * MaxRepairs
    <3>1. start /\ threadIndx' = threadIndx /\ th' = th
      BY <1>1 DEF RepairYes
    <3> QED BY <3>1, ThreadsEnough DEF start
  <2>2. \A t \in Threads : t # nThreads + 1 => pc'[t] = pc[t]
    BY <2>1, Started
  <2>3. \A t \in Threads : ~CreateRestore(t)
    BY <1>1, <2>1 DEF CreateRestore, start, RepairYes, GuiInv, TypeOK
  <2> QED BY <1>0, <1>1, <2>1, <2>2, <2>3
<1>2. CASE SwitchReset
  <2>1. start /\ threadIndx' = threadIndx /\ th' = th /\ threadIndx > 0
        /\ nThreads + 1 <= 3 * MaxRepairs
    <3>1. start /\ threadIndx' = threadIndx /\ th' = th /\ threadIndx > 0
      BY <1>2 DEF SwitchReset, GuiInv
    <3> QED BY <3>1, ThreadsEnough DEF start
  <2>2. /\ \A t \in Threads : t # nThreads + 1 => pc'[t] = pc[t]
        /\ pc'[nThreads + 1] = "new"
    BY <2>1, Started
  <2>3. threadIndx # 0
    BY <2>1 DEF TypeOK
  <2>4. ~RepairYes /\ \A t \in Threads : ~CreateRestore(t)
    BY <1>2, <2>1 DEF RepairYes, SwitchReset, CreateRestore, start, TypeOK
  <2> QED BY <1>0, <2>1, <2>2, <2>3, <2>4
<1>3. CASE RepairNo \/ SwitchSet \/ SwitchWait \/ HandleAny \/ Exit \/ UNCHANGED vars
  <2>1. pc' = pc /\ th' = th /\ (threadIndx' = 0 => threadIndx = 0)
    BY <1>3 DEF RepairNo, SwitchSet, SwitchWait, HandleAny, HandleSystem, HandleFile,
                HandleProc, HandleText, Handle, Exit, TypeOK
  <2>2. \A t \in Threads : ~CreateRestore(t)
    BY <1>0, <2>1 DEF CreateRestore
  <2>3. ~RepairYes
    <3>1. RepairYes => nThreads + 1 \in Threads /\ pc[nThreads + 1] = "off"
                         /\ pc'[nThreads + 1] = "new"
      BY ThreadsEnough, Started DEF RepairYes, start
    <3> QED BY <2>1, <3>1
  <2> QED BY <1>0, <2>1, <2>2, <2>3
<1>4. ASSUME NEW t \in Threads, run(t)
      PROVE  /\ ~RepairYes /\ Owing' \subseteq Owing
             /\ \A u \in Threads : CreateRestore(u) => u \in Owing /\ Owing' \subseteq Owing \ {u}
  <2>1. /\ pc[t] \notin {"off", "done"} /\ pc'[t] \notin {"off", "new"}
        /\ \A u \in Threads : u # t => pc'[u] = pc[u] /\ th'[u] = th[u]
        /\ threadIndx' = threadIndx /\ nThreads' = nThreads
    BY <1>4, RunMoves
  <2>2. ~RepairYes
    BY <2>1, Bounds DEF RepairYes, start
  <2>3. ASSUME NEW u \in Threads, CreateRestore(u)
        PROVE  pc[u] = "restore" /\ pc'[u] = "done" /\ u = t
    <3>1. pc[u] = "restore" /\ pc'[u] = "done"
      BY <1>0, <2>3 DEF CreateRestore
    <3> QED BY <2>1, <3>1
  <2>4. Owes(t)' => Owes(t)
    <3>1. CASE ReadIndex(t)
      BY <1>0, <3>1 DEF ReadIndex, TypeOK
    <3>2. CASE Signal(t)
      BY <1>0, <3>2 DEF Signal, TypeOK
    <3>3. CASE ~ReadIndex(t) /\ ~Signal(t)
      <4>1. pc'[t] \notin {"new", "signal", "restore"}
        BY <1>0, <1>4, <3>3
           DEF run, RunAny, CountWait, CountBump, CountTake, Report, CreateRestore,
               RunFiles, ReadFiles, LockList, FilesOver, NextFile, Kill, Delete, RunKeys,
               ReadKeys, OpenKey, KeysOver, LockKey, DeleteValue, UnlockKey
      <4> QED BY <4>1
    <3> QED BY <3>1, <3>2, <3>3
  <2> QED BY <1>0, <2>1, <2>2, <2>3, <2>4
<1> QED BY <1>1, <1>2, <1>3, <1>4 DEF Next, _switch

-----------------------------------------------------------------------------
(* The messages after a step. *)

Sends(t, m) ==
  \/ CreateRestore(t) /\ m.msg = "SYSTEM"
  \/ Report(t) /\ BothDone(t) /\ m.msg = "PAYLOAD_DONE"
  \/ /\ Kill(t) /\ isExe(tmp[t]) /\ at[t] < procs[t]
     /\ m.msg = "PROC_KILLED" /\ m.val = at[t]
  \/ Delete(t) /\ m.msg = "FILE_DEL" /\ m.val = at[t]
  \/ DeleteValue(t) /\ m.msg = "REGS_REMOVED"

Kept == \A i \in 1..Len(posted) : posted'[i] = posted[i]

\* A thread posts at most one message in a step, and one that Sends allows.
LEMMA PostStep ==
  ASSUME TypeOK, NEW t \in Threads, run(t)
  PROVE  \/ posted' = posted /\ ~CreateRestore(t) /\ ~Delete(t)
         \/ /\ Len(posted') = Len(posted) + 1 /\ Kept
            /\ Sends(t, posted'[Len(posted) + 1])
<1> DEFINE Grown == Len(posted') = Len(posted) + 1 /\ Kept
<1> DEFINE Last == posted'[Len(posted) + 1]
<1>1. ASSUME NEW m \in Kinds, NEW v \in Nat, NEW r \in 0..5, Post(m, v, r)
      PROVE  Grown /\ Last = [msg |-> m, val |-> v, res |-> r]
  BY <1>1, PostTyped, Zenon DEF Kept
<1>2. at[t] \in Nat /\ 0 \in Nat /\ 0 \in 0..5 /\ 1 \in 0..5
  BY DEF TypeOK
<1>3. pc[t] \in Points /\ pc \in [Threads -> Points]
  BY DEF TypeOK
<1>4. CASE CreateRestore(t)
  <2>1. PICK r \in RestoreOutcomes : Post("SYSTEM", 0, r)
    BY <1>4 DEF CreateRestore
  <2>2. "SYSTEM" \in Kinds /\ r \in 0..5
    BY RepairAssumption DEF Kinds
  <2>3. Grown /\ Last = [msg |-> "SYSTEM", val |-> 0, res |-> r]
    BY <1>1, <1>2, <2>1, <2>2, Zenon
  <2>4. Last.msg = "SYSTEM"
    BY <2>3
  <2> QED BY <1>4, <2>3, <2>4 DEF Sends
<1>5. CASE Report(t)
  <2>1. ~CreateRestore(t) /\ ~Delete(t)
    BY <1>5 DEF Report, CreateRestore, Delete
  <2>2. CASE posted' # posted
    <3>1. PICK r \in {0, 1} : Post("PAYLOAD_DONE", 0, r)
      BY <1>5, <2>2 DEF Report
    <3>2. "PAYLOAD_DONE" \in Kinds /\ r \in 0..5
      BY DEF Kinds
    <3>3. Grown /\ Last = [msg |-> "PAYLOAD_DONE", val |-> 0, res |-> r]
      BY <1>1, <1>2, <3>1, <3>2, Zenon
    <3>4. Last.msg = "PAYLOAD_DONE" /\ BothDone(t)
      BY <1>5, <2>2, <3>3 DEF Report
    <3> QED BY <1>5, <3>3, <3>4 DEF Sends
  <2> QED BY <2>1, <2>2
<1>6. CASE Kill(t)
  <2>1. ~CreateRestore(t) /\ ~Delete(t)
    BY <1>6 DEF Kill, CreateRestore, Delete
  <2>2. CASE posted' # posted
    <3>1. Post("PROC_KILLED", at[t], killProcess(tmp[t])) /\ isExe(tmp[t]) /\ at[t] < procs[t]
      BY <1>6, <2>2 DEF Kill
    <3>2. "PROC_KILLED" \in Kinds /\ killProcess(tmp[t]) \in 0..5
      BY Killed DEF Kinds
    <3>3. Grown /\ Last = [msg |-> "PROC_KILLED", val |-> at[t], res |-> killProcess(tmp[t])]
      BY <1>1, <1>2, <3>1, <3>2, Zenon
    <3>4. Last.msg = "PROC_KILLED" /\ Last.val = at[t]
      BY <3>3
    <3> QED BY <1>6, <3>1, <3>3, <3>4 DEF Sends
  <2> QED BY <2>1, <2>2
<1>7. CASE Delete(t)
  <2>1. PICK r \in {0, 1} : Post("FILE_DEL", at[t], r)
    BY <1>7 DEF Delete
  <2>2. "FILE_DEL" \in Kinds /\ r \in 0..5
    BY DEF Kinds
  <2>3. Grown /\ Last = [msg |-> "FILE_DEL", val |-> at[t], res |-> r]
    BY <1>1, <1>2, <2>1, <2>2, Zenon
  <2>4. Last.msg = "FILE_DEL" /\ Last.val = at[t]
    BY <2>3
  <2> QED BY <1>7, <2>3, <2>4 DEF Sends
<1>8. CASE DeleteValue(t)
  <2>1. PICK r \in {0, 1} : Post("REGS_REMOVED", at[t], r)
    BY <1>8 DEF DeleteValue
  <2>2. "REGS_REMOVED" \in Kinds /\ r \in 0..5
    BY DEF Kinds
  <2>3. Grown /\ Last = [msg |-> "REGS_REMOVED", val |-> at[t], res |-> r]
    BY <1>1, <1>2, <2>1, <2>2, Zenon
  <2>4. Last.msg = "REGS_REMOVED"
    BY <2>3
  <2> QED BY <1>8, <2>3, <2>4 DEF Sends
<1>9. CASE ~CreateRestore(t) /\ ~Report(t) /\ ~Kill(t) /\ ~Delete(t) /\ ~DeleteValue(t)
  BY <1>9 DEF run, RunAny, ReadIndex, Signal, CountWait, CountBump, CountTake, RunFiles,
     ReadFiles, LockList, FilesOver, NextFile, RunKeys, ReadKeys, OpenKey, KeysOver,
     LockKey, UnlockKey
<1> QED BY <1>4, <1>5, <1>6, <1>7, <1>8, <1>9

\* Which of the five a thread may be at depends on where it is.
LEMMA SendsFrom ==
  ASSUME NEW t, NEW m, Sends(t, m)
  PROVE  /\ m.msg = "SYSTEM" => CreateRestore(t)
         /\ m.msg = "PAYLOAD_DONE" => Report(t) /\ BothDone(t)
         /\ m.msg = "PROC_KILLED" => Kill(t) /\ m.val = at[t]
         /\ m.msg = "FILE_DEL" => Delete(t) /\ m.val = at[t]
  BY DEF Sends

\* What is left to answer after a step.
LEMMA AnswerStep ==
  ASSUME TypeInv, [Next]_vars
  PROVE  /\ HandleSystem => /\ handled + 1 \in ToAnswer
                            /\ ToAnswer' \subseteq ToAnswer \ {handled + 1}
         /\ \A t \in Threads : CreateRestore(t) => ToAnswer' \subseteq ToAnswer \cup {Len(posted) + 1}
         /\ (\A t \in Threads : ~CreateRestore(t)) => ToAnswer' \subseteq ToAnswer
<1> USE DEF TypeInv, ToAnswer
<1>0. handled \in Nat /\ Len(posted) \in Nat /\ handled <= Len(posted)
  BY Bounds
<1>1. CASE HandleSystem
  <2>1. /\ posted' = posted /\ handled' = handled + 1 /\ pc' = pc
        /\ posted[handled + 1].msg = "SYSTEM" /\ handled < Len(posted)
    BY <1>1 DEF HandleSystem, Handle
  <2>2. \A t \in Threads : ~CreateRestore(t)
    BY <2>1 DEF CreateRestore, TypeOK
  <2> QED BY <1>0, <2>1, <2>2
<1>2. CASE RepairYes \/ RepairNo \/ _switch \/ HandleFile \/ HandleProc \/ HandleText \/ Exit
           \/ UNCHANGED vars
  <2>1. posted' = posted /\ handled' \in {handled, handled + 1}
    BY <1>2 DEF RepairYes, RepairNo, _switch, SwitchSet, SwitchWait, SwitchReset,
         HandleFile, HandleProc, HandleText, Handle, Exit
  <2>2. ToAnswer' \subseteq ToAnswer
    BY <1>0, <2>1
  <2>3. HandleSystem => handled' = handled + 1 /\ handled < Len(posted) /\ posted[handled + 1].msg = "SYSTEM"
    BY DEF HandleSystem, Handle
  <2> QED BY <1>0, <2>1, <2>2, <2>3
<1>3. ASSUME NEW t \in Threads, run(t)
      PROVE  /\ ~HandleSystem
             /\ \A u \in Threads : CreateRestore(u) => ToAnswer' \subseteq ToAnswer \cup {Len(posted) + 1}
             /\ (\A u \in Threads : ~CreateRestore(u)) => ToAnswer' \subseteq ToAnswer
  <2>1. handled' = handled
    BY <1>3, RunMoves
  <2>2. ~HandleSystem
    BY <1>0, <2>1 DEF HandleSystem, Handle
  <2>3. CASE posted' = posted
    BY <2>1, <2>2, <2>3
  <2>4. CASE Len(posted') = Len(posted) + 1 /\ Kept /\ Sends(t, posted'[Len(posted) + 1])
    <3>1. ToAnswer' \subseteq ToAnswer \cup {Len(posted) + 1}
      BY <1>0, <2>1, <2>4 DEF Kept
    <3>2. ~CreateRestore(t) => posted'[Len(posted) + 1].msg # "SYSTEM"
      BY <2>4, SendsFrom
    <3>3. ~CreateRestore(t) => ToAnswer' \subseteq ToAnswer
      BY <1>0, <2>1, <2>4, <3>2 DEF Kept
    <3> QED BY <2>2, <3>1, <3>3
  <2> QED BY <1>3, <2>3, <2>4, PostStep
<1> QED BY <1>1, <1>2, <1>3 DEF Next, HandleAny

\* The balance, as numbers: n threads, l to start, d debts and a answers for r
\* repairs.
LEMMA Balance ==
  ASSUME NEW n \in Nat, NEW l \in Nat, NEW d \in Nat, NEW a \in Nat, NEW r \in Nat,
         n + l + 2 * d + 2 * a <= 3 * r,
         NEW d1 \in Nat, NEW a1 \in Nat
  PROVE  /\ l = 0 /\ d1 <= d + 1 /\ a1 <= a =>
              (n + 1) + 0 + 2 * d1 + 2 * a1 <= 3 * (r + 1)
         /\ l = 0 /\ d1 <= d /\ a1 <= a => n + 2 + 2 * d1 + 2 * a1 <= 3 * (r + 1)
         /\ d1 <= d /\ a1 <= a => (n + 1) + (l - 1) + 2 * d1 + 2 * a1 <= 3 * r
         /\ l = 0 /\ d1 <= d /\ a1 <= a - 1 => n + 0 + 2 * d1 + 2 * a1 <= 3 * r
         /\ l = 0 /\ d1 <= d /\ a1 <= a - 1 => n + 2 + 2 * d1 + 2 * a1 <= 3 * r
         /\ d1 <= d - 1 /\ a1 <= a + 1 => n + l + 2 * d1 + 2 * a1 <= 3 * r
         /\ d1 <= d /\ a1 <= a => n + l + 2 * d1 + 2 * a1 <= 3 * r
OBVIOUS

\* ThreadCount after a step: a start is paid for by the debt of its request.
LEMMA CountStep ==
  ASSUME TypeInv, [Next]_vars
  PROVE  ThreadCount'
<1>0. nThreads \in Nat /\ repairs \in Nat /\ rleft \in Nat /\ TypeOK /\ GuiInv
      /\ nThreads + rleft + 2 * Debts + 2 * Answers <= 3 * repairs
  <2>1. rleft \in 0..2
    BY DEF TypeInv, TypeOK
  <2> QED BY <2>1, Bounds DEF TypeInv, ThreadCount
<1>1. IsFiniteSet(Owing) /\ IsFiniteSet(ToAnswer) /\ Debts \in Nat /\ Answers \in Nat
  BY <1>0, Finite DEF Debts, Answers
<1>2. Owing' \subseteq Owing => Debts' <= Debts /\ Debts' \in Nat
  BY <1>1, Fewer DEF Debts, Answers
<1>3. ToAnswer' \subseteq ToAnswer => Answers' <= Answers /\ Answers' \in Nat
  BY <1>1, Fewer DEF Debts, Answers
<1>4. CASE RepairYes
  <2>1. Owing' \subseteq Owing \cup {nThreads + 1}
    BY <1>4, OwingStep
  <2>2. IsFiniteSet(Owing')
    <3>1. IsFiniteSet(Owing \cup {nThreads + 1}) /\ Owing' \in SUBSET (Owing \cup {nThreads + 1})
      BY <1>1, <2>1, FS_AddElement
    <3> QED BY <3>1, FS_Subset
  <2>3. Debts' <= Debts + 1 /\ Debts' \in Nat
    BY <1>1, <2>1, <2>2, OneMore, FS_CardinalityType DEF Debts, Answers
  <2>4. nThreads' = nThreads + 1 /\ repairs' = repairs + 1 /\ rleft' = rleft /\ rleft = 0
    BY <1>0, <1>4 DEF RepairYes, start, GuiInv
  <2>5. \A t \in Threads : ~CreateRestore(t)
    <3>1. \A t \in Threads : CreateRestore(t) => nThreads' = nThreads
      BY DEF CreateRestore
    <3> QED BY <1>0, <2>4, <3>1
  <2>6. Answers' <= Answers /\ Answers' \in Nat
    BY <1>3, <2>5, AnswerStep
  <2>7. nThreads' + rleft' + 2 * Debts' + 2 * Answers' <= 3 * repairs'
    BY <1>0, <1>1, <2>3, <2>4, <2>6, Balance
  <2> QED BY <2>7 DEF ThreadCount
<1>5. CASE HandleSystem
  <2>1. rleft' \in {0, 2} /\ nThreads' = nThreads /\ repairs' = repairs /\ rleft = 0
    BY <1>0, <1>5 DEF HandleSystem, Handle, GuiInv
  <2>2. handled + 1 \in ToAnswer /\ ToAnswer' \subseteq ToAnswer \ {handled + 1}
    BY <1>5, AnswerStep
  <2>3. Answers' <= Answers - 1 /\ Answers' \in Nat
    BY <1>1, <1>3, <2>2, OneFewer DEF Debts, Answers
  <2>4. ~RepairYes
    BY <1>0, <2>1 DEF RepairYes, start
  <2>5. Debts' <= Debts /\ Debts' \in Nat
    BY <1>2, <2>4, OwingStep
  <2>6. nThreads' + rleft' + 2 * Debts' + 2 * Answers' <= 3 * repairs'
    BY <1>0, <1>1, <2>1, <2>3, <2>5, Balance
  <2> QED BY <2>6 DEF ThreadCount
<1>6. CASE \E t \in Threads : CreateRestore(t)
  <2>1. PICK t \in Threads : CreateRestore(t)
    BY <1>6
  <2>2. UNCHANGED <<nThreads, repairs, rleft>>
    BY <2>1 DEF CreateRestore
  <2>3. t \in Owing /\ Owing' \subseteq Owing \ {t}
    BY <2>1, OwingStep
  <2>4. Debts' <= Debts - 1 /\ Debts' \in Nat
    BY <1>1, <1>2, <2>3, OneFewer DEF Debts, Answers
  <2>5. ToAnswer' \subseteq ToAnswer \cup {Len(posted) + 1}
    BY <2>1, AnswerStep
  <2>6. IsFiniteSet(ToAnswer')
    <3>1. /\ IsFiniteSet(ToAnswer \cup {Len(posted) + 1})
          /\ ToAnswer' \in SUBSET (ToAnswer \cup {Len(posted) + 1})
      BY <1>1, <2>5, FS_AddElement
    <3> QED BY <3>1, FS_Subset
  <2>7. Answers' <= Answers + 1 /\ Answers' \in Nat
    BY <1>1, <2>5, <2>6, OneMore, FS_CardinalityType DEF Debts, Answers
  <2>8. nThreads' + rleft' + 2 * Debts' + 2 * Answers' <= 3 * repairs'
    BY <1>0, <1>1, <2>2, <2>4, <2>7, Balance
  <2> QED BY <2>8 DEF ThreadCount
<1>7. CASE ~RepairYes /\ ~HandleSystem /\ \A t \in Threads : ~CreateRestore(t)
  <2>1. Debts' <= Debts /\ Debts' \in Nat /\ Answers' <= Answers /\ Answers' \in Nat
    BY <1>2, <1>3, <1>7, OwingStep, AnswerStep
  <2>2. CASE RepairNo
    <3>1. nThreads' = nThreads /\ repairs' = repairs + 1 /\ rleft' = 2 /\ rleft = 0
      BY <1>0, <2>2 DEF RepairNo, GuiInv
    <3>2. nThreads' + rleft' + 2 * Debts' + 2 * Answers' <= 3 * repairs'
      BY <1>0, <1>1, <2>1, <3>1, Balance
    <3> QED BY <3>2 DEF ThreadCount
  <2>3. CASE SwitchReset
    <3>1. nThreads' = nThreads + 1 /\ repairs' = repairs /\ rleft' = rleft - 1
      BY <2>3 DEF SwitchReset, start
    <3>2. nThreads' + rleft' + 2 * Debts' + 2 * Answers' <= 3 * repairs'
      BY <1>0, <1>1, <2>1, <3>1, Balance
    <3> QED BY <3>2 DEF ThreadCount
  <2>4. CASE ~RepairNo /\ ~SwitchReset
    <3>1. UNCHANGED <<nThreads, repairs, rleft>>
      BY <1>0, <1>7, <2>4, RunMoves DEF Next, _switch, SwitchSet, SwitchWait,
         HandleAny, HandleFile, HandleProc, HandleText, Handle, Exit
    <3>2. nThreads' + rleft' + 2 * Debts' + 2 * Answers' <= 3 * repairs'
      BY <1>0, <1>1, <2>1, <3>1, Balance
    <3> QED BY <3>2 DEF ThreadCount
  <2> QED BY <2>2, <2>3, <2>4
<1> QED BY <1>4, <1>5, <1>6, <1>7

-----------------------------------------------------------------------------
(* The type invariant. *)

\* TypeInv at the start.
LEMMA TypeInit ==
  ASSUME Init
  PROVE  TypeInv
<1>1. nThreads = 0 /\ rleft = 0 /\ repairs = 0 /\ Len(posted) = 0
  BY DEF Init
<1>2. 0 \in 0..3 * MaxRepairs /\ 0 \in 0..MaxRepairs /\ Threads \in SUBSET Nat
      /\ \A t \in Threads : t > 0
  BY RepairAssumption DEF Threads
<1>3. TypeOK
  <2>1. DectTypeOK
    <3>1. Len(FoundPaths) \in 0..Len(FoundPaths)
      BY RepairAssumption
    <3> QED BY <3>1, RepairAssumption DEF Init, DectTypeOK
  <2>2. posted \in Seq(Messages) /\ handled \in 0..Len(posted)
    BY DEF Init
  <2>3. disk \in SUBSET Disk /\ registry \in SUBSET KeyValues
        /\ processes \in SUBSET Running /\ dying \in SUBSET Running /\ hindered \in Hindered
    BY DEF Init
  <2>4. error \in BOOLEAN
    BY RepairAssumption DEF Init
  <2>5. /\ rpc = "idle" /\ rleft \in 0..2 /\ repairs \in 0..MaxRepairs
        /\ nThreads \in 0..3 * MaxRepairs /\ threadIndx \in Nat /\ threadDone \in Nat
        /\ workDone \in Nat /\ gHdect = NoThread /\ hThDone = NoThread
    BY <1>1, <1>2, RepairAssumption DEF Init
  <2>8. hthidEvent \in BOOLEAN
    BY DEF Init
  <2>6. pc \in [Threads -> Points]
    BY DEF Init, Points
  <2>7. /\ th \in [Threads -> Nat] /\ indx \in [Threads -> Nat] /\ at \in [Threads -> Nat]
        /\ size \in [Threads -> Nat] /\ procs \in [Threads -> Nat] /\ value \in [Threads -> Nat]
        /\ tmp \in [Threads -> Files \cup {NoName}] /\ tm \in [Threads -> Paths \cup {Junk}]
        /\ key \in [Threads -> OpenKeys \cup {NoKey}]
    BY DEF Init
  <2> QED BY <2>1, <2>2, <2>3, <2>4, <2>5, <2>6, <2>7, <2>8 DEF TypeOK
<1>4. LoopInv /\ GuiInv /\ PlaceInv
  BY <1>2 DEF Init, LoopInv, GuiInv, PlaceInv
<1>5. ThreadCount
  <2>1. Owing = {} /\ ToAnswer = {}
    BY <1>1 DEF Init, Owing, Owes, ToAnswer
  <2> QED BY <1>1, <2>1, FS_EmptySet DEF ThreadCount, Debts, Answers
<1> QED BY <1>3, <1>4, <1>5 DEF TypeInv

\* TypeInv after a step, part by part.
LEMMA TypeStep ==
  ASSUME TypeInv, [Next]_vars
  PROVE  TypeInv'
<1> USE DEF TypeInv
<1>0. nThreads' <= 3 * MaxRepairs
  BY ThreadsEnough
<1>1. TypeOK'
  <2>1. CASE UNCHANGED vars
    BY <2>1 DEF TypeOK, DectTypeOK
  <2> QED BY <1>0, <2>1, TypeGui, TypeAny, TypeFiles, TypeKeys DEF Next, run
<1>2. LoopInv'
  <2>1. CASE UNCHANGED vars
    BY <2>1 DEF LoopInv, NextName
  <2> QED BY <1>0, <2>1, LoopGui, LoopRun DEF Next
<1>3. GuiInv' /\ PlaceInv' /\ ThreadCount'
  BY <1>0, GuiStep, PlaceStep, CountStep
<1> QED BY <1>1, <1>2, <1>3

\* Every thread the window starts, in whatever order restore points and repairs
\* are asked for and answered, is one of three for each time the user asked; the
\* loops of run() never read past the lists they found.
THEOREM RepairInvariant == Spec => []TypeInv
BY TypeInit, TypeStep, PTL DEF Spec

\* The fields of payLoads, the locals of its threads, the messages and the
\* machine keep to their types.
THEOREM RepairTyped == Spec => []TypeOK
<1>1. TypeInv => TypeOK
  BY DEF TypeInv
<1> QED BY <1>1, RepairInvariant, PTL

-----------------------------------------------------------------------------
(* Mutual exclusion. *)

\* No mutex is held at the start.
LEMMA LockInit ==
  ASSUME Init
  PROVE  LockDiscipline
<1>1. \A t \in Threads : t # NoThread
  BY RepairAssumption DEF Threads, NoThread
<1> QED BY <1>1 DEF Init, LockDiscipline

\* LockDiscipline after a step: in and out of a section with its mutex.
LEMMA LockStep ==
  ASSUME TypeInv, LockDiscipline, [Next]_vars
  PROVE  LockDiscipline'
<1>0. TypeOK /\ GuiInv /\ pc \in [Threads -> Points] /\ \A t \in Threads : t # NoThread
  BY Bounds DEF TypeInv, TypeOK
<1>1. CASE RepairYes \/ RepairNo \/ _switch \/ HandleAny \/ Exit
  <2>1. UNCHANGED lockVars
    BY <1>1 DEF RepairYes, RepairNo, _switch, SwitchSet, SwitchWait, SwitchReset,
       HandleAny, HandleSystem, HandleFile, HandleProc, HandleText, Handle, Exit
  <2>2. CASE pc' = pc
    BY <2>1, <2>2 DEF LockDiscipline
  <2>3. CASE start
    <3>1. nThreads + 1 <= 3 * MaxRepairs
      BY <2>3, ThreadsEnough DEF start
    <3> QED BY <1>0, <2>1, <2>3, <3>1, Started DEF LockDiscipline
  <2> QED BY <1>1, <2>2, <2>3, GuiSteps
<1>2. ASSUME NEW t \in Threads, RunAny(t) PROVE LockDiscipline'
  <2>1. CASE CountWait(t)
    BY <1>0, <2>1 DEF CountWait, LockDiscipline
  <2>2. CASE CountBump(t)
    BY <1>0, <2>2 DEF CountBump, LockDiscipline
  <2>3. CASE CountTake(t)
    BY <1>0, <2>3 DEF CountTake, LockDiscipline
  <2>4. CASE ReadIndex(t) \/ Signal(t) \/ Report(t) \/ CreateRestore(t)
    BY <1>0, <2>4 DEF ReadIndex, Signal, Report, CreateRestore, LockDiscipline
  <2> QED BY <1>2, <2>1, <2>2, <2>3, <2>4 DEF RunAny
<1>3. ASSUME NEW t \in Threads, RunFiles(t) PROVE LockDiscipline'
  <2>1. CASE LockList(t)
    BY <1>0, <2>1 DEF LockList, LockDiscipline
  <2>2. CASE NextFile(t)
    BY <1>0, <2>2 DEF NextFile, LockDiscipline
  <2>3. CASE ReadFiles(t) \/ FilesOver(t) \/ Kill(t) \/ Delete(t)
    BY <1>0, <2>3 DEF ReadFiles, FilesOver, Kill, Delete, LockDiscipline
  <2> QED BY <1>3, <2>1, <2>2, <2>3 DEF RunFiles
<1>4. ASSUME NEW t \in Threads, RunKeys(t) PROVE LockDiscipline'
  <2>1. CASE LockKey(t)
    BY <1>0, <2>1 DEF LockKey, LockDiscipline
  <2>2. CASE UnlockKey(t)
    BY <1>0, <2>2 DEF UnlockKey, LockDiscipline
  <2>3. CASE DeleteValue(t)
    BY <1>0, <2>3 DEF DeleteValue, LockDiscipline
  <2>4. CASE ReadKeys(t) \/ OpenKey(t) \/ KeysOver(t)
    BY <1>0, <2>4 DEF ReadKeys, OpenKey, KeysOver, LockDiscipline
  <2> QED BY <1>4, <2>1, <2>2, <2>3, <2>4 DEF RunKeys
<1>5. CASE UNCHANGED vars
  BY <1>5 DEF LockDiscipline
<1> QED BY <1>1, <1>2, <1>3, <1>4, <1>5 DEF Next, run

\* gHdect and hThDone each keep their section to one thread.
THEOREM LocksKept == Spec => []LockDiscipline
BY RepairInvariant, LockInit, LockStep, PTL DEF Spec

-----------------------------------------------------------------------------
(* _switch does not hang. *)

\* _switch is not waiting at the start.
LEMMA SwitchInit ==
  ASSUME Init
  PROVE  SwitchInv
BY DEF Init, SwitchInv

\* SwitchInv after a step: a thread that has not signalled is there to do it.
LEMMA SwitchStep ==
  ASSUME TypeInv, SwitchInv, [Next]_vars
  PROVE  SwitchInv'
<1>0. /\ TypeOK /\ GuiInv /\ pc \in [Threads -> Points] /\ threadIndx \in Nat
      /\ Threads' = Threads
  BY DEF TypeInv, TypeOK, Threads
<1>1. CASE RepairYes \/ SwitchReset
  <2>1. start
    BY <1>1 DEF RepairYes, SwitchReset
  <2>2. nThreads + 1 <= 3 * MaxRepairs
    BY <2>1, ThreadsEnough DEF start
  <2>3. nThreads + 1 \in Threads /\ pc'[nThreads + 1] = "new"
    BY <1>0, <2>1, <2>2, Started
  <2> QED BY <1>0, <2>3 DEF SwitchInv
<1>2. CASE SwitchSet
  <2>1. pc' = pc /\ threadIndx' = threadIndx /\ (threadIndx = 0 => hthidEvent') /\ rpc = "set"
        /\ (hthidEvent => hthidEvent')
    BY <1>2 DEF SwitchSet
  <2>2. threadIndx = 0 \/ threadIndx > 0
    BY <1>0
  <2> QED BY <1>0, <2>1, <2>2, Zenon DEF SwitchInv
<1>3. CASE SwitchWait
  BY <1>3 DEF SwitchWait, SwitchInv
<1>4. CASE RepairNo \/ HandleAny
  <2>1. rpc = "idle" /\ UNCHANGED <<pc, threadIndx, hthidEvent>>
        /\ rpc' \in {"idle", "set", "crashed"}
    BY <1>4 DEF RepairNo, HandleAny, HandleSystem, HandleFile, HandleProc, HandleText, Handle
  <2>2. rpc' # "wait"
    BY <2>1
  <2> QED BY <1>0, <2>1, <2>2, Zenon DEF SwitchInv
<1>5. CASE Exit \/ UNCHANGED vars
  <2>1. UNCHANGED <<rpc, pc, threadIndx, hthidEvent>>
    BY <1>5 DEF Exit
  <2> QED BY <1>0, <2>1, Zenon DEF SwitchInv
<1>6. ASSUME NEW t \in Threads, run(t) PROVE SwitchInv'
  <2>1. /\ \A u \in Threads : u # t => pc'[u] = pc[u]
        /\ rpc' = rpc /\ threadIndx' = threadIndx
    BY <1>0, <1>6, RunMoves
  <2>2. CASE Signal(t)
    <3>1. hthidEvent'
      BY <2>2 DEF Signal
    <3> QED BY <3>1, Zenon DEF SwitchInv
  <2>3. CASE ReadIndex(t)
    <3>1. pc'[t] = "signal"
      BY <1>0, <2>3 DEF ReadIndex
    <3> QED BY <1>0, <3>1 DEF SwitchInv
  <2>4. CASE ~Signal(t) /\ ~ReadIndex(t)
    <3>1. pc[t] \notin {"new", "signal"} /\ hthidEvent' = hthidEvent
      BY <1>6, <2>4 DEF run, RunAny, CountWait, CountBump, CountTake, Report, CreateRestore,
         RunFiles, ReadFiles, LockList, FilesOver, NextFile, Kill, Delete, RunKeys,
         ReadKeys, OpenKey, KeysOver, LockKey, DeleteValue, UnlockKey
    <3>2. \A u \in Threads : pc[u] \in {"new", "signal"} => pc'[u] \in {"new", "signal"}
      BY <2>1, <3>1
    <3> QED BY <1>0, <2>1, <3>1, <3>2, Zenon DEF SwitchInv
  <2> QED BY <2>2, <2>3, <2>4
<1> QED BY <1>1, <1>2, <1>3, <1>4, <1>5, <1>6 DEF Next, _switch

\* The event of _switch is set, or a thread is about to set it, whenever the
\* window waits for it: the thread started last has not been waited for yet.
THEOREM SwitchReturns == Spec => []SwitchNotStuck
<1>1. SwitchInv => SwitchNotStuck
  BY DEF SwitchInv, SwitchNotStuck
<1> QED BY <1>1, RepairInvariant, SwitchInit, SwitchStep, PTL DEF Spec

-----------------------------------------------------------------------------
(* Killing before deleting.                                                  *)

\* The list is the one the check left.
ListInv == Filepaths = FoundPaths /\ names = FoundNames /\ regS = FoundKeys

\* A repair leaves the list of the check as it is.
LEMMA ListKept == Spec => []ListInv
<1>1. Init => ListInv
  BY DEF Init, ListInv
<1>2. ListInv /\ [Next]_vars => ListInv'
  BY ListFixed DEF ListInv
<1> QED BY <1>1, <1>2, PTL DEF Spec

\* Messages stay, and at most one is added.
LEMMA Growth ==
  ASSUME TypeOK, [Next]_vars
  PROVE  /\ Len(posted') \in {Len(posted), Len(posted) + 1} /\ Kept
         /\ Len(posted) \in Nat
<1>1. Len(posted) \in Nat
  BY Bounds
<1>2. CASE posted' = posted
  BY <1>1, <1>2 DEF Kept
<1>3. ASSUME NEW t \in Threads, run(t), posted' # posted
      PROVE  Len(posted') = Len(posted) + 1 /\ Kept
  BY <1>3, PostStep
<1>4. CASE RepairYes \/ RepairNo \/ _switch \/ HandleAny \/ Exit \/ UNCHANGED vars
  BY <1>2, <1>4, GuiSteps
<1> QED BY <1>1, <1>2, <1>3, <1>4 DEF Next

\* Processes only end.
LEMMA NoneStarts ==
  ASSUME [Next]_vars
  PROVE  /\ processes' \subseteq processes /\ disk' \subseteq disk
         /\ registry' \subseteq registry
<1>1. CASE RepairYes \/ RepairNo \/ _switch \/ HandleAny \/ Exit
  BY <1>1, GuiSteps
<1>2. ASSUME NEW t \in Threads, RunAny(t)
      PROVE  UNCHANGED <<processes, disk, registry>>
  BY <1>2 DEF RunAny, ReadIndex, Signal, CountWait, CountBump, CountTake, Report,
              CreateRestore
<1>3. ASSUME NEW t \in Threads, Kill(t)
      PROVE  processes' \subseteq processes /\ UNCHANGED <<disk, registry>>
  BY <1>3 DEF Kill
<1>4. ASSUME NEW t \in Threads, Delete(t)
      PROVE  disk' \subseteq disk /\ UNCHANGED <<processes, registry>>
  BY <1>4 DEF Delete
<1>5. ASSUME NEW t \in Threads, DeleteValue(t)
      PROVE  registry' \subseteq registry /\ UNCHANGED <<processes, disk>>
  BY <1>5 DEF DeleteValue
<1>6. ASSUME NEW t \in Threads,
             ReadFiles(t) \/ LockList(t) \/ FilesOver(t) \/ NextFile(t) \/ ReadKeys(t)
               \/ OpenKey(t) \/ KeysOver(t) \/ LockKey(t) \/ UnlockKey(t)
      PROVE  UNCHANGED <<processes, disk, registry>>
  BY <1>6 DEF ReadFiles, LockList, FilesOver, NextFile, ReadKeys, OpenKey, KeysOver,
              LockKey, UnlockKey
<1>7. CASE UNCHANGED vars
  BY <1>7
<1> QED BY <1>1, <1>2, <1>3, <1>4, <1>5, <1>6, <1>7 DEF Next, run, RunFiles, RunKeys

\* A process that has been tried stays tried.
LEMMA TriedStays ==
  ASSUME TypeOK, [Next]_vars, NEW i, Tried(i)
  PROVE  Tried(i)'
<1>1. PICK l \in 1..Len(posted) : posted[l].msg = "PROC_KILLED" /\ posted[l].val = i
  BY DEF Tried
<1>2. l \in 1..Len(posted') /\ posted'[l] = posted[l]
  BY <1>1, Growth DEF Kept
<1> QED BY <1>1, <1>2 DEF Tried

\* What kill does for the index it is at.
LEMMA KillTries ==
  ASSUME TypeInv, NEW t \in Threads, Kill(t), NEW i \in Nat, i = at[t],
         i < Len(names), isExe(names[i + 1])
  PROVE  /\ Tried(i)'
         /\ names[i + 1] \in processes' => names[i + 1] \notin Killable
<1>0. TypeOK /\ LoopInv /\ pc[t] = "kill"
  BY DEF TypeInv, Kill
<1>1. procs[t] = Len(names) /\ tmp[t] = names[i + 1]
  BY <1>0 DEF LoopInv, NextName
<1>2. Post("PROC_KILLED", at[t], killProcess(tmp[t]))
  BY <1>1 DEF Kill
<1>3. Tried(i)'
  <2>1. "PROC_KILLED" \in Kinds /\ killProcess(tmp[t]) \in 0..5 /\ at[t] \in Nat
    BY <1>0, Killed DEF Kinds, TypeOK
  <2>2. /\ Len(posted') = Len(posted) + 1
        /\ posted'[Len(posted) + 1]
             = [msg |-> "PROC_KILLED", val |-> at[t], res |-> killProcess(tmp[t])]
    BY <1>0, <1>2, <2>1, PostTyped, Zenon
  <2>3. Len(posted) + 1 \in 1..Len(posted')
    BY <1>0, <2>2, Bounds
  <2>5. posted'[Len(posted) + 1].msg = "PROC_KILLED" /\ posted'[Len(posted) + 1].val = i
    BY <2>2
  <2> QED BY <2>3, <2>5 DEF Tried
<1>4. tmp[t] \in processes' => tmp[t] \notin Killable
  BY <1>1 DEF Kill, killProcess
<1> QED BY <1>1, <1>3, <1>4

\* The thread passes an index of the list by killing the process of that index.
LEMMA PassedStep ==
  ASSUME TypeInv, [Next]_vars, NEW t \in Threads, NEW i \in Nat, Passed(t, i)'
  PROVE  \/ Passed(t, i)
         \/ Kill(t) /\ i = at[t]
<1> USE DEF Passed
<1>0. /\ TypeOK /\ GuiInv /\ LoopInv /\ pc \in [Threads -> Points]
      /\ at \in [Threads -> Nat]
  BY DEF TypeInv, TypeOK
<1>1. CASE RepairYes \/ RepairNo \/ _switch \/ HandleAny \/ Exit
  <2>1. at' = at
    BY <1>1, GuiSteps
  <2>2. CASE pc' = pc
    BY <2>1, <2>2
  <2>3. CASE start
    <3>1. nThreads + 1 <= 3 * MaxRepairs
      BY <2>3, ThreadsEnough DEF start
    <3> QED BY <1>0, <2>1, <2>3, <3>1, Started
  <2> QED BY <1>1, <2>2, <2>3, GuiSteps
<1>2. ASSUME NEW u \in Threads, run(u), u # t
      PROVE  Passed(t, i)
  <2>1. pc'[t] = pc[t]
    BY <1>0, <1>2, RunMoves
  <2>2. at'[t] = at[t]
    BY <1>0, <1>2 DEF run, RunAny, ReadIndex, Signal, CountWait, CountBump, CountTake, Report,
         CreateRestore, RunFiles, ReadFiles, LockList, FilesOver, NextFile, Kill,
         Delete, RunKeys, ReadKeys, OpenKey, KeysOver, LockKey, DeleteValue, UnlockKey
  <2> QED BY <2>1, <2>2
<1>3. CASE RunAny(t)
  BY <1>0, <1>3 DEF RunAny, ReadIndex, Signal, CountWait, CountBump, CountTake, Report,
                    CreateRestore
<1>4. CASE ReadFiles(t)
  BY <1>0, <1>4 DEF ReadFiles, LoopInv
<1>5. CASE LockList(t) \/ FilesOver(t) \/ NextFile(t)
  BY <1>0, <1>5 DEF LockList, FilesOver, NextFile
<1>6. CASE Kill(t)
  BY <1>0, <1>6 DEF Kill
<1>7. CASE Delete(t)
  <2>1. at[t] \in Nat /\ at'[t] = at[t] + 1 /\ pc[t] = "delete" /\ pc'[t] = "lock"
    BY <1>0, <1>7 DEF Delete
  <2> QED BY <2>1
<1>8. CASE RunKeys(t)
  BY <1>0, <1>8 DEF RunKeys, ReadKeys, OpenKey, KeysOver, LockKey, DeleteValue, UnlockKey
<1>9. CASE UNCHANGED vars
  BY <1>9
<1> QED BY <1>1, <1>2, <1>3, <1>4, <1>5, <1>6, <1>7, <1>8, <1>9 DEF Next, run, RunFiles

\* No thread has passed an index at the start.
LEMMA KillInit ==
  ASSUME Init
  PROVE  KillInv
BY DEF Init, KillInv, Passed

\* KillInv after a step: what has been passed has been tried.
LEMMA KillStep ==
  ASSUME TypeInv, KillInv, [Next]_vars
  PROVE  KillInv'
<1>0. TypeOK /\ names' = names /\ Len(names) \in Nat /\ processes' \subseteq processes
      /\ Threads' = Threads
  BY Bounds, ListFixed, NoneStarts DEF TypeInv, Threads
<1>1. ASSUME NEW t \in Threads, NEW i \in 0..(Len(names) - 1), Passed(t, i)',
             isExe(names[i + 1])
      PROVE  Tried(i)' /\ (names[i + 1] \in processes' => names[i + 1] \notin Killable)
  <2>1. i \in Nat /\ i < Len(names)
    BY <1>0
  <2>2. CASE Passed(t, i)
    <3>1. Tried(i) /\ (names[i + 1] \in processes => names[i + 1] \notin Killable)
      BY <1>1, <2>2 DEF KillInv
    <3>2. Tried(i)'
      BY <1>0, <3>1, TriedStays
    <3> QED BY <1>0, <3>1, <3>2
  <2>3. CASE Kill(t) /\ i = at[t]
    BY <1>1, <2>1, <2>3, KillTries
  <2> QED BY <1>1, <2>1, <2>2, <2>3, PassedStep
<1> QED BY <1>0, <1>1 DEF KillInv, isExe

\* The names come no later than the paths they are the names of: what the theorem
\* NamesInTime of EngineLog says a check leaves, when no name of the definitions
\* begins another.
NamesInOrder ==
  \A i \in 1..Len(FoundPaths) :
    \E j \in 1..Len(FoundNames) : j <= i /\ FoundNames[j] = FoundPaths[i][2]

\* What a thread that is to delete has behind it.
LEMMA TriedBefore ==
  ASSUME TypeInv, KillInv, ListInv, NamesInOrder, NEW t \in Threads,
         pc[t] = "delete", isExe(Filepaths[at[t] + 1][2])
  PROVE  \E l \in 1..Len(posted) :
           /\ posted[l].msg = "PROC_KILLED"
           /\ names[posted[l].val + 1] = Filepaths[at[t] + 1][2]
           /\ names[posted[l].val + 1] \in processes =>
                names[posted[l].val + 1] \notin Killable
<1>1. at[t] \in Nat /\ at[t] + 1 \in 1..Len(FoundPaths) /\ Len(FoundNames) \in Nat
  <2>1. TypeOK /\ LoopInv /\ at[t] \in Nat
    BY DEF TypeInv, TypeOK
  <2>2. at[t] + 1 \in 1..Len(Filepaths) /\ Len(names) \in Nat
    BY <2>1, Taken, Bounds
  <2> QED BY <2>1, <2>2 DEF ListInv
<1>2. PICK j \in 1..Len(FoundNames) : j <= at[t] + 1 /\ FoundNames[j] = FoundPaths[at[t] + 1][2]
  BY <1>1 DEF NamesInOrder
<1>3. j - 1 \in 0..(Len(names) - 1) /\ (j - 1) + 1 = j
  BY <1>1, <1>2 DEF ListInv
<1>4. Passed(t, j - 1)
  BY <1>1, <1>2, <1>3 DEF Passed
<1>5. names[j] = Filepaths[at[t] + 1][2] /\ isExe(names[(j - 1) + 1])
  BY <1>2, <1>3 DEF ListInv
<1>6. Tried(j - 1) /\ (names[j] \in processes => names[j] \notin Killable)
  BY <1>3, <1>4, <1>5 DEF KillInv
<1>7. PICK l \in 1..Len(posted) : posted[l].msg = "PROC_KILLED" /\ posted[l].val = j - 1
  BY <1>6 DEF Tried
<1> QED BY <1>3, <1>5, <1>6, <1>7

\* KillTriedFirst after a step: the file deleted next has its own process tried,
\* because its name comes no later in the list.
LEMMA TriedFirstStep ==
  ASSUME TypeInv, KillInv, ListInv, NamesInOrder, KillTriedFirst, [Next]_vars
  PROVE  KillTriedFirst'
<1>0. TypeOK /\ Len(posted) \in Nat /\ names' = names /\ Filepaths' = Filepaths
  BY Bounds, ListFixed DEF TypeInv
<1>1. SUFFICES ASSUME NEW k \in 1..Len(posted'), posted'[k].msg = "FILE_DEL",
                      isExe(Filepaths[posted'[k].val + 1][2])
               PROVE  \E l \in 1..k :
                        /\ posted'[l].msg = "PROC_KILLED"
                        /\ names[posted'[l].val + 1] = Filepaths[posted'[k].val + 1][2]
  BY <1>0 DEF KillTriedFirst, isExe
<1>2. CASE k \in 1..Len(posted)
  <2>1. posted'[k] = posted[k]
    BY <1>0, <1>2, Growth DEF Kept
  <2>2. PICK l \in 1..k :
          /\ posted[l].msg = "PROC_KILLED"
          /\ names[posted[l].val + 1] = Filepaths[posted[k].val + 1][2]
    BY <1>1, <1>2, <2>1 DEF KillTriedFirst
  <2>3. posted'[l] = posted[l]
    BY <1>0, <1>2, Growth DEF Kept
  <2> QED BY <2>1, <2>2, <2>3
<1>3. CASE k \notin 1..Len(posted)
  <2>1. k = Len(posted) + 1 /\ posted' # posted
    BY <1>0, <1>1, <1>3, Growth
  <2>2. PICK t \in Threads : run(t)
    BY <2>1, GuiSteps DEF Next
  <2>3. Sends(t, posted'[k])
    BY <1>0, <2>1, <2>2, PostStep
  <2>4. Delete(t) /\ posted'[k].val = at[t]
    BY <1>1, <2>3, SendsFrom
  <2>5. pc[t] = "delete"
    BY <2>4 DEF Delete
  <2>6. PICK l \in 1..Len(posted) :
           /\ posted[l].msg = "PROC_KILLED"
           /\ names[posted[l].val + 1] = Filepaths[at[t] + 1][2]
    BY <1>1, <2>4, <2>5, TriedBefore
  <2>7. l \in 1..k /\ posted'[l] = posted[l]
    BY <1>0, <2>1, Growth DEF Kept
  <2> QED BY <2>4, <2>6, <2>7
<1> QED BY <1>2, <1>3

\* When the names come in time, no thread deletes the file of a program before
\* its process has been looked for, in this repair or in any other.
THEOREM KilledBeforeDeleted ==
  ASSUME NamesInOrder
  PROVE  Spec => []KillTriedFirst
<1>1. Init => KillTriedFirst
  BY DEF Init, KillTriedFirst
<1>2. TypeInv /\ KillInv /\ ListInv /\ KillTriedFirst /\ [Next]_vars => KillTriedFirst'
  BY TriedFirstStep
<1> QED BY <1>1, <1>2, RepairInvariant, ListKept, KillInit, KillStep, PTL DEF Spec

-----------------------------------------------------------------------------
(* One repair: roles. *)

\* Requests are only added.
LEMMA RepairsGrow ==
  ASSUME TypeOK, [Next]_vars
  PROVE  repairs' <= 1 => repairs <= 1
<1>1. repairs \in Nat
  BY Bounds
<1>2. CASE RepairYes \/ RepairNo
  BY <1>1, <1>2 DEF RepairYes, RepairNo
<1>3. CASE repairs' = repairs
  BY <1>3
<1> QED BY <1>2, <1>3, GuiSteps, RunMoves DEF Next

\* The types that the arithmetic below needs.
LEMMA Numbers ==
  ASSUME TypeInv
  PROVE  /\ nThreads \in Nat /\ threadIndx \in Nat /\ rleft \in 0..2 /\ repairs \in Nat
         /\ Unswitched \in Int /\ 1 \in Threads /\ Threads \in SUBSET Nat
         /\ \A t \in Threads : t >= 1
         /\ rpc # "reset" => Unswitched = nThreads - threadIndx
         /\ rpc = "reset" => Unswitched = nThreads + 1 - threadIndx
<1>1. nThreads \in Nat /\ threadIndx \in Nat /\ rleft \in 0..2 /\ repairs \in Nat
  BY Bounds DEF TypeInv, TypeOK
<1>2. 1 \in Threads /\ Threads \in SUBSET Nat /\ \A t \in Threads : t >= 1
  BY RepairAssumption DEF Threads
<1> QED BY <1>1, <1>2 DEF Unswitched

\* Unswitched changes when a restore point is started, and with nothing else.
LEMMA UnswitchedStep ==
  ASSUME TypeInv, [Next]_vars
  PROVE  /\ RepairYes => nThreads' = nThreads + 1 /\ Unswitched' = Unswitched + 1
                           /\ rpc = "idle" /\ rpc' = "idle" /\ threadIndx' = threadIndx
         /\ ~RepairYes => Unswitched' = Unswitched
<1>0. /\ nThreads \in Nat /\ threadIndx \in Nat
      /\ rpc # "reset" => Unswitched = nThreads - threadIndx
      /\ rpc = "reset" => Unswitched = nThreads + 1 - threadIndx
  BY Numbers
<1>1. CASE RepairYes
  <2>1. nThreads' = nThreads + 1 /\ rpc' = "idle" /\ rpc = "idle" /\ threadIndx' = threadIndx
    BY <1>1 DEF RepairYes, start
  <2> QED BY <1>0, <1>1, <2>1 DEF Unswitched
<1>2. CASE SwitchWait
  <2>1. /\ nThreads' = nThreads /\ rpc' = "reset" /\ rpc = "wait"
        /\ threadIndx' = threadIndx + 1
    BY <1>2 DEF SwitchWait
  <2>2. Unswitched' = nThreads + 1 - (threadIndx + 1)
    BY <2>1 DEF Unswitched
  <2>3. ~RepairYes
    BY <2>1 DEF RepairYes
  <2> QED BY <1>0, <2>1, <2>2, <2>3
<1>3. CASE SwitchReset
  <2>1. /\ nThreads' = nThreads + 1 /\ rpc' \in {"idle", "set"} /\ rpc = "reset"
        /\ threadIndx' = threadIndx
    BY <1>3 DEF SwitchReset, start
  <2>2. Unswitched' = nThreads + 1 + 0 - threadIndx
    BY <2>1 DEF Unswitched
  <2>3. ~RepairYes
    BY <2>1 DEF RepairYes
  <2> QED BY <1>0, <2>1, <2>2, <2>3
<1>4. CASE ~RepairYes /\ ~SwitchWait /\ ~SwitchReset
  <2>1. /\ nThreads' = nThreads /\ threadIndx' = threadIndx
        /\ (rpc' = "reset" <=> rpc = "reset")
    BY <1>4, RunMoves DEF TypeInv, Next, RepairNo, _switch, SwitchSet,
       HandleAny, HandleSystem, HandleFile, HandleProc, HandleText, Handle, Exit
  <2> QED BY <1>4, <2>1 DEF Unswitched
<1> QED BY <1>1, <1>2, <1>3, <1>4

\* The first request finds the object untouched.
LEMMA FirstRequest ==
  ASSUME TypeInv, IndexInv, repairs = 0
  PROVE  /\ nThreads = 0 /\ threadIndx = 0 /\ Unswitched = 0 /\ Len(posted) = 0
         /\ ~hthidEvent /\ rpc = "idle" /\ \A t \in Threads : pc[t] = "off"
<1>1. nThreads = 0 /\ rpc = "idle" /\ Len(posted) = 0 /\ ~hthidEvent
  BY DEF IndexInv
<1>2. threadIndx \in {0, 2} /\ Unswitched = nThreads - threadIndx /\ Unswitched \in {0, 1}
  BY <1>1, Numbers DEF IndexInv
<1>3. threadIndx = 0 /\ Unswitched = 0
  BY <1>1, <1>2
<1>4. \A t \in Threads : pc[t] = "off"
  BY <1>1, Numbers DEF TypeInv, GuiInv
<1> QED BY <1>1, <1>3, <1>4

\* A restore point's message is answered before any _switch.
LEMMA AnsweredEarly ==
  ASSUME TypeInv, IndexInv, RestoreInv, HandleSystem
  PROVE  /\ threadIndx = 0 /\ nThreads = 1 /\ Unswitched = 1 /\ pc[1] = "done"
         /\ handled + 1 \in 1..Len(posted) /\ posted[handled + 1].msg = "SYSTEM"
<1>1. /\ handled + 1 \in 1..Len(posted) /\ posted[handled + 1].msg = "SYSTEM"
      /\ rpc = "idle" /\ handled + 1 > handled
  BY Bounds DEF HandleSystem, Handle, TypeInv
<1>2. Unswitched = 1 /\ pc[1] = "done" /\ nThreads = 1
  BY <1>1 DEF RestoreInv
<1>3. Unswitched = nThreads - threadIndx /\ threadIndx \in Nat
  BY <1>1, Numbers
<1> QED BY <1>1, <1>2, <1>3

\* IndexInv after a step of the one repair.
LEMMA IndexStep ==
  ASSUME TypeInv, IndexInv, RestoreInv, repairs <= 1, repairs' <= 1, [Next]_vars
  PROVE  IndexInv'
<1>0. /\ nThreads \in Nat /\ threadIndx \in Nat /\ rleft \in 0..2 /\ repairs \in Nat
      /\ TypeOK
  BY Numbers DEF TypeInv
<1>1. CASE RepairYes
  <2>1. repairs = 0 /\ repairs' = 1 /\ rpc' = "idle" /\ threadIndx' = threadIndx
    BY <1>0, <1>1 DEF RepairYes
  <2>2. threadIndx = 0 /\ Unswitched = 0
    BY <2>1, FirstRequest
  <2>3. Unswitched' = 1
    BY <1>1, <2>2, UnswitchedStep
  <2> QED BY <2>1, <2>2, <2>3 DEF IndexInv
<1>2. CASE RepairNo
  <2>1. repairs = 0 /\ repairs' = 1 /\ rpc' = "set" /\ rleft' = 2 /\ threadIndx' = threadIndx
    BY <1>0, <1>2 DEF RepairNo
  <2>2. threadIndx = 0 /\ Unswitched = 0
    BY <2>1, FirstRequest
  <2>3. Unswitched' = 0
    BY <1>2, <2>1, <2>2, UnswitchedStep DEF RepairYes
  <2> QED BY <2>1, <2>2, <2>3 DEF IndexInv
<1>3. CASE _switch
  <2>1. rpc \in {"set", "wait", "reset"} /\ repairs' = repairs /\ repairs # 0
    BY <1>3 DEF _switch, SwitchSet, SwitchWait, SwitchReset, IndexInv
  <2>2. Unswitched' \in {0, 1}
    BY <2>1, UnswitchedStep DEF RepairYes, IndexInv
  <2>3. CASE SwitchSet
    <3>1. rpc' = "wait" /\ rpc = "set" /\ UNCHANGED <<threadIndx, rleft>>
      BY <2>3 DEF SwitchSet
    <3> QED BY <2>1, <2>2, <3>1 DEF IndexInv
  <2>4. CASE SwitchWait
    <3>1. rpc' = "reset" /\ rpc = "wait" /\ threadIndx' = threadIndx + 1 /\ rleft' = rleft
      BY <2>4 DEF SwitchWait
    <3>2. threadIndx + rleft = 2
      BY <3>1 DEF IndexInv
    <3>3. threadIndx' + rleft' = 3
      BY <1>0, <3>1, <3>2
    <3> QED BY <2>1, <2>2, <3>1, <3>3 DEF IndexInv
  <2>5. CASE SwitchReset
    <3>1. /\ rpc = "reset" /\ threadIndx' = threadIndx /\ rleft' = rleft - 1
          /\ rpc' = IF rleft = 1 THEN "idle" ELSE "set"
      BY <2>5 DEF SwitchReset
    <3>2. threadIndx + rleft = 3
      BY <3>1 DEF IndexInv
    <3>3. threadIndx' + rleft' = 2 /\ (rleft = 1 => threadIndx' = 2)
      BY <1>0, <3>1, <3>2
    <3> QED BY <2>1, <2>2, <3>1, <3>3 DEF IndexInv
  <2> QED BY <1>3, <2>3, <2>4, <2>5 DEF _switch
<1>4. CASE HandleAny
  <2>1. repairs' = repairs /\ threadIndx' = threadIndx /\ rpc = "idle" /\ repairs # 0
        /\ rpc' \in {"idle", "crashed", "set"}
    BY <1>0, <1>4, Bounds DEF HandleAny, HandleSystem, HandleFile, HandleProc, HandleText, Handle, IndexInv
  <2>2. Unswitched' \in {0, 1}
    <3>1. ~RepairYes
      BY <1>0, <2>1 DEF RepairYes
    <3> QED BY <3>1, UnswitchedStep DEF IndexInv
  <2>3. CASE rpc' \in {"idle", "crashed"}
    BY <2>1, <2>2, <2>3 DEF IndexInv
  <2>4. CASE rpc' = "set"
    <3>1. HandleSystem /\ rleft' = 2
      BY <1>4, <2>1, <2>4 DEF HandleAny, HandleSystem, HandleFile, HandleProc, HandleText
    <3>2. threadIndx = 0
      BY <3>1, AnsweredEarly
    <3> QED BY <2>1, <2>2, <2>4, <3>1, <3>2 DEF IndexInv
  <2> QED BY <2>1, <2>3, <2>4
<1>5. CASE Exit \/ UNCHANGED vars
  <2>1. UNCHANGED <<repairs, rpc, rleft, threadIndx, nThreads, posted, hthidEvent>>
    BY <1>5 DEF Exit
  <2> QED BY <2>1, Zenon DEF IndexInv, Unswitched
<1>6. ASSUME NEW t \in Threads, run(t) PROVE IndexInv'
  <2>1. UNCHANGED <<repairs, rpc, rleft, threadIndx, nThreads>> /\ pc[t] # "off"
    BY <1>0, <1>6, RunMoves
  <2>2. repairs # 0
    BY <2>1, FirstRequest
  <2> QED BY <2>1, <2>2 DEF IndexInv, Unswitched
<1> QED BY <1>1, <1>2, <1>3, <1>4, <1>5, <1>6 DEF Next

\* RoleInv after a step: two threads are never given one role.
LEMMA RoleStep ==
  ASSUME TypeInv, IndexInv, RoleInv, RestoreInv, repairs <= 1, repairs' <= 1, [Next]_vars
  PROVE  RoleInv'
<1>0. /\ nThreads \in Nat /\ threadIndx \in Nat /\ repairs \in Nat /\ TypeOK /\ GuiInv
      /\ pc \in [Threads -> Points] /\ th \in [Threads -> Nat] /\ Threads' = Threads
      /\ Unswitched \in Int /\ Threads \in SUBSET Nat
  BY Numbers DEF TypeInv, TypeOK, Threads
<1>1. CASE RepairYes
  <2>1. repairs = 0 /\ start /\ UNCHANGED <<hthidEvent, rpc>> /\ rpc = "idle"
    BY <1>0, <1>1 DEF RepairYes
  <2>2. ~hthidEvent /\ nThreads = 0 /\ \A t \in Threads : pc[t] = "off"
    BY <2>1, FirstRequest
  <2>3. nThreads + 1 <= 3 * MaxRepairs
    BY <2>1, ThreadsEnough DEF start
  <2>4. /\ nThreads' = nThreads + 1
        /\ \A t \in Threads : t # nThreads + 1 => pc'[t] = pc[t]
        /\ nThreads + 1 \in Threads /\ pc'[nThreads + 1] = "new"
    BY <1>0, <2>1, <2>3, Started
  <2>5. \A t \in Threads : pc'[t] \in {"off", "new"} /\ (pc'[t] = "new" => t = nThreads')
    BY <2>2, <2>4
  <2> QED BY <1>0, <2>1, <2>2, <2>5 DEF RoleInv
<1>2. CASE SwitchReset
  <2>1. start /\ rpc = "reset" /\ rpc' # "reset" /\ ~hthidEvent' /\ th' = th
    BY <1>2 DEF SwitchReset
  <2>2. nThreads + 1 <= 3 * MaxRepairs
    BY <2>1, ThreadsEnough DEF start
  <2>3. /\ nThreads' = nThreads + 1
        /\ \A t \in Threads : t # nThreads + 1 => pc'[t] = pc[t]
        /\ nThreads + 1 \in Threads /\ pc'[nThreads + 1] = "new"
    BY <1>0, <2>1, <2>2, Started
  <2>4. \A t \in Threads : pc[t] \notin {"new", "signal"}
    BY <2>1 DEF RoleInv
  <2>5. Unswitched' = Unswitched
    BY <2>1, UnswitchedStep DEF RepairYes
  <2>6. \A t \in Threads : pc'[t] \in {"new", "signal"} => t = nThreads'
    BY <2>3, <2>4
  <2>7. \A t \in Threads : pc'[t] \notin {"off", "new"} => th'[t] = t - Unswitched'
    BY <2>1, <2>3, <2>5 DEF RoleInv
  <2> QED BY <1>0, <2>1, <2>6, <2>7, Zenon DEF RoleInv
<1>3. CASE SwitchSet
  <2>1. /\ UNCHANGED <<pc, th, nThreads, threadIndx>> /\ rpc = "set" /\ rpc' = "wait"
        /\ (hthidEvent' => hthidEvent \/ threadIndx = 0)
    BY <1>3 DEF SwitchSet
  <2>2. Unswitched' = Unswitched
    BY <2>1, UnswitchedStep DEF RepairYes
  <2>3. threadIndx = 0 => \A t \in Threads : pc[t] \notin {"new", "signal"}
    <3>1. SUFFICES ASSUME threadIndx = 0, NEW t \in Threads, pc[t] \in {"new", "signal"}
                   PROVE  FALSE
      OBVIOUS
    <3>2. t = nThreads /\ Unswitched = nThreads - threadIndx /\ Unswitched \in {0, 1} /\ t >= 1
      BY <2>1, <3>1, Numbers DEF RoleInv, IndexInv
    <3>3. t = 1 /\ Unswitched = 1
      BY <1>0, <3>1, <3>2
    <3>4. pc[1] = "done"
      BY <2>1, <3>3 DEF RestoreInv
    <3> QED BY <3>1, <3>3, <3>4
  <2>4. \A t \in Threads : pc[t] \in {"new", "signal"} => t = nThreads /\ ~hthidEvent'
    BY <2>1, <2>3 DEF RoleInv
  <2>5. \A t \in Threads : pc[t] \notin {"off", "new"} => th[t] = t - Unswitched
    BY DEF RoleInv
  <2> QED BY <1>0, <2>1, <2>2, <2>4, <2>5 DEF RoleInv
<1>4. CASE SwitchWait
  <2>1. /\ UNCHANGED <<pc, th, nThreads>> /\ hthidEvent /\ rpc = "wait"
    BY <1>4 DEF SwitchWait
  <2>2. Unswitched' = Unswitched
    BY <2>1, UnswitchedStep DEF RepairYes
  <2>3. \A t \in Threads : pc[t] \notin {"new", "signal"}
    BY <2>1 DEF RoleInv
  <2> QED BY <1>0, <2>1, <2>2, <2>3 DEF RoleInv
<1>5. CASE RepairNo \/ HandleAny \/ Exit \/ UNCHANGED vars
  <2>1. /\ UNCHANGED <<pc, th, nThreads, hthidEvent, threadIndx>> /\ (rpc' = "reset" <=> rpc = "reset")
    BY <1>5 DEF RepairNo, HandleAny, HandleSystem, HandleFile, HandleProc, HandleText, Handle, Exit
  <2>2. Unswitched' = Unswitched
    BY <2>1 DEF Unswitched
  <2>3. \A t \in Threads : pc[t] \notin {"off", "new"} => th[t] = t - Unswitched
    BY DEF RoleInv
  <2>4. \A t \in Threads : pc[t] \in {"new", "signal"} => t = nThreads /\ ~hthidEvent /\ rpc # "reset"
    BY DEF RoleInv
  <2> QED BY <1>0, <2>1, <2>2, <2>3, <2>4 DEF RoleInv
<1>6. ASSUME NEW t \in Threads, run(t) PROVE RoleInv'
  <2>1. /\ pc[t] \notin {"off", "done"} /\ pc'[t] \notin {"off", "new"}
        /\ \A u \in Threads : u # t => pc'[u] = pc[u] /\ th'[u] = th[u]
        /\ UNCHANGED <<rpc, nThreads, threadIndx>>
    BY <1>0, <1>6, RunMoves
  <2>2. Unswitched' = Unswitched
    BY <2>1 DEF Unswitched
  <2>3. th'[t] = t - Unswitched
    <3>1. CASE ReadIndex(t)
      <4>1. th'[t] = threadIndx /\ pc[t] = "new"
        BY <1>0, <3>1 DEF ReadIndex
      <4>2. t = nThreads /\ Unswitched = nThreads - threadIndx
        BY <4>1, Numbers DEF RoleInv
      <4> QED BY <1>0, <4>1, <4>2
    <3>2. CASE ~ReadIndex(t)
      <4>1. th' = th /\ pc[t] # "new"
        BY <1>6, <3>2 DEF run, RunAny, Signal, CountWait, CountBump, CountTake, Report, CreateRestore,
         RunFiles, ReadFiles, LockList, FilesOver, NextFile, Kill, Delete, RunKeys,
         ReadKeys, OpenKey, KeysOver, LockKey, DeleteValue, UnlockKey
      <4> QED BY <2>1, <4>1 DEF RoleInv
    <3> QED BY <3>1, <3>2
  <2>4. \A u \in Threads : pc'[u] \notin {"off", "new"} => th'[u] = u - Unswitched
    BY <2>1, <2>3 DEF RoleInv
  <2>5. \A u \in Threads : pc'[u] \in {"new", "signal"} => u = nThreads /\ ~hthidEvent' /\ rpc # "reset"
    <3>1. CASE Signal(t)
      <4>1. pc[t] = "signal" /\ pc'[t] # "signal"
        BY <1>0, <3>1 DEF Signal
      <4>2. \A u \in Threads : pc'[u] \notin {"new", "signal"}
        BY <2>1, <4>1 DEF RoleInv
      <4> QED BY <4>2
    <3>2. CASE ~Signal(t)
      <4>1. hthidEvent' = hthidEvent
        BY <1>6, <3>2 DEF run, RunAny, ReadIndex, CountWait, CountBump, CountTake, Report, CreateRestore,
         RunFiles, ReadFiles, LockList, FilesOver, NextFile, Kill, Delete, RunKeys,
         ReadKeys, OpenKey, KeysOver, LockKey, DeleteValue, UnlockKey
      <4>2. pc'[t] = "signal" => pc[t] = "new"
        BY <1>0, <1>6, <3>2 DEF run, RunAny, ReadIndex, CountWait, CountBump, CountTake, Report, CreateRestore,
         RunFiles, ReadFiles, LockList, FilesOver, NextFile, Kill, Delete, RunKeys,
         ReadKeys, OpenKey, KeysOver, LockKey, DeleteValue, UnlockKey
      <4>3. \A u \in Threads : pc'[u] \in {"new", "signal"} => pc[u] \in {"new", "signal"}
        BY <2>1, <4>2
      <4>4. \A u \in Threads : pc[u] \in {"new", "signal"} =>
              u = nThreads /\ ~hthidEvent /\ rpc # "reset"
        BY Zenon DEF RoleInv
      <4> QED BY <4>1, <4>3, <4>4, Zenon
    <3> QED BY <3>1, <3>2
  <2> QED BY <1>0, <2>1, <2>2, <2>4, <2>5, Zenon DEF RoleInv
<1> QED BY <1>1, <1>2, <1>3, <1>4, <1>5, <1>6 DEF Next, _switch

\* The threads of a role are one.
LEMMA OneThread ==
  ASSUME TypeInv, RoleInv, NEW t \in Threads, NEW u \in Threads,
         pc[t] \notin {"off", "new"}, pc[u] \notin {"off", "new"}, th[t] = th[u]
  PROVE  t = u
<1>1. th[t] = t - Unswitched /\ th[u] = u - Unswitched
  BY DEF RoleInv
<1>2. Unswitched \in Int /\ t \in Int /\ u \in Int
  BY Numbers
<1>3. \A x, y, z \in Int : x - z = y - z => x = y
  OBVIOUS
<1> QED BY <1>1, <1>2, <1>3

\* Who makes the restore point.
LEMMA RestoreFirst ==
  ASSUME TypeInv, IndexInv, RoleInv, RestoreInv, NEW t \in Threads, CreateRestore(t)
  PROVE  /\ t = 1 /\ Unswitched = 1 /\ pc[1] = "restore" /\ pc'[1] = "done"
         /\ nThreads = 1 /\ rpc \in {"idle", "crashed"}
         /\ \A i \in 1..Len(posted) : posted[i].msg # "SYSTEM"
<1>1. pc[t] = "restore" /\ pc'[t] = "done"
  BY DEF CreateRestore, TypeInv, TypeOK
<1>2. th[t] = 0 /\ th[t] = t - Unswitched
  BY <1>1 DEF RoleInv, TypeInv, PlaceInv
<1>3. t \in Nat /\ t >= 1 /\ Unswitched \in {0, 1}
  BY Numbers DEF IndexInv
<1>4. t = 1 /\ Unswitched = 1
  BY <1>2, <1>3
<1>5. pc[1] # "done"
  BY <1>1, <1>4
<1> QED BY <1>1, <1>4, <1>5 DEF RestoreInv

\* RestoreInv after a step: the restore point has a thread of its own, before.
LEMMA RestoreStep ==
  ASSUME TypeInv, IndexInv, RoleInv, RestoreInv, repairs <= 1, repairs' <= 1, [Next]_vars
  PROVE  RestoreInv'
<1> DEFINE Sys(i) == posted[i].msg = "SYSTEM"
<1>0. /\ nThreads \in Nat /\ repairs \in Nat /\ TypeOK /\ GuiInv
      /\ handled \in Nat /\ Len(posted) \in Nat /\ 1 \in Threads
      /\ pc \in [Threads -> Points]
  BY Numbers, Bounds DEF TypeInv, TypeOK
<1>1. CASE RepairYes
  <2>1. repairs = 0 /\ start /\ posted' = posted /\ rpc' = "idle"
    BY <1>0, <1>1 DEF RepairYes
  <2>2. Len(posted) = 0 /\ nThreads = 0
    BY <2>1, FirstRequest
  <2>3. nThreads' = 1
    BY <2>1, <2>2 DEF start
  <2> QED BY <2>1, <2>2, <2>3 DEF RestoreInv
<1>2. CASE RepairNo
  <2>1. repairs = 0 /\ posted' = posted
    BY <1>0, <1>2 DEF RepairNo
  <2>2. Len(posted) = 0 /\ Unswitched = 0
    BY <2>1, FirstRequest
  <2>3. Unswitched' = 0
    BY <1>2, <2>2, UnswitchedStep DEF RepairNo, RepairYes
  <2> QED BY <2>1, <2>2, <2>3 DEF RestoreInv
<1>3. CASE _switch
  <2>1. posted' = posted /\ handled' = handled /\ rpc \in {"set", "wait", "reset"}
    BY <1>3 DEF _switch, SwitchSet, SwitchWait, SwitchReset
  <2>2. Unswitched' = Unswitched
    BY <2>1, UnswitchedStep DEF RepairYes
  <2>3. Unswitched = 1 => pc[1] = "done"
    BY <2>1 DEF RestoreInv
  <2>4. pc[1] = "done" => pc'[1] = "done"
    <3>1. CASE SwitchReset
      <4>1. start /\ nThreads + 1 <= 3 * MaxRepairs
        BY <3>1, ThreadsEnough DEF SwitchReset, start
      <4>2. pc[nThreads + 1] = "off" /\ \A t \in Threads : t # nThreads + 1 => pc'[t] = pc[t]
        BY <1>0, <4>1, Started
      <4> QED BY <1>0, <4>2
    <3>2. CASE SwitchSet \/ SwitchWait
      BY <3>2 DEF SwitchSet, SwitchWait
    <3> QED BY <1>3, <3>1, <3>2 DEF _switch
  <2>5. \A i \in 1..Len(posted) : Sys(i) => Unswitched = 1 /\ ~(i > handled)
    BY <2>1 DEF RestoreInv
  <2>6. \A i, j \in 1..Len(posted) : Sys(i) /\ Sys(j) => i = j
    BY DEF RestoreInv
  <2> QED BY <2>1, <2>2, <2>3, <2>4, <2>5, <2>6 DEF RestoreInv
<1>4. CASE HandleAny
  <2>1. /\ posted' = posted /\ handled' = handled + 1 /\ pc' = pc /\ nThreads' = nThreads
        /\ rpc = "idle" /\ threadIndx' = threadIndx
    BY <1>4 DEF HandleAny, HandleSystem, HandleFile, HandleProc, HandleText, Handle
  <2>2. Unswitched' = Unswitched
    BY <1>0, <2>1, UnswitchedStep
  <2>3. \A i, j \in 1..Len(posted) : Sys(i) /\ Sys(j) => i = j
    BY DEF RestoreInv
  <2>4. \A i \in 1..Len(posted) : Sys(i) =>
          /\ Unswitched = 1 /\ pc[1] = "done" /\ (i > handled => nThreads = 1)
    BY DEF RestoreInv
  <2>5. CASE HandleSystem
    <3>1. Unswitched = 1 /\ pc[1] = "done" /\ handled + 1 \in 1..Len(posted) /\ Sys(handled + 1)
      BY <2>5, AnsweredEarly
    <3>2. \A i \in 1..Len(posted) : Sys(i) => ~(i > handled')
      BY <1>0, <2>1, <2>3, <3>1
    <3> QED BY <2>1, <2>2, <2>3, <2>4, <3>1, <3>2 DEF RestoreInv
  <2>6. CASE ~HandleSystem
    <3>1. rpc' \in {"idle", "crashed"}
      BY <1>4, <2>1, <2>6 DEF HandleAny, HandleFile, HandleProc, HandleText
    <3>2. Unswitched = 1 /\ pc[1] # "done" => nThreads = 1
      BY DEF RestoreInv
    <3>3. \A i \in 1..Len(posted) : i > handled' => i > handled
      BY <1>0, <2>1
    <3> QED BY <2>1, <2>2, <2>3, <2>4, <3>1, <3>2, <3>3 DEF RestoreInv
  <2> QED BY <2>5, <2>6
<1>5. CASE Exit \/ UNCHANGED vars
  <2>1. UNCHANGED <<posted, handled, pc, nThreads, rpc, threadIndx>>
    BY <1>5 DEF Exit
  <2> QED BY <2>1, Zenon DEF RestoreInv, Unswitched
<1>6. ASSUME NEW t \in Threads, run(t) PROVE RestoreInv'
  <2>1. /\ pc[t] \notin {"off", "done"} /\ pc'[t] \notin {"off", "new"}
        /\ \A u \in Threads : u # t => pc'[u] = pc[u]
        /\ UNCHANGED <<rpc, nThreads, threadIndx, handled>>
    BY <1>0, <1>6, RunMoves
  <2>2. Unswitched' = Unswitched
    BY <2>1 DEF Unswitched
  <2>3. pc[1] = "done" => pc'[1] = "done"
    BY <1>0, <2>1
  <2>4. Unswitched = 1 /\ pc[1] # "done" => nThreads = 1 /\ rpc \in {"idle", "crashed"}
    BY DEF RestoreInv
  <2>5. \A i \in 1..Len(posted) : Sys(i) =>
          /\ Unswitched = 1 /\ pc[1] = "done"
          /\ (i > handled => nThreads = 1 /\ rpc \in {"idle", "crashed"})
    BY DEF RestoreInv
  <2>6. \A i, j \in 1..Len(posted) : Sys(i) /\ Sys(j) => i = j
    BY DEF RestoreInv
  <2>7. CASE CreateRestore(t)
    <3>1. /\ Unswitched = 1 /\ pc'[1] = "done" /\ nThreads = 1 /\ rpc \in {"idle", "crashed"}
          /\ \A i \in 1..Len(posted) : ~Sys(i)
      BY <2>7, RestoreFirst
    <3>2. Len(posted') = Len(posted) + 1 /\ Kept
      BY <1>0, <1>6, <2>7, PostStep
    <3>3. \A i \in 1..Len(posted') : posted'[i].msg = "SYSTEM" => i = Len(posted) + 1
      BY <1>0, <3>1, <3>2 DEF Kept
    <3> QED BY <2>1, <2>2, <3>1, <3>3 DEF RestoreInv
  <2>8. CASE ~CreateRestore(t)
    <3>1. \A i \in 1..Len(posted') : posted'[i].msg = "SYSTEM" => i \in 1..Len(posted) /\ Sys(i)
      <4>1. CASE posted' = posted
        BY <4>1
      <4>2. CASE /\ Len(posted') = Len(posted) + 1 /\ Kept
                 /\ Sends(t, posted'[Len(posted) + 1])
        <5>1. posted'[Len(posted) + 1].msg # "SYSTEM"
          BY <2>8, <4>2, SendsFrom
        <5> QED BY <1>0, <4>2, <5>1 DEF Kept
      <4> QED BY <1>0, <1>6, <4>1, <4>2, PostStep
    <3> QED BY <2>1, <2>2, <2>3, <2>4, <2>5, <2>6, <3>1 DEF RestoreInv
  <2> QED BY <2>7, <2>8
<1> QED BY <1>1, <1>2, <1>3, <1>4, <1>5, <1>6 DEF Next

\* OneRepairInv at the start.
LEMMA OneRepairInit ==
  ASSUME Init
  PROVE  OneRepairInv
<1>1. /\ nThreads = 0 /\ threadIndx = 0 /\ rpc = "idle" /\ Len(posted) = 0 /\ rleft = 0
      /\ hthidEvent = FALSE /\ pc = [t \in Threads |-> "off"] /\ 1 \in Threads
  BY RepairAssumption DEF Init, Threads
<1>2. Unswitched = 0
  BY <1>1 DEF Unswitched
<1>3. IndexInv
  BY <1>1, <1>2 DEF IndexInv
<1>4. RoleInv
  BY <1>1 DEF RoleInv
<1>5. RestoreInv
  BY <1>1, <1>2 DEF RestoreInv
<1> QED BY <1>3, <1>4, <1>5 DEF OneRepairInv

\* OneRepairInv after a step; nothing is claimed once there are two repairs.
LEMMA OneRepairStep ==
  ASSUME TypeInv, OneRepairInv, [Next]_vars
  PROVE  OneRepairInv'
<1>1. SUFFICES ASSUME repairs' <= 1
               PROVE  IndexInv' /\ RoleInv' /\ RestoreInv'
  BY DEF OneRepairInv
<1>2. repairs <= 1
  BY <1>1, RepairsGrow DEF TypeInv
<1>3. IndexInv /\ RoleInv /\ RestoreInv
  BY <1>2 DEF OneRepairInv
<1> QED BY <1>1, <1>2, <1>3, IndexStep, RoleStep, RestoreStep

-----------------------------------------------------------------------------
(* One repair: the end.                                                      *)

\* A worker stays one, keeps its role, and counts itself once.
LEMMA WorkerStep ==
  ASSUME TypeInv, [Next]_vars, NEW u \in Threads
  PROVE  /\ Worker(u) => Worker(u)' /\ th'[u] = th[u]
         /\ Counted(u) => Counted(u)'
         /\ Over(u) => Over(u)' /\ indx'[u] = indx[u]
         /\ Worker(u) /\ pc[u] = "done" => pc'[u] = "done"
         /\ Counted(u)' => Counted(u) \/ CountBump(u)
         /\ Over(u)' => Over(u) \/ CountTake(u)
<1> USE DEF Worker, Counted, Over
<1>0. /\ TypeOK /\ GuiInv /\ PlaceInv /\ pc \in [Threads -> Points] /\ th \in [Threads -> Nat]
      /\ indx \in [Threads -> Nat]
  BY DEF TypeInv, TypeOK
<1>1. CASE RepairYes \/ RepairNo \/ _switch \/ HandleAny \/ Exit
  <2>1. th' = th /\ indx' = indx
    BY <1>1, GuiSteps
  <2>2. CASE pc' = pc
    BY <2>1, <2>2
  <2>3. CASE start
    <3>1. nThreads + 1 <= 3 * MaxRepairs
      BY <2>3, ThreadsEnough DEF start
    <3> QED BY <1>0, <2>1, <2>3, <3>1, Started
  <2> QED BY <1>1, <2>2, <2>3, GuiSteps
<1>2. ASSUME NEW t \in Threads, run(t), t # u
      PROVE  pc'[u] = pc[u] /\ th'[u] = th[u] /\ indx'[u] = indx[u]
  BY <1>0, <1>2, RunMoves
<1>3. CASE ReadIndex(u)
  BY <1>0, <1>3 DEF ReadIndex
<1>4. CASE Signal(u)
  BY <1>0, <1>4 DEF Signal
<1>5. CASE CountWait(u) \/ CreateRestore(u)
  BY <1>0, <1>5 DEF CountWait, CreateRestore, PlaceInv
<1>6. CASE CountBump(u)
  BY <1>0, <1>6 DEF CountBump
<1>7. CASE CountTake(u)
  BY <1>0, <1>7 DEF CountTake
<1>8. CASE Report(u)
  BY <1>0, <1>8 DEF Report
<1>9. CASE RunFiles(u)
  BY <1>0, <1>9 DEF RunFiles, ReadFiles, LockList, FilesOver, NextFile, Kill, Delete
<1>10. CASE RunKeys(u)
  BY <1>0, <1>10 DEF RunKeys, ReadKeys, OpenKey, KeysOver, LockKey, DeleteValue, UnlockKey
<1>11. CASE UNCHANGED vars
  BY <1>11
<1> QED BY <1>1, <1>2, <1>3, <1>4, <1>5, <1>6, <1>7, <1>8, <1>9, <1>10, <1>11
        DEF Next, run, RunAny

\* threadDone changes only where a worker counts itself.
LEMMA DoneCounter ==
  ASSUME TypeInv, [Next]_vars
  PROVE  threadDone' = threadDone \/ \E t \in Threads : CountBump(t)
<1>1. CASE RepairYes \/ RepairNo \/ _switch \/ HandleAny \/ Exit
  BY <1>1, GuiSteps
<1>2. ASSUME NEW t \in Threads, run(t), ~CountBump(t)
      PROVE  threadDone' = threadDone
  BY <1>2 DEF run, RunAny, ReadIndex, Signal, CountWait, CountTake, Report, CreateRestore,
     RunFiles, ReadFiles, LockList, FilesOver, NextFile, Kill, Delete, RunKeys,
     ReadKeys, OpenKey, KeysOver, LockKey, DeleteValue, UnlockKey
<1>3. CASE UNCHANGED vars
  BY <1>3
<1> QED BY <1>1, <1>2, <1>3 DEF Next

\* Whether the thread of a role has been counted, after a step.
LEMMA FinishedStep ==
  ASSUME TypeInv, [Next]_vars, NEW r \in {1, 2}
  PROVE  /\ Finished(r) => Finished(r)'
         /\ Finished(r)' => Finished(r) \/ \E t \in Threads : CountBump(t) /\ th[t] = r
<1>0. Threads' = Threads /\ r' = r
  BY DEF Threads
<1>1. ASSUME Finished(r)
      PROVE  Finished(r)'
  <2>1. PICK t \in Threads : Counted(t) /\ th[t] = r
    BY <1>1 DEF Finished
  <2>2. Counted(t)' /\ th'[t] = r
    BY <2>1, WorkerStep DEF Counted
  <2> QED BY <1>0, <2>2 DEF Finished
<1>2. ASSUME Finished(r)'
      PROVE  Finished(r) \/ \E t \in Threads : CountBump(t) /\ th[t] = r
  <2>1. PICK t \in Threads : Counted(t)' /\ th'[t] = r
    BY <1>0, <1>2 DEF Finished
  <2>2. CASE CountBump(t)
    <3>1. th' = th
      BY <2>2 DEF CountBump
    <3> QED BY <2>1, <2>2, <3>1
  <2>3. CASE Counted(t)
    <3>1. th'[t] = th[t]
      BY <2>3, WorkerStep DEF Counted
    <3> QED BY <2>1, <2>3, <3>1 DEF Finished
  <2> QED BY <2>1, <2>2, <2>3, WorkerStep
<1> QED BY <1>1, <1>2

\* A thread that is not counted is the one of its role.
LEMMA NotFinished ==
  ASSUME TypeInv, RoleInv, NEW t \in Threads, pc[t] \notin {"off", "new"}, ~Counted(t)
  PROVE  ~Finished(th[t])
<1>1. SUFFICES ASSUME NEW u \in Threads, Counted(u), th[u] = th[t]
               PROVE  FALSE
  BY DEF Finished
<1>2. pc[u] \notin {"off", "new"}
  BY <1>1 DEF Counted, Worker
<1>3. u = t
  BY <1>1, <1>2, OneThread
<1> QED BY <1>1, <1>3

\* The values of threadDone, and who has finished at each.
LEMMA CountedDone ==
  ASSUME CountInv
  PROVE  /\ threadDone \in {0, 1, 2}
         /\ threadDone = 2 => Finished(1) /\ Finished(2)
         /\ Finished(1) \/ Finished(2) => threadDone >= 1
BY DEF CountInv

\* threadDone counts the roles that are finished.
LEMMA DoneStep ==
  ASSUME TypeInv, RoleInv, CountInv, [Next]_vars
  PROVE  threadDone' = (IF Finished(1)' THEN 1 ELSE 0) + (IF Finished(2)' THEN 1 ELSE 0)
<1>0. threadDone = (IF Finished(1) THEN 1 ELSE 0) + (IF Finished(2) THEN 1 ELSE 0)
  BY DEF CountInv
<1>1. ASSUME NEW t \in Threads, CountBump(t)
      PROVE  threadDone' = (IF Finished(1)' THEN 1 ELSE 0) + (IF Finished(2)' THEN 1 ELSE 0)
  <2>1. /\ pc[t] = "bump" /\ pc'[t] = "take" /\ th' = th /\ threadDone' = threadDone + 1
        /\ \A u \in Threads : u # t => pc'[u] = pc[u]
    BY <1>1 DEF CountBump, TypeInv, TypeOK
  <2>2. th[t] \in {1, 2} /\ ~Counted(t)
    BY <2>1 DEF TypeInv, PlaceInv, Counted
  <2>3. ~Finished(th[t])
    BY <2>1, <2>2, NotFinished
  <2>4. Finished(th[t])'
    <3>1. Counted(t)' /\ Threads' = Threads
      BY <2>1, <2>2 DEF Counted, Worker, Threads
    <3>2. \E u \in Threads : Counted(u)' /\ th'[u] = th'[t]
      BY <3>1
    <3> QED BY <3>1, <3>2 DEF Finished
  <2>5. \A u \in Threads : CountBump(u) => u = t
    <3>1. \A u \in Threads : CountBump(u) => pc[u] = "bump" /\ pc'[u] = "take"
      BY DEF CountBump, TypeInv, TypeOK
    <3> QED BY <2>1, <3>1
  <2>6. CASE th[t] = 1
    <3>1. ~Finished(1) /\ Finished(1)'
      BY <2>1, <2>3, <2>4, <2>6
    <3>2. Finished(2)' <=> Finished(2)
      BY <2>5, <2>6, FinishedStep
    <3> QED BY <1>0, <2>1, <3>1, <3>2
  <2>7. CASE th[t] = 2
    <3>1. ~Finished(2) /\ Finished(2)'
      BY <2>1, <2>3, <2>4, <2>7
    <3>2. Finished(1)' <=> Finished(1)
      BY <2>5, <2>7, FinishedStep
    <3> QED BY <1>0, <2>1, <3>1, <3>2
  <2> QED BY <2>2, <2>6, <2>7
<1>2. CASE \A t \in Threads : ~CountBump(t)
  <2>1. threadDone' = threadDone
    BY <1>2, DoneCounter
  <2>2. (Finished(1)' <=> Finished(1)) /\ (Finished(2)' <=> Finished(2))
    BY <1>2, FinishedStep
  <2> QED BY <1>0, <2>1, <2>2
<1> QED BY <1>1, <1>2

\* The counts the threads take are different.
LEMMA CountsStep ==
  ASSUME TypeInv, RoleInv, LockDiscipline, CountInv, [Next]_vars
  PROVE  /\ \A t \in Threads : Over(t)' => indx'[t] \in 1..threadDone'
         /\ \A t, u \in Threads : Over(t)' /\ Over(u)' /\ indx'[t] = indx'[u] => t = u
         /\ \A t, u \in Threads : pc'[t] = "take" /\ Over(u)' => indx'[u] < threadDone'
<1>0. /\ threadDone \in Nat /\ pc \in [Threads -> Points] /\ indx \in [Threads -> Nat]
      /\ \A t \in Threads : Over(t) => indx[t] \in 1..threadDone
      /\ \A t, u \in Threads : Over(t) /\ Over(u) /\ indx[t] = indx[u] => t = u
      /\ \A t, u \in Threads : pc[t] = "take" /\ Over(u) => indx[u] < threadDone
  BY DEF CountInv, TypeInv, TypeOK
<1>1. ASSUME NEW t \in Threads, CountTake(t)
      PROVE  /\ pc[t] = "take" /\ pc'[t] = "report" /\ indx'[t] = threadDone
             /\ threadDone' = threadDone /\ threadDone >= 1
             /\ \A u \in Threads : u # t =>
                  pc'[u] = pc[u] /\ pc[u] # "take" /\ indx'[u] = indx[u] /\ ~CountTake(u)
  <2>1. /\ pc[t] = "take" /\ pc'[t] = "report" /\ indx'[t] = threadDone
        /\ threadDone' = threadDone
        /\ \A u \in Threads : u # t => pc'[u] = pc[u] /\ indx'[u] = indx[u]
    BY <1>0, <1>1 DEF CountTake
  <2>2. \A u \in Threads : u # t => pc[u] # "take"
    BY <2>1 DEF LockDiscipline
  <2>3. threadDone >= 1
    <3>1. th[t] \in {1, 2} /\ Counted(t)
      BY <2>1 DEF TypeInv, PlaceInv, Counted, Worker
    <3>2. Finished(1) \/ Finished(2)
      BY <3>1 DEF Finished
    <3> QED BY <3>2, CountedDone
  <2> QED BY <2>1, <2>2, <2>3 DEF CountTake
<1>2. \A u \in Threads : Over(u) => Over(u)' /\ indx'[u] = indx[u]
  BY WorkerStep
<1>3. \A u \in Threads : Over(u)' => Over(u) \/ CountTake(u)
  BY WorkerStep
<1>4. threadDone' >= threadDone /\ threadDone' \in Nat
  BY <1>0, DoneCounter DEF CountBump
<1>5. CASE \E t \in Threads : CountTake(t)
  <2>1. PICK t \in Threads : CountTake(t)
    BY <1>5
  <2>2. \A u \in Threads : u # t => (Over(u)' => Over(u) /\ indx'[u] = indx[u] /\ indx[u] < threadDone)
    BY <1>0, <1>1, <1>3, <2>1
  <2>3. \A u \in Threads : pc'[u] # "take"
    BY <1>1, <2>1
  <2>4. indx'[t] = threadDone /\ threadDone' = threadDone /\ threadDone >= 1
    BY <1>1, <2>1
  <2>5. \A u \in Threads : Over(u)' => indx'[u] \in 1..threadDone'
    BY <1>0, <2>2, <2>4
  <2>6. \A u, v \in Threads : Over(u)' /\ Over(v)' /\ indx'[u] = indx'[v] => u = v
    <3>1. SUFFICES ASSUME NEW u \in Threads, NEW v \in Threads, Over(u)', Over(v)',
                          indx'[u] = indx'[v], u # v
                   PROVE  FALSE
      OBVIOUS
    <3>2. CASE u # t /\ v # t
      BY <1>0, <2>2, <3>1, <3>2
    <3>3. CASE u = t
      <4>1. v # t /\ indx'[v] < threadDone /\ indx'[v] = threadDone
        BY <2>2, <2>4, <3>1, <3>3
      <4> QED BY <1>0, <4>1
    <3>4. CASE v = t
      <4>1. u # t /\ indx'[u] < threadDone /\ indx'[u] = threadDone
        BY <2>2, <2>4, <3>1, <3>4
      <4> QED BY <1>0, <4>1
    <3> QED BY <3>2, <3>3, <3>4
  <2> QED BY <2>3, <2>5, <2>6
<1>6. CASE \A t \in Threads : ~CountTake(t)
  <2>1. \A u \in Threads : Over(u)' => Over(u) /\ indx'[u] = indx[u]
    BY <1>2, <1>3, <1>6
  <2>2. \A u \in Threads : Over(u)' => indx'[u] \in 1..threadDone'
    BY <1>0, <1>4, <2>1
  <2>3. ASSUME NEW t \in Threads, NEW u \in Threads, pc'[t] = "take", Over(u)'
        PROVE  indx'[u] < threadDone'
    <3>1. indx'[u] = indx[u] /\ indx[u] \in 1..threadDone /\ Over(u)
      BY <1>0, <2>1, <2>3
    <3>2. CASE pc[t] = "take"
      <4>1. indx[u] < threadDone
        BY <1>0, <3>1, <3>2
      <4> QED BY <1>0, <1>4, <3>1, <4>1
    <3>3. CASE CountBump(t)
      <4>1. threadDone' = threadDone + 1
        BY <3>3 DEF CountBump
      <4> QED BY <1>0, <3>1, <4>1
    <3>4. pc[t] = "take" \/ CountBump(t)
      <4>1. CASE Worker(t)' /\ ~Counted(t)
        <5>1. Counted(t)'
          BY <2>3, <4>1 DEF Counted
        <5> QED BY <4>1, <5>1, WorkerStep
      <4>2. CASE Counted(t)
        <5>1. ~Over(t)
          <6>1. Over(t) => pc'[t] \in {"report", "done"}
            BY <1>2 DEF Over
          <6> QED BY <2>3, <6>1
        <5> QED BY <4>2, <5>1 DEF Counted, Over
      <4>3. Worker(t)'
        <5>1. TypeInv'
          BY TypeStep
        <5>2. th'[t] \in {1, 2}
          BY <2>3, <5>1 DEF TypeInv, PlaceInv, Threads
        <5> QED BY <2>3, <5>2 DEF Worker
      <4> QED BY <4>1, <4>2, <4>3
    <3> QED BY <3>2, <3>3, <3>4
  <2> QED BY <1>0, <2>1, <2>2, <2>3
<1> QED BY <1>5, <1>6

\* Who posts WM_PAYLOAD_DONE.
LEMMA Reporter ==
  ASSUME TypeInv, CountInv, NEW t \in Threads, Report(t), BothDone(t)
  PROVE  /\ Over(t) /\ indx[t] = 2 /\ threadDone = 2
         /\ Worker(t)' /\ pc'[t] = "done" /\ indx'[t] = 2
<1>1. pc[t] = "report" /\ pc'[t] = "done" /\ th' = th /\ indx' = indx
  BY DEF Report, TypeInv, TypeOK
<1>2. Over(t) /\ th[t] \in {1, 2}
  BY <1>1 DEF TypeInv, PlaceInv, Over, Worker
<1>3. indx[t] \in 1..threadDone /\ threadDone \in {0, 1, 2} /\ indx[t] >= 2
  BY <1>2, CountedDone DEF CountInv, BothDone
<1> QED BY <1>1, <1>2, <1>3 DEF Worker

\* WM_PAYLOAD_DONE is posted by a worker that has counted two.
LEMMA SentStep ==
  ASSUME TypeInv, CountInv, [Next]_vars, Sent("PAYLOAD_DONE")'
  PROVE  \E t \in Threads : Worker(t)' /\ pc'[t] = "done" /\ indx'[t] = 2
<1>0. TypeOK /\ Len(posted) \in Nat
  BY Bounds DEF TypeInv
<1>1. CASE Sent("PAYLOAD_DONE")
  <2>1. PICK t \in Threads : Worker(t) /\ pc[t] = "done" /\ indx[t] = 2
    BY <1>1 DEF CountInv
  <2>2. Over(t)
    BY <2>1 DEF Over
  <2>3. Worker(t)' /\ pc'[t] = "done" /\ indx'[t] = 2
    BY <2>1, <2>2, WorkerStep
  <2> QED BY <2>3
<1>2. CASE ~Sent("PAYLOAD_DONE")
  <2>1. PICK k \in 1..Len(posted') : posted'[k].msg = "PAYLOAD_DONE"
    BY DEF Sent
  <2>2. k = Len(posted) + 1 /\ posted' # posted
    BY <1>0, <1>2, <2>1, Growth DEF Kept, Sent
  <2>3. PICK t \in Threads : run(t)
    BY <2>2, GuiSteps DEF Next
  <2>4. Report(t) /\ BothDone(t)
    BY <1>0, <2>1, <2>2, <2>3, PostStep, SendsFrom
  <2> QED BY <2>4, Reporter
<1> QED BY <1>1, <1>2

\* After WM_PAYLOAD_DONE both roles are finished, and nobody sends but the thread
\* of a restore point.
LEMMA NothingAfter ==
  ASSUME TypeInv, RoleInv, CountInv, Sent("PAYLOAD_DONE"), NEW t \in Threads, run(t),
         NEW m, Sends(t, m)
  PROVE  m.msg = "SYSTEM"
<1>1. PICK w \in Threads : Worker(w) /\ pc[w] = "done" /\ indx[w] = 2
  BY DEF CountInv
<1>2. Over(w)
  BY <1>1 DEF Over
<1>3. indx[w] \in 1..threadDone /\ threadDone \in {0, 1, 2}
  BY <1>2, CountedDone DEF CountInv
<1>4. threadDone = 2
  BY <1>1, <1>3
<1>5. Finished(1) /\ Finished(2)
  BY <1>4, CountedDone
<1>6. ASSUME pc[t] \in {"kill", "delete", "value"}
      PROVE  FALSE
  <2>1. th[t] \in {1, 2} /\ ~Counted(t)
    BY <1>6 DEF TypeInv, PlaceInv, Counted
  <2>2. ~Finished(th[t])
    BY <1>6, <2>1, NotFinished
  <2> QED BY <1>5, <2>1, <2>2
<1>7. ~Kill(t) /\ ~Delete(t) /\ ~DeleteValue(t)
  BY <1>6 DEF Kill, Delete, DeleteValue
<1>8. ~(Report(t) /\ BothDone(t))
  <2>1. SUFFICES ASSUME Report(t), BothDone(t)
                 PROVE  FALSE
    OBVIOUS
  <2>2. Over(t) /\ indx[t] = 2 /\ pc[t] = "report"
    BY <2>1, Reporter DEF Report
  <2>3. t = w
    BY <1>1, <1>2, <2>2 DEF CountInv
  <2> QED BY <1>1, <2>2, <2>3
<1> QED BY <1>7, <1>8 DEF Sends

\* DoneIsLast after a step: who has finished posts no more.
LEMMA LastStep ==
  ASSUME TypeInv, RoleInv, CountInv, DoneIsLast, [Next]_vars
  PROVE  DoneIsLast'
<1>0. TypeOK /\ Len(posted) \in Nat /\ Len(posted') \in {Len(posted), Len(posted) + 1} /\ Kept
  BY Growth DEF TypeInv
<1>1. SUFFICES ASSUME NEW k \in 1..Len(posted'), NEW l \in 1..Len(posted'),
                      posted'[k].msg = "PAYLOAD_DONE", k < l
               PROVE  posted'[l].msg = "SYSTEM"
  BY DEF DoneIsLast
<1>2. k \in 1..Len(posted) /\ posted[k].msg = "PAYLOAD_DONE"
  BY <1>0, <1>1 DEF Kept
<1>3. CASE l \in 1..Len(posted)
  BY <1>0, <1>1, <1>2, <1>3 DEF Kept, DoneIsLast
<1>4. CASE l \notin 1..Len(posted)
  <2>1. l = Len(posted) + 1 /\ posted' # posted
    BY <1>0, <1>1, <1>4
  <2>2. PICK t \in Threads : run(t)
    BY <2>1, GuiSteps DEF Next
  <2>3. Sends(t, posted'[l])
    BY <1>0, <2>1, <2>2, PostStep
  <2>4. Sent("PAYLOAD_DONE")
    BY <1>2 DEF Sent
  <2> QED BY <2>2, <2>3, <2>4, NothingAfter
<1> QED BY <1>3, <1>4

\* TallyInv at the start.
LEMMA TallyInit ==
  ASSUME Init
  PROVE  TallyInv
<1>1. /\ threadDone = 0 /\ posted = <<>> /\ pc = [t \in Threads |-> "off"]
  BY DEF Init
<1>2. \A t \in Threads : ~Worker(t) /\ ~Counted(t) /\ ~Over(t) /\ pc[t] # "take"
  BY <1>1 DEF Worker, Counted, Over
<1>3. ~Finished(1) /\ ~Finished(2)
  BY <1>2 DEF Finished
<1>4. ~Sent("PAYLOAD_DONE")
  BY <1>1 DEF Sent
<1>5. CountInv
  BY <1>1, <1>2, <1>3, <1>4 DEF CountInv
<1>6. DoneIsLast
  BY <1>1 DEF DoneIsLast
<1> QED BY <1>5, <1>6 DEF TallyInv

\* TallyInv after a step; nothing is claimed once there are two repairs.
LEMMA TallyStep ==
  ASSUME TypeInv, OneRepairInv, LockDiscipline, TallyInv, [Next]_vars
  PROVE  TallyInv'
<1>1. SUFFICES ASSUME repairs' <= 1
               PROVE  CountInv' /\ DoneIsLast'
  BY DEF TallyInv
<1>2. repairs <= 1
  BY <1>1, RepairsGrow DEF TypeInv
<1>3. RoleInv /\ CountInv /\ DoneIsLast
  BY <1>2 DEF OneRepairInv, TallyInv
<1>4. threadDone' = (IF Finished(1)' THEN 1 ELSE 0) + (IF Finished(2)' THEN 1 ELSE 0)
  BY <1>3, DoneStep
<1>5. /\ \A t \in Threads : Over(t)' => indx'[t] \in 1..threadDone'
      /\ \A t, u \in Threads : Over(t)' /\ Over(u)' /\ indx'[t] = indx'[u] => t = u
      /\ \A t, u \in Threads : pc'[t] = "take" /\ Over(u)' => indx'[u] < threadDone'
  BY <1>3, CountsStep
<1>6. Sent("PAYLOAD_DONE")' =>
        \E t \in Threads : Worker(t)' /\ pc'[t] = "done" /\ indx'[t] = 2
  BY <1>3, SentStep
<1>7. Threads' = Threads
  BY DEF Threads
<1>8. CountInv'
  BY <1>4, <1>5, <1>6, <1>7 DEF CountInv
<1> QED BY <1>3, <1>8, LastStep

\* A repair asked for once: WM_PAYLOAD_DONE is the last thing it says, but for a
\* restore point's result, and it says it when both roles have been counted.
THEOREM EndIsTheEnd == Spec /\ [](repairs <= 1) => []DoneIsLast
<1>1. TallyInv /\ repairs <= 1 => DoneIsLast
  BY DEF TallyInv
<1>2. LockDiscipline /\ TypeInv /\ OneRepairInv /\ TallyInv /\ [Next]_vars => TallyInv'
  BY TallyStep
<1>3. TypeInv /\ OneRepairInv /\ [Next]_vars => OneRepairInv'
  BY OneRepairStep
<1>4. Init => OneRepairInv /\ TallyInv
  BY OneRepairInit, TallyInit
<1> QED BY <1>1, <1>2, <1>3, <1>4, RepairInvariant, LocksKept, PTL DEF Spec

-----------------------------------------------------------------------------
(* What is left of the files and of the registry.                            *)

\* A step of one thread leaves the others where they are.
LEMMA OthersKeep ==
  ASSUME TypeOK, NEW t \in Threads, run(t), NEW u \in Threads, u # t
  PROVE  /\ at'[u] = at[u] /\ value'[u] = value[u] /\ tm'[u] = tm[u] /\ key'[u] = key[u]
         /\ pc'[u] = pc[u] /\ th'[u] = th[u]
<1>1. pc'[u] = pc[u] /\ th'[u] = th[u]
  BY RunMoves
<1>2. /\ at \in [Threads -> Nat] /\ value \in [Threads -> Nat]
      /\ tm \in [Threads -> Paths \cup {Junk}] /\ key \in [Threads -> OpenKeys \cup {NoKey}]
  BY DEF TypeOK
<1>3. CASE RunAny(t)
  BY <1>1, <1>3 DEF RunAny, ReadIndex, Signal, CountWait, CountBump, CountTake, Report,
                    CreateRestore
<1>4. CASE RunFiles(t)
  BY <1>1, <1>2, <1>4 DEF RunFiles, ReadFiles, LockList, FilesOver, NextFile, Kill, Delete
<1>5. CASE RunKeys(t)
  BY <1>1, <1>2, <1>5 DEF RunKeys, ReadKeys, OpenKey, KeysOver, LockKey, DeleteValue,
                          UnlockKey
<1> QED BY <1>3, <1>4, <1>5 DEF run

\* The names that processes run under are names of programs, among those the
\* list holds.
Programs ==
  \A i \in 1..Len(FoundPaths) : FoundPaths[i][2] \in Running => isExe(FoundPaths[i][2])

\* What is gone from the disk, or cannot be deleted, stays so.
LEMMA CleanedStays ==
  ASSUME [Next]_vars, NEW p, Cleaned(p)
  PROVE  Cleaned(p)'
<1>1. disk' \subseteq disk
  BY NoneStarts
<1> QED BY <1>1 DEF Cleaned

\* A path is not what an overwritten array holds.
LEMMA PathNotJunk ==
  ASSUME NEW p \in Paths
  PROVE  p # Junk
<1>1. PICK d \in Dirs, f \in Files : p = <<d, f>>
  BY DEF Paths
<1>2. Len(<<d, f>>) = 2 /\ Len(Junk) = 0
  BY DEF Junk
<1> QED BY <1>1, <1>2

\* DeleteFile leaves the file only where it must.
LEMMA DeleteCleans ==
  ASSUME TypeInv, KillInv, ListInv, NamesInOrder, Programs, FilesInv, ~hindered,
         NEW t \in Threads, Delete(t), NEW p, p = Filepaths[at[t] + 1]
  PROVE  Cleaned(p)'
<1>0. TypeOK /\ LoopInv /\ pc[t] = "delete"
  BY DEF TypeInv, Delete
<1>1. tm[t] = p /\ dying = {}
  BY <1>0 DEF FilesInv, Taking, ListInv
<1>2. p \in Paths /\ at[t] + 1 \in 1..Len(FoundPaths) /\ p = FoundPaths[at[t] + 1]
  BY <1>0, Taken DEF ListInv
<1>3. p # Junk
  BY <1>2, PathNotJunk
<1>4. CASE CanDelete(p)
  <2>1. disk' = disk \ {p}
    BY <1>1, <1>3, <1>4 DEF Delete
  <2> QED BY <2>1 DEF Cleaned
<1>5. CASE ~CanDelete(p)
  <2>1. disk' = disk
    BY <1>1, <1>5 DEF Delete
  <2>2. p \notin disk \/ p \in Undeletable \/ p[2] \in processes
    BY <1>1, <1>5 DEF CanDelete, InUse
  <2>3. p[2] \in processes => p[2] \in Running \ Killable
    <3>1. SUFFICES ASSUME p[2] \in processes
                   PROVE  p[2] \in Running \ Killable
      OBVIOUS
    <3>2. p[2] \in Running
      BY <1>0, <3>1 DEF TypeOK
    <3>3. isExe(Filepaths[at[t] + 1][2])
      BY <1>2, <3>2 DEF Programs
    <3>4. PICK l \in 1..Len(posted) :
            /\ names[posted[l].val + 1] = Filepaths[at[t] + 1][2]
            /\ names[posted[l].val + 1] \in processes =>
                 names[posted[l].val + 1] \notin Killable
      BY <1>0, <3>3, TriedBefore
    <3> QED BY <3>1, <3>2, <3>4
  <2> QED BY <2>1, <2>2, <2>3 DEF Cleaned
<1> QED BY <1>4, <1>5

\* FilesLeft after a step: what the thread has passed is gone.
LEMMA FilesLeftStep ==
  ASSUME TypeInv, KillInv, ListInv, NamesInOrder, Programs, FilesInv, ~hindered,
         [Next]_vars, NEW u \in Threads
  PROVE  FilesLeft(u)'
<1>0. /\ TypeOK /\ GuiInv /\ LoopInv /\ PlaceInv
      /\ pc \in [Threads -> Points] /\ th \in [Threads -> Nat] /\ at \in [Threads -> Nat]
      /\ Len(FoundPaths) \in Nat
  BY Bounds DEF TypeInv, TypeOK, ListInv
<1>1. FilesLeft(u)
  BY DEF FilesInv
<1>2. \A i \in 1..Len(FoundPaths) : Cleaned(FoundPaths[i]) => Cleaned(FoundPaths[i])'
  BY CleanedStays
<1>3. ASSUME at'[u] = at[u], Worker(u)' /\ th'[u] = 1 => Worker(u) /\ th[u] = 1,
             pc'[u] \in {"count", "bump", "take", "report", "done"} =>
               pc[u] \in {"count", "bump", "take", "report", "done"}
                 \/ at[u] >= Len(FoundPaths)
      PROVE  FilesLeft(u)'
  BY <1>1, <1>2, <1>3 DEF FilesLeft, AllCleaned
<1>4. CASE RepairYes \/ RepairNo \/ _switch \/ HandleAny \/ Exit \/ UNCHANGED vars
  <2>1. at' = at /\ th' = th
    BY <1>4, GuiSteps
  <2>2. CASE pc' = pc
    BY <1>3, <2>1, <2>2 DEF Worker
  <2>3. CASE start /\ ~UNCHANGED vars
    <3>1. nThreads + 1 <= 3 * MaxRepairs
      BY <2>3, ThreadsEnough DEF start
    <3>2. /\ pc[nThreads + 1] = "off" /\ pc'[nThreads + 1] = "new"
          /\ \A t \in Threads : t # nThreads + 1 => pc'[t] = pc[t]
      BY <1>0, <2>3, <3>1, Started
    <3> QED BY <1>3, <2>1, <3>2 DEF Worker
  <2> QED BY <1>4, <2>2, <2>3, GuiSteps
<1>5. ASSUME NEW t \in Threads, run(t), t # u
      PROVE  FilesLeft(u)'
  BY <1>0, <1>3, <1>5, OthersKeep DEF Worker
<1>6. CASE ReadIndex(u)
  <2>1. pc'[u] = "signal"
    BY <1>0, <1>6 DEF ReadIndex
  <2> QED BY <2>1 DEF FilesLeft, Worker
<1>7. CASE Signal(u)
  <2>1. at'[u] = 0 /\ (th'[u] = 1 => pc'[u] = "files")
    BY <1>0, <1>7 DEF Signal, LoopInv
  <2> QED BY <2>1 DEF FilesLeft, AllCleaned
<1>8. CASE CountWait(u) \/ CountBump(u) \/ CountTake(u) \/ Report(u)
  BY <1>0, <1>3, <1>8 DEF CountWait, CountBump, CountTake, Report, Worker
<1>9. CASE CreateRestore(u)
  <2>1. th'[u] = 0
    BY <1>0, <1>9 DEF CreateRestore, PlaceInv
  <2> QED BY <2>1 DEF FilesLeft
<1>10. CASE ReadFiles(u) \/ LockList(u) \/ NextFile(u) \/ Kill(u)
  BY <1>0, <1>3, <1>10 DEF ReadFiles, LockList, NextFile, Kill, Worker
<1>11. CASE FilesOver(u)
  <2>1. at[u] >= Len(FoundPaths)
    BY <1>0, <1>11 DEF FilesOver, LoopInv, ListInv
  <2> QED BY <1>0, <1>3, <1>11, <2>1 DEF FilesOver, Worker
<1>12. CASE Delete(u)
  <2>1. /\ at'[u] = at[u] + 1 /\ pc[u] = "delete" /\ pc'[u] = "lock" /\ at[u] \in Nat
        /\ th[u] = 1
    BY <1>0, <1>12 DEF Delete, PlaceInv
  <2>2. AllCleaned(at[u])
    BY <1>1, <2>1 DEF FilesLeft, Worker
  <2>3. ASSUME NEW i \in 1..Len(FoundPaths), i = at[u] + 1
        PROVE  Cleaned(FoundPaths[i])'
    <3>1. PICK p : p = FoundPaths[i]
      OBVIOUS
    <3>2. Cleaned(p)'
      BY <1>12, <2>3, <3>1, DeleteCleans DEF ListInv
    <3> QED BY <3>1, <3>2
  <2>4. \A i \in 1..Len(FoundPaths) : i <= at'[u] => Cleaned(FoundPaths[i])'
    BY <1>0, <1>2, <2>1, <2>2, <2>3 DEF AllCleaned
  <2> QED BY <2>1, <2>4 DEF FilesLeft, AllCleaned
<1>13. CASE RunKeys(u)
  <2>1. th'[u] = 2
    BY <1>0, <1>13 DEF RunKeys, ReadKeys, OpenKey, KeysOver, LockKey, DeleteValue,
       UnlockKey, PlaceInv
  <2> QED BY <2>1 DEF FilesLeft
<1> QED BY <1>4, <1>5, <1>6, <1>7, <1>8, <1>9, <1>10, <1>11, <1>12, <1>13
        DEF Next, run, RunAny, RunFiles

\* Taking after a step: the path it holds is the one of its index.
LEMMA TakingStep ==
  ASSUME TypeInv, ListInv, ~hindered, [Next]_vars, NEW u \in Threads, Taking(u)
  PROVE  Taking(u)'
<1>0. /\ TypeOK /\ GuiInv /\ pc \in [Threads -> Points] /\ at \in [Threads -> Nat]
      /\ tm \in [Threads -> Paths \cup {Junk}]
  BY DEF TypeInv, TypeOK
<1>1. CASE RepairYes \/ RepairNo \/ _switch \/ HandleAny \/ Exit \/ UNCHANGED vars
  <2>1. at' = at /\ tm' = tm
    BY <1>1, GuiSteps
  <2>2. CASE pc' = pc
    BY <2>1, <2>2 DEF Taking
  <2>3. CASE start /\ ~UNCHANGED vars
    <3>1. nThreads + 1 <= 3 * MaxRepairs
      BY <2>3, ThreadsEnough DEF start
    <3>2. /\ pc'[nThreads + 1] = "new"
          /\ \A t \in Threads : t # nThreads + 1 => pc'[t] = pc[t]
      BY <1>0, <2>3, <3>1, Started
    <3> QED BY <2>1, <3>2 DEF Taking
  <2> QED BY <1>1, <2>2, <2>3, GuiSteps
<1>2. ASSUME NEW t \in Threads, run(t), t # u
      PROVE  Taking(u)'
  BY <1>0, <1>2, OthersKeep DEF Taking
<1>3. CASE RunAny(u)
  BY <1>0, <1>3 DEF Taking, RunAny, ReadIndex, Signal, CountWait, CountBump, CountTake,
     Report, CreateRestore
<1>4. CASE NextFile(u)
  <2>1. tm'[u] = Filepaths[at[u] + 1] /\ at' = at
    BY <1>0, <1>4 DEF NextFile
  <2> QED BY <2>1 DEF Taking, ListInv
<1>5. CASE Kill(u)
  BY <1>0, <1>5 DEF Kill, Taking
<1>6. CASE ReadFiles(u) \/ LockList(u) \/ FilesOver(u) \/ Delete(u)
  BY <1>0, <1>6 DEF ReadFiles, LockList, FilesOver, Delete, Taking
<1>7. CASE RunKeys(u)
  BY <1>0, <1>7 DEF RunKeys, ReadKeys, OpenKey, KeysOver, LockKey, DeleteValue, UnlockKey,
     Taking
<1> QED BY <1>1, <1>2, <1>3, <1>4, <1>5, <1>6, <1>7 DEF Next, run, RunFiles

\* Unless the run is hindered no process outlives the call that ends it.
LEMMA DyingStep ==
  ASSUME ~hindered, dying = {}, [Next]_vars
  PROVE  dying' = {}
<1>1. ASSUME NEW t \in Threads, Kill(t)
      PROVE  dying' = {}
  BY <1>1 DEF Kill
<1>2. ASSUME NEW t \in Threads, run(t), ~Kill(t)
      PROVE  dying' = {}
  BY <1>2 DEF run, RunAny, ReadIndex, Signal, CountWait, CountBump, CountTake, Report,
     CreateRestore, RunFiles, ReadFiles, LockList, FilesOver, NextFile, Delete, RunKeys,
     ReadKeys, OpenKey, KeysOver, LockKey, DeleteValue, UnlockKey
<1>3. CASE RepairYes \/ RepairNo \/ _switch \/ HandleAny \/ Exit \/ UNCHANGED vars
  BY <1>3 DEF RepairYes, RepairNo, _switch, SwitchSet, SwitchWait, SwitchReset,
     HandleAny, HandleSystem, HandleFile, HandleProc, HandleText, Handle, Exit
<1> QED BY <1>1, <1>2, <1>3 DEF Next

\* FilesInv at the start.
LEMMA FilesInit ==
  ASSUME Init
  PROVE  FilesInv
<1>1. dying = {} /\ \A t \in Threads : pc[t] = "off"
  BY DEF Init
<1> QED BY <1>1 DEF FilesInv, Taking, FilesLeft, Worker

\* FilesInv after a step.
LEMMA FilesStep ==
  ASSUME TypeInv, KillInv, ListInv, NamesInOrder, Programs, FilesInv, [Next]_vars
  PROVE  FilesInv'
<1>1. hindered' = hindered /\ Threads' = Threads
  BY ListFixed DEF Threads
<1>2. SUFFICES ASSUME ~hindered
               PROVE  dying' = {} /\ \A t \in Threads : Taking(t)' /\ FilesLeft(t)'
  BY <1>1 DEF FilesInv
<1>3. dying' = {}
  BY <1>2, DyingStep DEF FilesInv
<1>4. \A t \in Threads : Taking(t)'
  BY <1>2, TakingStep DEF FilesInv
<1>5. \A t \in Threads : FilesLeft(t)'
  BY <1>2, FilesLeftStep
<1> QED BY <1>3, <1>4, <1>5

\* When the thread of the files has finished, all of its list is passed.
LEMMA FilesDone ==
  ASSUME TypeOK, CountInv, FilesInv, ListInv
  PROVE  ListedGone
<1>1. SUFFICES ASSUME Sent("PAYLOAD_DONE"), ~hindered, NEW p \in Listed \ Undeletable
               PROVE  p[2] \in Running \ Killable \/ p \notin disk
  BY DEF ListedGone
<1>2. PICK w \in Threads : Worker(w) /\ pc[w] = "done" /\ indx[w] = 2
  BY <1>1 DEF CountInv
<1>3. indx[w] \in 1..threadDone /\ threadDone \in {0, 1, 2}
  BY <1>2, CountedDone DEF CountInv, Over
<1>4. Finished(1)
  BY <1>2, <1>3, CountedDone
<1>5. PICK t \in Threads : Counted(t) /\ th[t] = 1
  BY <1>4 DEF Finished
<1>6. AllCleaned(at[t]) /\ at[t] >= Len(FoundPaths)
  BY <1>1, <1>5 DEF FilesInv, FilesLeft, Counted
<1>7. PICK i \in 1..Len(FoundPaths) : p = FoundPaths[i]
  BY <1>1 DEF Listed, ListInv
<1>8. Cleaned(p)
  <2>1. Len(FoundPaths) \in Nat /\ at[t] \in Nat
    BY RepairAssumption DEF TypeOK
  <2>2. i <= at[t]
    BY <1>6, <1>7, <2>1
  <2> QED BY <1>6, <1>7, <2>2 DEF AllCleaned
<1> QED BY <1>1, <1>8 DEF Cleaned

\* A repair asked for once and not hindered leaves no listed file behind it but
\* those the system protects: the process of a file is gone before the file's
\* turn comes, so the file can be deleted, when the names come in time and what
\* runs under a listed name is a program.
THEOREM FilesGone ==
  ASSUME NamesInOrder, Programs
  PROVE  Spec /\ [](repairs <= 1) => []ListedGone
<1>1. TypeInv /\ TallyInv /\ repairs <= 1 /\ FilesInv /\ ListInv => ListedGone
  BY FilesDone DEF TallyInv, TypeInv
<1>2. LockDiscipline /\ TypeInv /\ OneRepairInv /\ TallyInv /\ [Next]_vars => TallyInv'
  BY TallyStep
<1>3. TypeInv /\ OneRepairInv /\ [Next]_vars => OneRepairInv'
  BY OneRepairStep
<1>4. TypeInv /\ KillInv /\ [Next]_vars => KillInv'
  BY KillStep
<1>5. TypeInv /\ KillInv /\ ListInv /\ FilesInv /\ [Next]_vars => FilesInv'
  BY FilesStep
<1>6. Init => OneRepairInv /\ TallyInv /\ KillInv /\ FilesInv
  BY OneRepairInit, TallyInit, KillInit, FilesInit
<1> QED BY <1>1, <1>2, <1>3, <1>4, <1>5, <1>6, RepairInvariant, LocksKept, ListKept, PTL
        DEF Spec

-----------------------------------------------------------------------------
(* The registry. *)

\* A value that is gone from the registry stays so.
LEMMA EmptiedStays ==
  ASSUME [Next]_vars, NEW k
  PROVE  /\ Emptied(k) => Emptied(k)'
         /\ \A n : EmptiedTo(k, n) => EmptiedTo(k, n)'
<1>1. registry' \subseteq registry
  BY NoneStarts
<1>2. Emptied(k) => Emptied(k)'
  BY <1>1 DEF Emptied, Entries, KeyOpens, MayWrite
<1>3. \A n : EmptiedTo(k, n) => EmptiedTo(k, n)'
  BY <1>1 DEF EmptiedTo, KeyOpens, MayWrite
<1> QED BY <1>2, <1>3

\* A key all of whose values are gone is empty.
LEMMA ToTheEnd ==
  ASSUME NEW k \in RegKeys, NEW n \in Nat, EmptiedTo(k, n), n >= Len(k.values)
  PROVE  Emptied(k)
<1>1. k.values \in Seq(Values)
  BY DEF RegKeys
<1>2. Len(k.values) \in Nat
  BY <1>1
<1>3. \A j \in 1..Len(k.values) : j <= n
  BY <1>2
<1> QED BY <1>3 DEF EmptiedTo, Emptied, Entries

\* A pair with one more part.
LEMMA Pairs ==
  ASSUME NEW a, NEW b, NEW c
  PROVE  <<a, b>> \o <<c>> = <<a, b, c>>
<1>1. PICK S : S = {a, b, c}
  OBVIOUS
<1>2. <<a, b>> \in Seq(S) /\ <<c>> \in Seq(S) /\ <<a, b, c>> \in Seq(S)
  BY <1>1
<1>3. Len(<<a, b>>) = 2 /\ Len(<<c>>) = 1 /\ Len(<<a, b, c>>) = 3
  OBVIOUS
<1>4. <<a, b>> \o <<c>> \in Seq(S) /\ Len(<<a, b>> \o <<c>>) = 3
  BY <1>2, <1>3, ConcatProperties
<1>5. \A i \in 1..3 : (<<a, b>> \o <<c>>)[i] = <<a, b, c>>[i]
  <2>1. \A i \in 1..3 : (<<a, b>> \o <<c>>)[i] = IF i <= 2 THEN <<a, b>>[i] ELSE <<c>>[i - 2]
    BY <1>2, <1>3, ConcatProperties
  <2> QED BY <2>1
<1>6. PICK s : s = <<a, b>> \o <<c>>
  OBVIOUS
<1> QED BY <1>2, <1>3, <1>4, <1>5, <1>6, SeqEqual

\* RegDeleteValue of an open key leaves no value it was called for.
LEMMA ValueGone ==
  ASSUME TypeInv, ListInv, NEW t \in Threads, KeysLeft(t), DeleteValue(t),
         NEW k, k = FoundKeys[at[t] + 1], NEW n \in Nat, n = value[t] + 1
  PROVE  EmptiedTo(k, n)'
<1>0. pc[t] = "value" /\ th[t] = 2 /\ value[t] \in Nat /\ Key(t) = k
  BY DEF DeleteValue, TypeInv, TypeOK, PlaceInv, Key, ListInv
<1>1. /\ EmptiedTo(k, value[t])
      /\ KeyOpens(k) => key[t] = <<k.handle, k.keyPath>>
  BY <1>0 DEF KeysLeft, Worker
<1>2. SUFFICES ASSUME KeyOpens(k), MayWrite(k), NEW j \in 1..Len(k.values), j <= n
               PROVE  <<k.handle, k.keyPath, k.values[j]>> \notin registry'
  BY DEF EmptiedTo, KeyOpens, MayWrite
<1>3. CASE j <= value[t]
  <2>1. <<k.handle, k.keyPath, k.values[j]>> \notin registry
    BY <1>1, <1>2, <1>3 DEF EmptiedTo
  <2>2. registry' \subseteq registry
    BY DEF DeleteValue
  <2> QED BY <2>1, <2>2
<1>4. CASE j = value[t] + 1
  <2>1. PICK v : v = k.values[value[t] + 1]
    OBVIOUS
  <2>2. Value(t) = v /\ k.values[j] = v
    BY <1>0, <1>4, <2>1 DEF Value
  <2>3. key[t] \o <<Value(t)>> = <<k.handle, k.keyPath, v>>
    <3>1. PICK a : a = k.handle
      OBVIOUS
    <3>2. PICK b : b = k.keyPath
      OBVIOUS
    <3>3. <<a, b>> \o <<v>> = <<a, b, v>>
      BY Pairs
    <3>4. key[t] = <<a, b>> /\ Value(t) = v
      BY <1>1, <1>2, <2>2, <3>1, <3>2
    <3> QED BY <3>1, <3>2, <3>3, <3>4
  <2>4. key[t] \o <<Value(t)>> \notin registry'
    <3>1. key[t] \in WritableKeys
      BY <1>1, <1>2 DEF MayWrite
    <3> QED BY <3>1 DEF DeleteValue
  <2> QED BY <2>2, <2>3, <2>4
<1>5. j <= value[t] \/ j = value[t] + 1
  BY <1>0, <1>2
<1> QED BY <1>3, <1>4, <1>5

\* KeysLeft after a step: what the thread has passed is gone.
LEMMA KeysLeftStep ==
  ASSUME TypeInv, ListInv, KeysInv, [Next]_vars, NEW u \in Threads
  PROVE  KeysLeft(u)'
<1>0. /\ TypeOK /\ GuiInv /\ LoopInv /\ PlaceInv /\ pc \in [Threads -> Points]
      /\ th \in [Threads -> Nat] /\ at \in [Threads -> Nat] /\ value \in [Threads -> Nat]
      /\ key \in [Threads -> OpenKeys \cup {NoKey}] /\ Len(FoundKeys) \in Nat
  BY Bounds DEF TypeInv, TypeOK, ListInv
<1>1. KeysLeft(u)
  BY DEF KeysInv
<1>2. \A i \in 1..Len(FoundKeys) : Emptied(FoundKeys[i]) => Emptied(FoundKeys[i])'
  BY EmptiedStays
<1>3. ASSUME at'[u] = at[u], Worker(u)' /\ th'[u] = 2 => Worker(u) /\ th[u] = 2,
             pc'[u] \in {"count", "bump", "take", "report", "done"} =>
               pc[u] \in {"count", "bump", "take", "report", "done"}
                 \/ at[u] >= Len(FoundKeys),
             pc'[u] \notin {"lockkey", "value"}
      PROVE  KeysLeft(u)'
  BY <1>1, <1>2, <1>3 DEF KeysLeft, AllEmptied
\* A step that leaves the thread at its key.
<1>4. ASSUME at'[u] = at[u], th'[u] = th[u], pc'[u] = pc[u], key'[u] = key[u],
             value'[u] = value[u]
      PROVE  KeysLeft(u)'
  <2>1. PICK k : k = FoundKeys[at[u] + 1]
    OBVIOUS
  <2>2. PICK n : n = value[u]
    OBVIOUS
  <2>3. EmptiedTo(k, n) => EmptiedTo(k, n)'
    BY EmptiedStays
  <2>4. EmptiedTo(k, n)' <=> EmptiedTo(FoundKeys[at[u] + 1], value[u])'
    BY <1>4, <2>1, <2>2 DEF EmptiedTo
  <2> QED BY <1>1, <1>2, <1>4, <2>1, <2>2, <2>3, <2>4 DEF KeysLeft, Worker, AllEmptied, KeyOpens, MayWrite
<1>5. CASE RepairYes \/ RepairNo \/ _switch \/ HandleAny \/ Exit \/ UNCHANGED vars
  <2>1. at' = at /\ th' = th /\ value' = value /\ key' = key
    BY <1>5, GuiSteps
  <2>2. CASE pc' = pc
    BY <1>4, <2>1, <2>2
  <2>3. CASE start /\ ~UNCHANGED vars
    <3>1. nThreads + 1 <= 3 * MaxRepairs
      BY <2>3, ThreadsEnough DEF start
    <3>2. /\ pc'[nThreads + 1] = "new"
          /\ \A t \in Threads : t # nThreads + 1 => pc'[t] = pc[t]
      BY <1>0, <2>3, <3>1, Started
    <3>3. CASE u = nThreads + 1
      BY <3>2, <3>3 DEF KeysLeft, Worker
    <3>4. CASE u # nThreads + 1
      BY <1>4, <2>1, <3>2, <3>4
    <3> QED BY <3>3, <3>4
  <2> QED BY <1>5, <2>2, <2>3, GuiSteps
<1>6. ASSUME NEW t \in Threads, run(t), t # u
      PROVE  KeysLeft(u)'
  BY <1>0, <1>4, <1>6, OthersKeep
<1>7. CASE ReadIndex(u)
  <2>1. pc'[u] = "signal"
    BY <1>0, <1>7 DEF ReadIndex
  <2> QED BY <2>1 DEF KeysLeft, Worker
<1>8. CASE Signal(u)
  <2>1. at'[u] = 0 /\ (th'[u] = 2 => pc'[u] = "keys")
    BY <1>0, <1>8 DEF Signal, LoopInv
  <2> QED BY <2>1 DEF KeysLeft, AllEmptied
<1>9. CASE CountWait(u) \/ CountBump(u) \/ CountTake(u) \/ Report(u)
  BY <1>0, <1>3, <1>9 DEF CountWait, CountBump, CountTake, Report, Worker
<1>10. CASE CreateRestore(u) \/ RunFiles(u)
  <2>1. th'[u] \in {0, 1}
    BY <1>0, <1>10 DEF CreateRestore, RunFiles, ReadFiles, LockList, FilesOver, NextFile,
       Kill, Delete, PlaceInv
  <2> QED BY <2>1 DEF KeysLeft
<1>11. CASE ReadKeys(u)
  BY <1>0, <1>3, <1>11 DEF ReadKeys, Worker
<1>12. CASE KeysOver(u)
  <2>1. at[u] >= Len(FoundKeys)
    BY <1>0, <1>12 DEF KeysOver, LoopInv, ListInv
  <2> QED BY <1>0, <1>3, <1>12, <2>1 DEF KeysOver, Worker
<1>13. CASE OpenKey(u)
  <2>1. /\ pc[u] = "open" /\ pc'[u] = "lockkey" /\ at' = at /\ th' = th
        /\ KeyOpens(FoundKeys[at[u] + 1]) =>
             key'[u] = <<FoundKeys[at[u] + 1].handle, FoundKeys[at[u] + 1].keyPath>>
    BY <1>0, <1>13 DEF OpenKey, Key, ListInv
  <2> QED BY <1>0, <1>1, <1>2, <2>1 DEF KeysLeft, Worker, AllEmptied, KeyOpens, MayWrite
<1>14. CASE LockKey(u)
  <2>1. /\ pc[u] = "lockkey" /\ pc'[u] = "value" /\ at' = at /\ th' = th
        /\ key' = key /\ value'[u] = 0
    BY <1>0, <1>14 DEF LockKey
  <2>2. EmptiedTo(FoundKeys[at[u] + 1], value[u])'
    BY <2>1 DEF EmptiedTo
  <2> QED BY <1>0, <1>1, <1>2, <2>1, <2>2 DEF KeysLeft, Worker, AllEmptied, KeyOpens, MayWrite
<1>15. CASE DeleteValue(u)
  <2>1. /\ pc[u] = "value" /\ pc' = pc /\ at' = at /\ th' = th
        /\ key' = key /\ value'[u] = value[u] + 1 /\ value[u] \in Nat
    BY <1>0, <1>15 DEF DeleteValue
  <2>2. PICK k : k = FoundKeys[at[u] + 1]
    OBVIOUS
  <2>3. PICK n \in Nat : n = value[u] + 1
    BY <2>1
  <2>4. EmptiedTo(k, n)'
    BY <1>1, <1>15, <2>2, <2>3, ValueGone
  <2>5. EmptiedTo(FoundKeys[at[u] + 1], value[u])'
    BY <2>1, <2>2, <2>3, <2>4 DEF EmptiedTo
  <2> QED BY <1>0, <1>1, <1>2, <2>1, <2>5 DEF KeysLeft, Worker, AllEmptied, KeyOpens, MayWrite
<1>16. CASE UnlockKey(u)
  <2>1. /\ pc[u] = "value" /\ pc'[u] = "open" /\ at'[u] = at[u] + 1 /\ th' = th
        /\ value[u] >= Len(Key(u).values) /\ at[u] \in Nat /\ value[u] \in Nat /\ th[u] = 2
    BY <1>0, <1>16 DEF UnlockKey, PlaceInv
  <2>2. PICK k : k = FoundKeys[at[u] + 1]
    OBVIOUS
  <2>3. k = Key(u) /\ k \in RegKeys
    <3>1. k = Key(u)
      BY <2>2 DEF Key, ListInv
    <3> QED BY <1>0, <2>1, <3>1, Taken
  <2>4. Worker(u) /\ AllEmptied(at[u]) /\ EmptiedTo(k, value[u])
    BY <1>1, <2>1, <2>2 DEF KeysLeft, Worker
  <2>5. Emptied(k)
    BY <2>1, <2>3, <2>4, ToTheEnd
  <2>6. \A i \in 1..Len(FoundKeys) : i <= at'[u] => Emptied(FoundKeys[i])
    BY <1>0, <2>1, <2>2, <2>4, <2>5 DEF AllEmptied
  <2>7. \A i \in 1..Len(FoundKeys) : i <= at'[u] => Emptied(FoundKeys[i])'
    BY <1>2, <2>6
  <2> QED BY <2>1, <2>7 DEF KeysLeft, AllEmptied
<1> QED BY <1>5, <1>6, <1>7, <1>8, <1>9, <1>10, <1>11, <1>12, <1>13, <1>14, <1>15, <1>16
        DEF Next, run, RunAny, RunKeys

\* KeysInv at the start.
LEMMA KeysInit ==
  ASSUME Init
  PROVE  KeysInv
<1>1. \A t \in Threads : pc[t] = "off"
  BY DEF Init
<1> QED BY <1>1 DEF KeysInv, KeysLeft, Worker

\* KeysInv after a step.
LEMMA KeysStep ==
  ASSUME TypeInv, ListInv, KeysInv, [Next]_vars
  PROVE  KeysInv'
BY KeysLeftStep DEF KeysInv, Threads

\* When the thread of the registry has finished, all of its keys are passed.
LEMMA KeysDone ==
  ASSUME TypeOK, CountInv, KeysInv, ListInv
  PROVE  KeysGone
<1>1. SUFFICES ASSUME Sent("PAYLOAD_DONE"), NEW i \in 1..Len(FoundKeys)
               PROVE  Emptied(FoundKeys[i])
  BY DEF KeysGone, ListInv, Emptied
<1>2. PICK w \in Threads : Worker(w) /\ pc[w] = "done" /\ indx[w] = 2
  BY <1>1 DEF CountInv
<1>3. indx[w] \in 1..threadDone /\ threadDone \in {0, 1, 2}
  BY <1>2, CountedDone DEF CountInv, Over
<1>4. Finished(2)
  BY <1>2, <1>3, CountedDone
<1>5. PICK t \in Threads : Counted(t) /\ th[t] = 2
  BY <1>4 DEF Finished
<1>6. AllEmptied(at[t]) /\ at[t] >= Len(FoundKeys)
  BY <1>5 DEF KeysInv, KeysLeft, Counted
<1>7. Len(FoundKeys) \in Nat /\ at[t] \in Nat
  BY RepairAssumption DEF TypeOK
<1> QED BY <1>6, <1>7 DEF AllEmptied

\* A repair asked for once: when it says it is done, every value of every listed
\* key that can be opened and written is gone, also when another key before it
\* could not be.
THEOREM ValuesGone == Spec /\ [](repairs <= 1) => []KeysGone
<1>1. TypeInv /\ TallyInv /\ repairs <= 1 /\ KeysInv /\ ListInv => KeysGone
  BY KeysDone DEF TallyInv, TypeInv
<1>2. LockDiscipline /\ TypeInv /\ OneRepairInv /\ TallyInv /\ [Next]_vars => TallyInv'
  BY TallyStep
<1>3. TypeInv /\ OneRepairInv /\ [Next]_vars => OneRepairInv'
  BY OneRepairStep
<1>4. TypeInv /\ ListInv /\ KeysInv /\ [Next]_vars => KeysInv'
  BY KeysStep
<1>5. Init => OneRepairInv /\ TallyInv /\ KeysInv
  BY OneRepairInit, TallyInit, KeysInit
<1> QED BY <1>1, <1>2, <1>3, <1>4, <1>5, RepairInvariant, LocksKept, ListKept, PTL DEF Spec

=============================================================================
