---------------------------- MODULE EngineTypes ----------------------------
(***************************************************************************)
(* Type correctness of Engine.  TypeOK is not inductive: that a thread's   *)
(* path, file or key is one follows from its loop counters being inside    *)
(* the lists they index, and that from where in run() the thread is, which *)
(* role it has and which threads exist.  TypeInv adds these facts.  There  *)
(* is one lemma per action, then the theorem.                              *)
(***************************************************************************)
EXTENDS EngineProperties, SequenceTheorems, TLAPS

(***************************************************************************)
(* Which threads exist.  Threads are created in order, three per check.    *)
(***************************************************************************)
Created ==
  /\ gpc = "idle" => nThreads = 3 * checks
  /\ gpc # "idle" => gleft > 0 /\ nThreads = 3 * checks - gleft
  /\ \A t \in Threads : t > nThreads <=> pc[t] = "off"

(***************************************************************************)
(* What the loop counters of a thread mean at the points where they are    *)
(* used as indices.                                                        *)
(***************************************************************************)
Searching ==
  {"find", "fullpath", "lock", "addfile", "filecs", "push", "notify", "advance",
   "addname", "namecs", "unlock"}

Started == {"new", "signal"}

LoopsOf(t) ==
  /\ pc[t] \in {"off"} \cup Started => outer[t] = 0 /\ bound[t] = 0
  /\ pc[t] \in {"fill", "init", "ready"} => th[t] = 0
  /\ pc[t] \in {"enter", "incs"} => th[t] \in 0..2
  /\ pc[t] \in {"await", "resignal"} => th[t] \in 1..2
  /\ pc[t] \in {"resignal", "chdir"} \cup Searching => th[t] \in 0..1
  /\ pc[t] \in {"open", "query", "addreg"} => th[t] = 2
  /\ th[t] = 0 => bound[t] <= Len(files)
  /\ pc[t] = "fill" => outer[t] <= Len(Defs)
  /\ pc[t] \in Searching => outer[t] < Blocks(t)
  /\ pc[t] \in Searching \ {"find"} => inner[t] < Len(BlockFiles(t))
  /\ pc[t] \in Searching \ {"find", "fullpath"} => found[t] \in Paths
  /\ pc[t] \in {"query", "addreg"} => outer[t] < Len(regVector)

Loops == \A t \in Threads : LoopsOf(t)

TypeInv == TypeOK /\ Created /\ Loops

\* Division splits an index below m * n into one below m and one below n.
LEMMA DivBound ==
  ASSUME NEW a \in Nat, NEW m \in Nat, NEW n \in Nat, a < m * n
  PROVE  n > 0 /\ a \div n \in 0..m - 1 /\ a % n \in 0..n - 1
<1>1. n > 0
  BY SMT
<1>2. a % n \in 0..n - 1 /\ a \div n \in Nat /\ a = n * (a \div n) + (a % n)
  BY <1>1, SMT
<1>3. a \div n < m
  <2> SUFFICES ASSUME a \div n >= m PROVE FALSE
    BY <1>2
  <2> DEFINE q == a \div n
  <2>1. q \in Nat /\ q >= m /\ n * q <= a
    BY <1>2
  <2> HIDE DEF q
  <2>2. n * q >= n * m
    BY <2>1, SMT
  <2> QED BY <2>1, <2>2, SMT
<1> QED BY <1>1, <1>2, <1>3

\* Advancing one counter of a family of counters.
LEMMA BumpNat ==
  ASSUME NEW S, NEW F \in [S -> Nat], NEW x \in S, NEW n \in Nat
  PROVE  [F EXCEPT ![x] = F[x] + n] \in [S -> Nat]
  OBVIOUS

USE DEF guiVars, indexVars, eventVars, lockVars, syncVars, dataVars, msgVars,
        loopVars, valueVars, dectVars, vars, Goto, Step, Acquire, WaitDects,
        mhThread

\* The bounds are numbers.
LEMMA MaxChecksTyped == MaxChecks \in Nat /\ MaxChecks > 0 /\ MaxCancels \in Nat
  BY EngineAssumption

\* The constants a thread indexes are sequences.
LEMMA ConstantsTyped ==
  /\ Defs \in Seq(Seq(Files)) /\ Len(Defs) \in Nat
  /\ Folders \in Seq(Dirs) /\ Len(Folders) \in Nat
  /\ RegDefs \in Seq(RegKeys)
  /\ nd \in Nat
<1>1. /\ Defs \in Seq(Seq(Files))
      /\ Folders \in Seq(Dirs)
      /\ RegDefs \in Seq(RegKeys)
  BY EngineAssumption
<1>2. nd \in Nat
  BY DrivesAssumption
<1> QED BY <1>1, <1>2, LenProperties

\* The file a thread is at is one of the files: its loop counters are inside
\* the lists they index, also where one index stands for a definition and drive.
LEMMA FileTyped ==
  ASSUME TypeInv, NEW t \in Threads, pc[t] \in Searching,
         inner[t] < Len(BlockFiles(t))
  PROVE  File(t) \in Files
<1>1. /\ outer[t] \in Nat
      /\ inner[t] \in Nat
      /\ outer[t] < Blocks(t)
      /\ th[t] \in 0..1
  BY DEF TypeInv, TypeOK, Loops, LoopsOf
<1>2. BlockFiles(t) \in Seq(Files)
  <2>1. CASE th[t] = 0
    <3>1. bound[t] \in Nat /\ bound[t] <= Len(files) /\ files \in Seq(Files)
      BY <2>1 DEF TypeInv, TypeOK, Loops, LoopsOf
    <3> QED BY <2>1, <3>1 DEF BlockFiles
  <2>2. CASE th[t] = 1
    <3>1. Len(Defs) \in Nat /\ Defs \in Seq(Seq(Files)) /\ nd \in Nat
      BY ConstantsTyped
    <3>2. outer[t] < Len(Defs) * nd
      BY <1>1, <2>2 DEF Blocks
    <3>3. outer[t] \div nd \in 0..Len(Defs) - 1
      BY <1>1, <3>1, <3>2, DivBound
    <3>4. (outer[t] \div nd) + 1 \in 1..Len(Defs)
      BY <3>1, <3>3
    <3> QED BY <2>2, <3>1, <3>4, ElementOfSeq DEF BlockFiles
  <2> QED BY <1>1, <2>1, <2>2
<1> QED BY <1>1, <1>2, ElementOfSeq DEF File

\* The key thread 2 is at is one of the keys.
LEMMA KeyTyped ==
  ASSUME TypeInv, NEW t \in Threads, outer[t] < Len(regVector)
  PROVE  /\ Key(t) \in RegKeys
         /\ outer[t] + 1 \in 1..Len(regVector)
<1>1. outer[t] \in Nat /\ regVector \in Seq(RegKeys)
  BY DEF TypeInv, TypeOK
<1>2. outer[t] + 1 \in 1..Len(regVector)
  BY <1>1
<1> QED BY <1>1, <1>2, ElementOfSeq DEF Key

\* Posting a message keeps the queue a queue of messages.
LEMMA PostTyped ==
  ASSUME TypeInv, NEW m, NEW v, [msg |-> m, val |-> v] \in Messages, Post(m, v)
  PROVE  posted' \in Seq(Messages)
<1>1. posted \in Seq(Messages)
  BY DEF TypeInv, TypeOK
<1> QED BY <1>1, AppendProperties DEF Post

\* The work announced is a number.
LEMMA TotalWorkTyped ==
  ASSUME TypeInv, NEW t \in Threads
  PROVE  TotalWork(t) \in Nat
<1> DEFINE n == bound[t]
           m == Len(Defs)
           k == Len(Folders)
<1>1. n \in Nat
  BY DEF TypeInv, TypeOK
<1>2. m \in Nat /\ k \in Nat /\ nd \in Nat
  BY ConstantsTyped
<1> HIDE DEF n, m, k
<1>3. k * n \in Nat /\ m * n \in Nat
  BY <1>1, <1>2
<1>4. (m * n) * nd \in Nat
  BY <1>2, <1>3
<1> QED BY <1>3, <1>4 DEF TotalWork, n, m, k

\* vector::erase leaves a list of the same values.
LEMMA RemoveAtTyped ==
  ASSUME NEW S, NEW s \in Seq(S), NEW i \in 1..Len(s)
  PROVE  RemoveAt(s, i) \in Seq(S)
<1>1. SubSeq(s, 1, i - 1) \in Seq(S) /\ SubSeq(s, i + 1, Len(s)) \in Seq(S)
  OBVIOUS
<1> QED BY <1>1, ConcatProperties DEF RemoveAt

\* Both erase steps replace the values of one key.
LEMMA EraseTyped ==
  ASSUME TypeInv, NEW t \in Threads, outer[t] < Len(regVector),
         NEW s \in Seq(Values),
         regVector' = [regVector EXCEPT ![outer[t] + 1].values = s]
  PROVE  regVector' \in Seq(RegKeys) /\ Len(regVector') = Len(regVector)
<1>1. Key(t) \in RegKeys /\ outer[t] + 1 \in 1..Len(regVector)
  BY KeyTyped
<1>2. [Key(t) EXCEPT !.values = s] \in RegKeys
  BY <1>1 DEF RegKeys
<1>3. regVector' = [regVector EXCEPT
                      ![outer[t] + 1] = [Key(t) EXCEPT !.values = s]]
  BY DEF Key
<1>4. regVector \in Seq(RegKeys)
  BY DEF TypeInv, TypeOK
<1> QED BY <1>1, <1>2, <1>3, <1>4, ExceptSeq

-------------------------------------------------------------------------------
(* The window's thread. *)

\* Check keeps the invariant.
LEMMA TypeCheck ==
  ASSUME TypeInv, Check
  PROVE  TypeInv'
<1>1. nThreads = 3 * checks /\ nThreads + 1 \in Threads
      /\ nThreads' = nThreads + 1 /\ checks' = checks + 1
      /\ nThreads' = 3 * checks' - 2 /\ checks' \in 0..MaxChecks
      /\ nThreads' \in 0..3 * MaxChecks
  BY MaxChecksTyped DEF TypeInv, TypeOK, Created, Check, start, Threads
<1>2. TypeOK'
  <2>1. pc' \in [Threads -> Points]
    BY <1>1 DEF TypeInv, TypeOK, Check, start, Points
  <2>2. DectTypeOK'
    BY DEF TypeInv, TypeOK, Check, DectTypeOK
  <2>3. gpc' = "wait" /\ gleft' = 2
    BY DEF Check
  <2>4. /\ UNCHANGED <<gload, cancels, syncVars, cwd, dataVars, msgVars, th>>
        /\ UNCHANGED <<loopVars, valueVars>>
    BY DEF Check
  <2>5. checks' \in 0..MaxChecks /\ nThreads' \in 0..3 * MaxChecks
    BY <1>1
  <2>6. gpc' \in {"idle", "wait", "store", "reset"} /\ gleft' \in 0..2
    BY <2>3
  <2> QED BY <2>1, <2>2, <2>4, <2>5, <2>6 DEF TypeInv, TypeOK
<1>3. Created'
  BY <1>1 DEF TypeInv, TypeOK, Created, Check, start, Threads
<1>4. Loops'
  <2> SUFFICES ASSUME NEW u \in Threads PROVE LoopsOf(u)'
    BY DEF Loops
  <2>1. CASE u = nThreads + 1
    <3>1. pc[u] = "off"
      BY <2>1 DEF TypeInv, TypeOK, Created, Threads
    <3> QED
      BY <2>1, <3>1 DEF TypeInv, TypeOK, Loops, LoopsOf, Searching, Started,
         Check, start
  <2>2. CASE u # nThreads + 1
    BY <2>2 DEF TypeInv, TypeOK, Loops, LoopsOf, Check, start, Blocks,
       BlockFiles
  <2> QED BY <2>1, <2>2
<1> QED BY <1>2, <1>3, <1>4 DEF TypeInv

\* SwitchWait keeps the invariant.
LEMMA TypeSwitchWait ==
  ASSUME TypeInv, SwitchWait
  PROVE  TypeInv'
<1>1. TypeOK'
  BY DEF TypeInv, TypeOK, SwitchWait, DectTypeOK
<1>2. Created'
  BY DEF TypeInv, Created, SwitchWait
<1>3. Loops'
  BY DEF TypeInv, Loops, LoopsOf, SwitchWait, Blocks, BlockFiles
<1> QED BY <1>1, <1>2, <1>3 DEF TypeInv

\* SwitchStore keeps the invariant.
LEMMA TypeSwitchStore ==
  ASSUME TypeInv, SwitchStore
  PROVE  TypeInv'
<1>1. TypeOK'
  <2>1. threadIndex' \in Nat
    BY DEF TypeInv, TypeOK, SwitchStore
  <2>2. DectTypeOK'
    BY DEF TypeInv, TypeOK, SwitchStore, DectTypeOK
  <2>3. /\ gpc' = "reset"
        /\ UNCHANGED <<gleft, gload, checks, cancels, nThreads, threadDone>>
        /\ UNCHANGED <<eventVars, lockVars, cwd, dataVars, msgVars, pc, th>>
        /\ UNCHANGED <<loopVars, valueVars>>
    BY DEF SwitchStore
  <2> QED BY <2>1, <2>2, <2>3 DEF TypeInv, TypeOK
<1>2. Created'
  BY DEF TypeInv, Created, SwitchStore
<1>3. Loops'
  BY DEF TypeInv, Loops, LoopsOf, SwitchStore, Blocks, BlockFiles
<1> QED BY <1>1, <1>2, <1>3 DEF TypeInv

\* SwitchReset keeps the invariant.
LEMMA TypeSwitchReset ==
  ASSUME TypeInv, SwitchReset
  PROVE  TypeInv'
<1>1. /\ nThreads = 3 * checks - gleft
      /\ gleft \in 1..2
      /\ checks \in 0..MaxChecks
      /\ nThreads' = nThreads + 1 /\ gleft' = gleft - 1 /\ checks' = checks
  BY DEF TypeInv, TypeOK, Created, SwitchReset, start
<1>2. nThreads + 1 \in Threads /\ nThreads' \in 0..3 * MaxChecks
  BY <1>1, MaxChecksTyped DEF Threads, TypeInv, TypeOK
<1>3. TypeOK'
  <2>1. pc' \in [Threads -> Points]
    BY <1>2 DEF TypeInv, TypeOK, SwitchReset, start, Points
  <2>2. DectTypeOK'
    BY DEF TypeInv, TypeOK, SwitchReset, DectTypeOK
  <2>3. /\ gpc' \in {"idle", "wait"}
        /\ gleft' \in 0..2
        /\ hEvent' = FALSE
    BY <1>1 DEF SwitchReset
  <2>4. /\ UNCHANGED <<gload, checks, cancels, indexVars, hDataReady, lockVars>>
        /\ UNCHANGED <<cwd, dataVars, msgVars, th, loopVars, valueVars>>
    BY DEF SwitchReset
  <2> QED BY <1>2, <2>1, <2>2, <2>3, <2>4 DEF TypeInv, TypeOK
<1>4. Created'
  BY <1>1, <1>2 DEF TypeInv, TypeOK, Created, SwitchReset, start, Threads
<1>5. Loops'
  <2> SUFFICES ASSUME NEW u \in Threads PROVE LoopsOf(u)'
    BY DEF Loops
  <2>1. CASE u = nThreads + 1
    <3>1. pc[u] = "off"
      BY <2>1 DEF TypeInv, TypeOK, Created, Threads
    <3> QED
      BY <2>1, <3>1 DEF TypeInv, TypeOK, Loops, LoopsOf, Searching, Started,
                        SwitchReset, start
  <2>2. CASE u # nThreads + 1
    BY <2>2 DEF TypeInv, TypeOK, Loops, LoopsOf, SwitchReset, start, Blocks,
       BlockFiles
  <2> QED BY <2>1, <2>2
<1> QED BY <1>3, <1>4, <1>5 DEF TypeInv

\* Cancel keeps the invariant.
LEMMA TypeCancel ==
  ASSUME TypeInv, Cancel
  PROVE  TypeInv'
<1>1. nThreads \in Threads /\ pc[nThreads] # "off"
      /\ pc'[nThreads] \in {"done", "killed"}
  BY MaxChecksTyped DEF TypeInv, TypeOK, Created, Cancel, Threads
<1>2. TypeOK'
  <2>1. posted' \in Seq(Messages)
    <3>1. [msg |-> "ABORTED", val |-> 0] \in Messages
      BY DEF Messages
    <3> QED BY <3>1, PostTyped DEF Cancel
  <2>2. /\ hMdect' \in Threads \cup {NoThread}
        /\ hTDone' \in Threads \cup {NoThread}
    BY DEF TypeInv, TypeOK, Cancel, Abandon
  <2>3. cancels' \in 0..MaxCancels
    BY MaxChecksTyped DEF TypeInv, TypeOK, Cancel
  <2> QED BY <1>1, <2>1, <2>2, <2>3
             DEF TypeInv, TypeOK, Cancel, Points, DectTypeOK
<1>3. Created'
  BY <1>1 DEF TypeInv, TypeOK, Created, Cancel, Threads
<1>4. Loops'
  <2> SUFFICES ASSUME NEW u \in Threads PROVE LoopsOf(u)'
    BY DEF Loops
  <2>1. CASE u = nThreads
    BY <1>1, <2>1 DEF TypeInv, TypeOK, Loops, LoopsOf, Searching, Started,
       Cancel
  <2>2. CASE u # nThreads
    BY <2>2 DEF TypeInv, TypeOK, Loops, LoopsOf, Cancel, Blocks, BlockFiles
  <2> QED BY <2>1, <2>2
<1> QED BY <1>2, <1>3, <1>4 DEF TypeInv

-------------------------------------------------------------------------------
(* run(), all roles. *)

\* ReadIndex keeps the invariant.
LEMMA TypeReadIndex ==
  ASSUME TypeInv, NEW t \in Threads, ReadIndex(t)
  PROVE  TypeInv'
<1>1. TypeOK'
  BY DEF TypeInv, TypeOK, ReadIndex, Points, DectTypeOK
<1>2. Created'
  BY DEF TypeInv, TypeOK, Created, ReadIndex, Threads
<1>3. Loops'
  <2> SUFFICES ASSUME NEW u \in Threads PROVE LoopsOf(u)'
    BY DEF Loops
  <2>1. CASE u = t
    BY <2>1 DEF TypeInv, TypeOK, Loops, LoopsOf, Searching, Started,
       ReadIndex, Blocks, BlockFiles
  <2>2. CASE u # t
    BY <2>2 DEF TypeInv, TypeOK, Loops, LoopsOf, ReadIndex, Blocks, BlockFiles
  <2> QED BY <2>1, <2>2
<1> QED BY <1>1, <1>2, <1>3 DEF TypeInv

\* Signal keeps the invariant.
LEMMA TypeSignal ==
  ASSUME TypeInv, NEW t \in Threads, Signal(t)
  PROVE  TypeInv'
<1>1. TypeOK'
  BY DEF TypeInv, TypeOK, Signal, Points, DectTypeOK
<1>2. Created'
  BY DEF TypeInv, TypeOK, Created, Signal, Threads
<1>3. Loops'
  <2> SUFFICES ASSUME NEW u \in Threads PROVE LoopsOf(u)'
    BY DEF Loops
  <2>1. CASE u = t
    BY <2>1 DEF TypeInv, TypeOK, Loops, LoopsOf, Searching, Started, Signal,
       Blocks, BlockFiles
  <2>2. CASE u # t
    BY <2>2 DEF TypeInv, TypeOK, Loops, LoopsOf, Signal, Blocks, BlockFiles
  <2> QED BY <2>1, <2>2
<1> QED BY <1>1, <1>2, <1>3 DEF TypeInv

\* ResetIndex keeps the invariant.
LEMMA TypeResetIndex ==
  ASSUME TypeInv, NEW t \in Threads, ResetIndex(t)
  PROVE  TypeInv'
<1>1. TypeOK'
  BY DEF TypeInv, TypeOK, ResetIndex, Points, DectTypeOK
<1>2. Created'
  BY DEF TypeInv, TypeOK, Created, ResetIndex, Threads
<1>3. Loops'
  <2> SUFFICES ASSUME NEW u \in Threads PROVE LoopsOf(u)'
    BY DEF Loops
  <2>1. CASE u = t
    BY <2>1 DEF TypeInv, TypeOK, Loops, LoopsOf, Searching, Started,
       ResetIndex, Blocks, BlockFiles
  <2>2. CASE u # t
    BY <2>2 DEF TypeInv, TypeOK, Loops, LoopsOf, ResetIndex, Blocks, BlockFiles
  <2> QED BY <2>1, <2>2
<1> QED BY <1>1, <1>2, <1>3 DEF TypeInv

\* EnterCs keeps the invariant.
LEMMA TypeEnterCs ==
  ASSUME TypeInv, NEW t \in Threads, EnterCs(t)
  PROVE  TypeInv'
<1>1. TypeOK'
  BY DEF TypeInv, TypeOK, EnterCs, Points, DectTypeOK
<1>2. Created'
  BY DEF TypeInv, TypeOK, Created, EnterCs, Threads
<1>3. Loops'
  <2> SUFFICES ASSUME NEW u \in Threads PROVE LoopsOf(u)'
    BY DEF Loops
  <2>1. CASE u = t
    BY <2>1 DEF TypeInv, TypeOK, Loops, LoopsOf, Searching, Started, EnterCs,
       Blocks, BlockFiles
  <2>2. CASE u # t
    BY <2>2 DEF TypeInv, TypeOK, Loops, LoopsOf, EnterCs, Blocks, BlockFiles
  <2> QED BY <2>1, <2>2
<1> QED BY <1>1, <1>2, <1>3 DEF TypeInv

\* LeaveCs keeps the invariant.
LEMMA TypeLeaveCs ==
  ASSUME TypeInv, NEW t \in Threads, LeaveCs(t)
  PROVE  TypeInv'
<1>1. TypeOK'
  BY DEF TypeInv, TypeOK, LeaveCs, Points, DectTypeOK
<1>2. Created'
  BY DEF TypeInv, TypeOK, Created, LeaveCs, Threads
<1>3. Loops'
  <2> SUFFICES ASSUME NEW u \in Threads PROVE LoopsOf(u)'
    BY DEF Loops
  <2>1. CASE u = t
    BY <2>1 DEF TypeInv, TypeOK, Loops, LoopsOf, Searching, Started, LeaveCs,
       Blocks, BlockFiles
  <2>2. CASE u # t
    BY <2>2 DEF TypeInv, TypeOK, Loops, LoopsOf, LeaveCs, Blocks, BlockFiles
  <2> QED BY <2>1, <2>2
<1> QED BY <1>1, <1>2, <1>3 DEF TypeInv

-------------------------------------------------------------------------------
(* run(), the data of thread 0. *)

\* FillFiles keeps the invariant.
LEMMA TypeFillFiles ==
  ASSUME TypeInv, NEW t \in Threads, FillFiles(t)
  PROVE  TypeInv'
<1> DEFINE d == Defs[outer[t] + 1]
<1>1. outer[t] \in Nat /\ outer[t] < Len(Defs) /\ files \in Seq(Files)
  BY DEF TypeInv, TypeOK, FillFiles
<1>2. d \in Seq(Files) /\ Len(d) \in Nat
  <2>1. outer[t] + 1 \in 1..Len(Defs)
    BY <1>1, ConstantsTyped
  <2>2. d \in Seq(Files)
    BY <2>1, ConstantsTyped, ElementOfSeq
  <2> QED BY <2>2, LenProperties
<1>3. files' = files \o d /\ bound' = [bound EXCEPT ![t] = bound[t] + Len(d)]
      /\ outer' = [outer EXCEPT ![t] = outer[t] + 1]
  BY DEF FillFiles
<1> HIDE DEF d
<1>4. files' \in Seq(Files) /\ Len(files') = Len(files) + Len(d)
  BY <1>1, <1>2, <1>3, ConcatProperties
<1>5. bound' \in [Threads -> Nat] /\ outer' \in [Threads -> Nat]
  BY <1>2, <1>3, BumpNat DEF TypeInv, TypeOK
<1>6. TypeOK'
  BY <1>4, <1>5 DEF TypeInv, TypeOK, FillFiles, DectTypeOK
<1>7. Created'
  BY DEF TypeInv, TypeOK, Created, FillFiles, Threads
<1>8. Loops'
  <2> SUFFICES ASSUME NEW u \in Threads PROVE LoopsOf(u)'
    BY DEF Loops
  <2>1. Len(files) \in Nat
    BY <1>1, LenProperties
  <2>2. CASE u = t
    <3>1. pc[t] = "fill" /\ pc' = pc /\ th' = th
      BY DEF FillFiles
    <3>2. bound'[t] = bound[t] + Len(d) /\ outer'[t] = outer[t] + 1
      BY <1>3 DEF TypeInv, TypeOK
    <3>3. th[t] = 0 /\ bound[t] <= Len(files) /\ bound[t] \in Nat
      BY <3>1 DEF TypeInv, TypeOK, Loops, LoopsOf
    <3>4. bound'[t] <= Len(files')
      BY <1>2, <1>4, <2>1, <3>2, <3>3
    <3>5. outer'[t] <= Len(Defs)
      BY <1>1, <3>2, ConstantsTyped
    <3> QED BY <2>2, <3>1, <3>3, <3>4, <3>5 DEF LoopsOf, Searching, Started
  <2>3. CASE u # t
    <3>1. /\ pc' = pc /\ th' = th /\ inner' = inner /\ found' = found
          /\ regVector' = regVector
      BY DEF FillFiles
    <3>2. bound'[u] = bound[u] /\ outer'[u] = outer[u] /\ bound[u] \in Nat
      BY <1>3, <2>3 DEF TypeInv, TypeOK
    <3>3. LoopsOf(u)
      BY DEF TypeInv, Loops
    <3>4. Len(BlockFiles(u)') = Len(BlockFiles(u)) /\ Blocks(u)' = Blocks(u)
      BY <1>1, <1>4, <3>1, <3>2 DEF BlockFiles, Blocks
    <3>5. bound[u] <= Len(files) => bound[u] <= Len(files')
      BY <1>2, <1>4, <2>1, <3>2
    <3> QED BY <3>1, <3>2, <3>3, <3>4, <3>5 DEF LoopsOf
  <2> QED BY <2>2, <2>3
<1> QED BY <1>6, <1>7, <1>8 DEF TypeInv

\* FillRegs keeps the invariant.
LEMMA TypeFillRegs ==
  ASSUME TypeInv, NEW t \in Threads, FillRegs(t)
  PROVE  TypeInv'
<1>1. TypeOK'
  <2>1. regVector' \in Seq(RegKeys)
    BY ConstantsTyped DEF TypeInv, TypeOK, FillRegs
  <2> QED BY <2>1 DEF TypeInv, TypeOK, FillRegs, Points, DectTypeOK
<1>2. Created'
  BY DEF TypeInv, TypeOK, Created, FillRegs, Threads
<1>3. Loops'
  <2> SUFFICES ASSUME NEW u \in Threads PROVE LoopsOf(u)'
    BY DEF Loops
  <2>1. CASE u = t
    BY <2>1 DEF TypeInv, TypeOK, Loops, LoopsOf, Searching, Started, FillRegs
  <2>2. CASE u # t
    <3>1. /\ pc'[u] = pc[u] /\ th' = th /\ outer'[u] = outer[u]
          /\ inner' = inner /\ bound' = bound /\ found' = found
          /\ files' = files /\ outer[u] \in Nat
      BY <2>2 DEF TypeInv, TypeOK, FillRegs
    <3>2. LoopsOf(u)
      BY DEF TypeInv, Loops
    <3>3. BlockFiles(u)' = BlockFiles(u) /\ Blocks(u)' = Blocks(u)
      BY <3>1 DEF BlockFiles, Blocks
    <3>4. outer[u] < Len(regVector) => regVector' = regVector
      BY <3>1 DEF FillRegs
    <3> QED BY <3>1, <3>2, <3>3, <3>4 DEF LoopsOf
  <2> QED BY <2>1, <2>2
<1> QED BY <1>1, <1>2, <1>3 DEF TypeInv

\* PostInit keeps the invariant.
LEMMA TypePostInit ==
  ASSUME TypeInv, NEW t \in Threads, PostInit(t)
  PROVE  TypeInv'
<1>1. TypeOK'
  <2>1. [msg |-> "INIT_READY", val |-> TotalWork(t)] \in Messages
    BY TotalWorkTyped DEF Messages
  <2>2. posted' \in Seq(Messages)
    BY <2>1, PostTyped DEF PostInit
  <2> QED BY <2>2 DEF TypeInv, TypeOK, PostInit, Points, DectTypeOK
<1>2. Created'
  BY DEF TypeInv, TypeOK, Created, PostInit, Threads
<1>3. Loops'
  <2> SUFFICES ASSUME NEW u \in Threads PROVE LoopsOf(u)'
    BY DEF Loops
  <2>1. CASE u = t
    BY <2>1 DEF TypeInv, TypeOK, Loops, LoopsOf, Searching, Started, PostInit,
       Blocks,
                BlockFiles
  <2>2. CASE u # t
    BY <2>2 DEF TypeInv, TypeOK, Loops, LoopsOf, PostInit, Blocks, BlockFiles
  <2> QED BY <2>1, <2>2
<1> QED BY <1>1, <1>2, <1>3 DEF TypeInv

\* SetReady keeps the invariant.
LEMMA TypeSetReady ==
  ASSUME TypeInv, NEW t \in Threads, SetReady(t)
  PROVE  TypeInv'
<1>1. TypeOK'
  BY DEF TypeInv, TypeOK, SetReady, Points, DectTypeOK
<1>2. Created'
  BY DEF TypeInv, TypeOK, Created, SetReady, Threads
<1>3. Loops'
  <2> SUFFICES ASSUME NEW u \in Threads PROVE LoopsOf(u)'
    BY DEF Loops
  <2>1. CASE u = t
    BY <2>1 DEF TypeInv, TypeOK, Loops, LoopsOf, Searching, Started, SetReady,
       Blocks, BlockFiles
  <2>2. CASE u # t
    BY <2>2 DEF TypeInv, TypeOK, Loops, LoopsOf, SetReady, Blocks, BlockFiles
  <2> QED BY <2>1, <2>2
<1> QED BY <1>1, <1>2, <1>3 DEF TypeInv

-------------------------------------------------------------------------------
(* run(), the search for files. *)

\* Await keeps the invariant.
LEMMA TypeAwait ==
  ASSUME TypeInv, NEW t \in Threads, Await(t)
  PROVE  TypeInv'
<1>1. TypeOK'
  BY DEF TypeInv, TypeOK, Await, Points, DectTypeOK, TakeDataReady
<1>2. Created'
  BY DEF TypeInv, TypeOK, Created, Await, Threads
<1>3. Loops'
  <2> SUFFICES ASSUME NEW u \in Threads PROVE LoopsOf(u)'
    BY DEF Loops
  <2>1. CASE u = t
    BY <2>1 DEF TypeInv, TypeOK, Loops, LoopsOf, Searching, Started, Await,
       Blocks, BlockFiles
  <2>2. CASE u # t
    BY <2>2 DEF TypeInv, TypeOK, Loops, LoopsOf, Await, Blocks, BlockFiles
  <2> QED BY <2>1, <2>2
<1> QED BY <1>1, <1>2, <1>3 DEF TypeInv

\* Resignal keeps the invariant.
LEMMA TypeResignal ==
  ASSUME TypeInv, NEW t \in Threads, Resignal(t)
  PROVE  TypeInv'
<1>1. TypeOK'
  BY DEF TypeInv, TypeOK, Resignal, Points, DectTypeOK, ResignalDataReady
<1>2. Created'
  BY DEF TypeInv, TypeOK, Created, Resignal, Threads
<1>3. Loops'
  <2> SUFFICES ASSUME NEW u \in Threads PROVE LoopsOf(u)'
    BY DEF Loops
  <2>1. CASE u = t
    BY <2>1 DEF TypeInv, TypeOK, Loops, LoopsOf, Searching, Started, Resignal,
       Blocks, BlockFiles
  <2>2. CASE u # t
    BY <2>2 DEF TypeInv, TypeOK, Loops, LoopsOf, Resignal, Blocks, BlockFiles
  <2> QED BY <2>1, <2>2
<1> QED BY <1>1, <1>2, <1>3 DEF TypeInv

\* SkipDrive keeps the invariant.
LEMMA TypeSkipDrive ==
  ASSUME TypeInv, NEW t \in Threads, SkipDrive(t)
  PROVE  TypeInv'
<1>1. TypeOK'
  <2>1. outer' \in [Threads -> Nat]
    BY BumpNat DEF TypeInv, TypeOK, SkipDrive
  <2> QED
    BY <2>1 DEF TypeInv, TypeOK, SkipDrive, Points, DectTypeOK
<1>2. Created'
  BY DEF TypeInv, TypeOK, Created, SkipDrive, Threads
<1>3. Loops'
  <2> SUFFICES ASSUME NEW u \in Threads PROVE LoopsOf(u)'
    BY DEF Loops
  <2>1. CASE u = t
    BY <2>1 DEF TypeInv, TypeOK, Loops, LoopsOf, Searching, Started,
       SkipDrive, Blocks, BlockFiles
  <2>2. CASE u # t
    BY <2>2 DEF TypeInv, TypeOK, Loops, LoopsOf, SkipDrive, Blocks, BlockFiles
  <2> QED BY <2>1, <2>2
<1> QED BY <1>1, <1>2, <1>3 DEF TypeInv

\* ChangeDir keeps the invariant.
LEMMA TypeChangeDir ==
  ASSUME TypeInv, NEW t \in Threads, ChangeDir(t)
  PROVE  TypeInv'
<1>1. TypeOK'
  <2>1. cwd' \in Dirs
    BY EngineAssumption DEF TypeInv, TypeOK, ChangeDir, Loops, LoopsOf,
       BlockDir, Blocks
  <2>2. inner' \in [Threads -> Nat]
    BY DEF TypeInv, TypeOK, ChangeDir
  <2> QED
    BY <2>1, <2>2 DEF TypeInv, TypeOK, ChangeDir, Points, DectTypeOK
<1>2. Created'
  BY DEF TypeInv, TypeOK, Created, ChangeDir, Threads
<1>3. Loops'
  <2> SUFFICES ASSUME NEW u \in Threads PROVE LoopsOf(u)'
    BY DEF Loops
  <2>1. CASE u = t
    BY <2>1 DEF TypeInv, TypeOK, Loops, LoopsOf, Searching, Started,
       ChangeDir, Blocks, BlockFiles
  <2>2. CASE u # t
    BY <2>2 DEF TypeInv, TypeOK, Loops, LoopsOf, ChangeDir, Blocks, BlockFiles
  <2> QED BY <2>1, <2>2
<1> QED BY <1>1, <1>2, <1>3 DEF TypeInv

\* SearchOver keeps the invariant.
LEMMA TypeSearchOver ==
  ASSUME TypeInv, NEW t \in Threads, SearchOver(t)
  PROVE  TypeInv'
<1>1. TypeOK'
  BY DEF TypeInv, TypeOK, SearchOver, Points, DectTypeOK
<1>2. Created'
  BY DEF TypeInv, TypeOK, Created, SearchOver, Threads
<1>3. Loops'
  <2> SUFFICES ASSUME NEW u \in Threads PROVE LoopsOf(u)'
    BY DEF Loops
  <2>1. CASE u = t
    BY <2>1 DEF TypeInv, TypeOK, Loops, LoopsOf, Searching, Started,
       SearchOver, Blocks, BlockFiles
  <2>2. CASE u # t
    BY <2>2 DEF TypeInv, TypeOK, Loops, LoopsOf, SearchOver, Blocks, BlockFiles
  <2> QED BY <2>1, <2>2
<1> QED BY <1>1, <1>2, <1>3 DEF TypeInv

\* FindHit keeps the invariant.
LEMMA TypeFindHit ==
  ASSUME TypeInv, NEW t \in Threads, FindHit(t)
  PROVE  TypeInv'
<1>1. TypeOK'
  BY DEF TypeInv, TypeOK, FindHit, Points, DectTypeOK
<1>2. Created'
  BY DEF TypeInv, TypeOK, Created, FindHit, Threads
<1>3. Loops'
  <2> SUFFICES ASSUME NEW u \in Threads PROVE LoopsOf(u)'
    BY DEF Loops
  <2>1. CASE u = t
    BY <2>1 DEF TypeInv, TypeOK, Loops, LoopsOf, Searching, Started, FindHit,
       Blocks, BlockFiles
  <2>2. CASE u # t
    BY <2>2 DEF TypeInv, TypeOK, Loops, LoopsOf, FindHit, Blocks, BlockFiles
  <2> QED BY <2>1, <2>2
<1> QED BY <1>1, <1>2, <1>3 DEF TypeInv

\* FindValid keeps the invariant.
LEMMA TypeFindValid ==
  ASSUME TypeInv, NEW t \in Threads, FindValid(t)
  PROVE  TypeInv'
<1>1. TypeOK'
  <2>1. inner' \in [Threads -> Nat]
    BY BumpNat DEF TypeInv, TypeOK, FindValid
  <2> QED
    BY <2>1 DEF TypeInv, TypeOK, FindValid, Points, DectTypeOK
<1>2. Created'
  BY DEF TypeInv, TypeOK, Created, FindValid, Threads
<1>3. Loops'
  <2> SUFFICES ASSUME NEW u \in Threads PROVE LoopsOf(u)'
    BY DEF Loops
  <2>1. CASE u = t
    BY <2>1 DEF TypeInv, TypeOK, Loops, LoopsOf, Searching, Started,
       FindValid, Blocks, BlockFiles
  <2>2. CASE u # t
    BY <2>2 DEF TypeInv, TypeOK, Loops, LoopsOf, FindValid, Blocks, BlockFiles
  <2> QED BY <2>1, <2>2
<1> QED BY <1>1, <1>2, <1>3 DEF TypeInv

\* FindMiss keeps the invariant.
LEMMA TypeFindMiss ==
  ASSUME TypeInv, NEW t \in Threads, FindMiss(t)
  PROVE  TypeInv'
<1>1. TypeOK'
  <2>1. inner' \in [Threads -> Nat]
    BY BumpNat DEF TypeInv, TypeOK, FindMiss
  <2>2. increments' \in Nat
    BY DEF TypeInv, TypeOK, FindMiss, Increment
  <2> QED
    BY <2>1, <2>2 DEF TypeInv, TypeOK, FindMiss, Points, DectTypeOK
<1>2. Created'
  BY DEF TypeInv, TypeOK, Created, FindMiss, Threads
<1>3. Loops'
  <2> SUFFICES ASSUME NEW u \in Threads PROVE LoopsOf(u)'
    BY DEF Loops
  <2>1. CASE u = t
    BY <2>1 DEF TypeInv, TypeOK, Loops, LoopsOf, Searching, Started, FindMiss,
       Blocks, BlockFiles
  <2>2. CASE u # t
    BY <2>2 DEF TypeInv, TypeOK, Loops, LoopsOf, FindMiss, Blocks, BlockFiles
  <2> QED BY <2>1, <2>2
<1> QED BY <1>1, <1>2, <1>3 DEF TypeInv

\* BlockOver keeps the invariant.
LEMMA TypeBlockOver ==
  ASSUME TypeInv, NEW t \in Threads, BlockOver(t)
  PROVE  TypeInv'
<1>1. TypeOK'
  <2>1. outer' \in [Threads -> Nat]
    BY BumpNat DEF TypeInv, TypeOK, BlockOver
  <2> QED
    BY <2>1 DEF TypeInv, TypeOK, BlockOver, Points, DectTypeOK
<1>2. Created'
  BY DEF TypeInv, TypeOK, Created, BlockOver, Threads
<1>3. Loops'
  <2> SUFFICES ASSUME NEW u \in Threads PROVE LoopsOf(u)'
    BY DEF Loops
  <2>1. CASE u = t
    BY <2>1 DEF TypeInv, TypeOK, Loops, LoopsOf, Searching, Started,
       BlockOver, Blocks, BlockFiles
  <2>2. CASE u # t
    BY <2>2 DEF TypeInv, TypeOK, Loops, LoopsOf, BlockOver, Blocks, BlockFiles
  <2> QED BY <2>1, <2>2
<1> QED BY <1>1, <1>2, <1>3 DEF TypeInv

\* FullPath keeps the invariant.
LEMMA TypeFullPath ==
  ASSUME TypeInv, NEW t \in Threads, FullPath(t)
  PROVE  TypeInv'
<1>1. pc[t] = "fullpath" /\ inner[t] < Len(BlockFiles(t))
  BY DEF TypeInv, Loops, LoopsOf, Searching, FullPath
<1>2. GetFullPathName(t) \in Paths
  <2>1. File(t) \in Files
    BY <1>1, FileTyped DEF Searching
  <2> QED BY <2>1 DEF TypeInv, TypeOK, GetFullPathName, Paths
<1>3. TypeOK'
  <2>1. found' \in [Threads -> Paths \cup {NoPath}]
    BY <1>2 DEF TypeInv, TypeOK, FullPath
  <2> QED
    BY <2>1 DEF TypeInv, TypeOK, FullPath, Points, DectTypeOK
<1>4. Created'
  BY DEF TypeInv, TypeOK, Created, FullPath, Threads
<1>5. Loops'
  <2> SUFFICES ASSUME NEW u \in Threads PROVE LoopsOf(u)'
    BY DEF Loops
  <2>1. CASE u = t
    <3>1. found'[t] \in Paths
      BY <1>2 DEF TypeInv, TypeOK, FullPath
    <3> QED
      BY <1>1, <2>1, <3>1 DEF TypeInv, TypeOK, Loops, LoopsOf, Searching,
                              Started, FullPath, Blocks, BlockFiles
  <2>2. CASE u # t
    BY <2>2 DEF TypeInv, TypeOK, Loops, LoopsOf, FullPath, Blocks, BlockFiles
  <2> QED BY <2>1, <2>2
<1> QED BY <1>3, <1>4, <1>5 DEF TypeInv

-------------------------------------------------------------------------------
(* run(), the detections. *)

\* LockDects keeps the invariant.
LEMMA TypeLockDects ==
  ASSUME TypeInv, NEW t \in Threads, LockDects(t)
  PROVE  TypeInv'
<1>1. TypeOK'
  BY DEF TypeInv, TypeOK, LockDects, Points, DectTypeOK
<1>2. Created'
  BY DEF TypeInv, TypeOK, Created, LockDects, Threads
<1>3. Loops'
  <2> SUFFICES ASSUME NEW u \in Threads PROVE LoopsOf(u)'
    BY DEF Loops
  <2>1. CASE u = t
    BY <2>1 DEF TypeInv, TypeOK, Loops, LoopsOf, Searching, Started,
       LockDects, Blocks, BlockFiles
  <2>2. CASE u # t
    BY <2>2 DEF TypeInv, TypeOK, Loops, LoopsOf, LockDects, Blocks, BlockFiles
  <2> QED BY <2>1, <2>2
<1> QED BY <1>1, <1>2, <1>3 DEF TypeInv

\* EnterHwnd keeps the invariant.
LEMMA TypeEnterHwnd ==
  ASSUME TypeInv, NEW t \in Threads, EnterHwnd(t)
  PROVE  TypeInv'
<1>1. TypeOK'
  BY DEF TypeInv, TypeOK, EnterHwnd, Points, DectTypeOK
<1>2. Created'
  BY DEF TypeInv, TypeOK, Created, EnterHwnd, Threads
<1>3. Loops'
  <2> SUFFICES ASSUME NEW u \in Threads PROVE LoopsOf(u)'
    BY DEF Loops
  <2>1. CASE u = t
    BY <2>1 DEF TypeInv, TypeOK, Loops, LoopsOf, Searching, Started,
       EnterHwnd, Blocks, BlockFiles
  <2>2. CASE u # t
    BY <2>2 DEF TypeInv, TypeOK, Loops, LoopsOf, EnterHwnd, Blocks, BlockFiles
  <2> QED BY <2>1, <2>2
<1> QED BY <1>1, <1>2, <1>3 DEF TypeInv

\* AddFile keeps the invariant.
LEMMA TypeAddFile ==
  ASSUME TypeInv, NEW t \in Threads, AddFile(t)
  PROVE  TypeInv'
<1>1. TypeOK'
  BY DEF TypeInv, TypeOK, AddFile, Points, DectTypeOK
<1>2. Created'
  BY DEF TypeInv, TypeOK, Created, AddFile, Threads
<1>3. Loops'
  <2> SUFFICES ASSUME NEW u \in Threads PROVE LoopsOf(u)'
    BY DEF Loops
  <2>1. CASE u = t
    BY <2>1 DEF TypeInv, TypeOK, Loops, LoopsOf, Searching, Started, AddFile,
       Blocks, BlockFiles
  <2>2. CASE u # t
    BY <2>2 DEF TypeInv, TypeOK, Loops, LoopsOf, AddFile, Blocks, BlockFiles
  <2> QED BY <2>1, <2>2
<1> QED BY <1>1, <1>2, <1>3 DEF TypeInv

\* AddFilePush keeps the invariant.
LEMMA TypeAddFilePush ==
  ASSUME TypeInv, NEW t \in Threads, AddFilePush(t)
  PROVE  TypeInv'
<1>1. TypeOK'
  <2>1. found[t] \in Paths
    BY DEF TypeInv, Loops, LoopsOf, Searching, AddFilePush
  <2>2. Filepaths' \in Seq(Paths)
    BY <2>1, AppendProperties DEF TypeInv, TypeOK, DectTypeOK, AddFilePush,
       PushFile
  <2> QED BY <2>2 DEF TypeInv, TypeOK, AddFilePush, Points, DectTypeOK
<1>2. Created'
  BY DEF TypeInv, TypeOK, Created, AddFilePush, Threads
<1>3. Loops'
  <2> SUFFICES ASSUME NEW u \in Threads PROVE LoopsOf(u)'
    BY DEF Loops
  <2>1. CASE u = t
    BY <2>1 DEF TypeInv, TypeOK, Loops, LoopsOf, Searching, Started,
       AddFilePush, Blocks,
                BlockFiles
  <2>2. CASE u # t
    BY <2>2 DEF TypeInv, TypeOK, Loops, LoopsOf, AddFilePush, Blocks,
       BlockFiles
  <2> QED BY <2>1, <2>2
<1> QED BY <1>1, <1>2, <1>3 DEF TypeInv

\* AddFileNotify keeps the invariant.
LEMMA TypeAddFileNotify ==
  ASSUME TypeInv, NEW t \in Threads, AddFileNotify(t)
  PROVE  TypeInv'
<1>1. TypeOK'
  <2>1. posted' \in Seq(Messages)
    BY DEF TypeInv, TypeOK, AddFileNotify, Post, Messages, DectTypeOK
  <2> QED
    BY <2>1 DEF TypeInv, TypeOK, AddFileNotify, Points, DectTypeOK
<1>2. Created'
  BY DEF TypeInv, TypeOK, Created, AddFileNotify, Threads
<1>3. Loops'
  <2> SUFFICES ASSUME NEW u \in Threads PROVE LoopsOf(u)'
    BY DEF Loops
  <2>1. CASE u = t
    BY <2>1 DEF TypeInv, TypeOK, Loops, LoopsOf, Searching, Started,
       AddFileNotify, Blocks, BlockFiles
  <2>2. CASE u # t
    BY <2>2 DEF TypeInv, TypeOK, Loops, LoopsOf, AddFileNotify, Blocks,
       BlockFiles
  <2> QED BY <2>1, <2>2
<1> QED BY <1>1, <1>2, <1>3 DEF TypeInv

\* AddFileAdvance keeps the invariant.
LEMMA TypeAddFileAdvance ==
  ASSUME TypeInv, NEW t \in Threads, AddFileAdvance(t)
  PROVE  TypeInv'
<1>1. TypeOK'
  <2>1. path_iter' \in Nat
    BY DEF TypeInv, TypeOK, AddFileAdvance, DectTypeOK
  <2> QED
    BY <2>1 DEF TypeInv, TypeOK, AddFileAdvance, Points, DectTypeOK
<1>2. Created'
  BY DEF TypeInv, TypeOK, Created, AddFileAdvance, Threads
<1>3. Loops'
  <2> SUFFICES ASSUME NEW u \in Threads PROVE LoopsOf(u)'
    BY DEF Loops
  <2>1. CASE u = t
    BY <2>1 DEF TypeInv, TypeOK, Loops, LoopsOf, Searching, Started,
       AddFileAdvance, Blocks, BlockFiles
  <2>2. CASE u # t
    BY <2>2 DEF TypeInv, TypeOK, Loops, LoopsOf, AddFileAdvance, Blocks,
       BlockFiles
  <2> QED BY <2>1, <2>2
<1> QED BY <1>1, <1>2, <1>3 DEF TypeInv

\* AddName keeps the invariant.
LEMMA TypeAddName ==
  ASSUME TypeInv, NEW t \in Threads, AddName(t)
  PROVE  TypeInv'
<1>1. TypeOK'
  <2>1. pc[t] = "namecs" /\ inner[t] < Len(BlockFiles(t))
    BY DEF TypeInv, Loops, LoopsOf, Searching, AddName
  <2>2. File(t) \in Files
    BY <2>1, FileTyped DEF Searching
  <2>3. names' \in Seq(Files)
    BY <2>2, AppendProperties DEF TypeInv, TypeOK, DectTypeOK, AddName, addName
  <2> QED BY <2>3 DEF TypeInv, TypeOK, AddName, Points, DectTypeOK
<1>2. Created'
  BY DEF TypeInv, TypeOK, Created, AddName, Threads
<1>3. Loops'
  <2> SUFFICES ASSUME NEW u \in Threads PROVE LoopsOf(u)'
    BY DEF Loops
  <2>1. CASE u = t
    BY <2>1 DEF TypeInv, TypeOK, Loops, LoopsOf, Searching, Started, AddName,
       Blocks,
                BlockFiles
  <2>2. CASE u # t
    BY <2>2 DEF TypeInv, TypeOK, Loops, LoopsOf, AddName, Blocks, BlockFiles
  <2> QED BY <2>1, <2>2
<1> QED BY <1>1, <1>2, <1>3 DEF TypeInv

\* UnlockDects keeps the invariant.
LEMMA TypeUnlockDects ==
  ASSUME TypeInv, NEW t \in Threads, UnlockDects(t)
  PROVE  TypeInv'
<1>1. TypeOK'
  <2>1. inner' \in [Threads -> Nat]
    BY BumpNat DEF TypeInv, TypeOK, UnlockDects
  <2>2. increments' \in Nat
    BY DEF TypeInv, TypeOK, UnlockDects, Increment
  <2> QED
    BY <2>1, <2>2 DEF TypeInv, TypeOK, UnlockDects, Points, DectTypeOK
<1>2. Created'
  BY DEF TypeInv, TypeOK, Created, UnlockDects, Threads
<1>3. Loops'
  <2> SUFFICES ASSUME NEW u \in Threads PROVE LoopsOf(u)'
    BY DEF Loops
  <2>1. CASE u = t
    BY <2>1 DEF TypeInv, TypeOK, Loops, LoopsOf, Searching, Started,
       UnlockDects, Blocks, BlockFiles
  <2>2. CASE u # t
    BY <2>2 DEF TypeInv, TypeOK, Loops, LoopsOf, UnlockDects, Blocks,
       BlockFiles
  <2> QED BY <2>1, <2>2
<1> QED BY <1>1, <1>2, <1>3 DEF TypeInv

-------------------------------------------------------------------------------
(* run(), the registry. *)

\* OpenKey keeps the invariant.
LEMMA TypeOpenKey ==
  ASSUME TypeInv, NEW t \in Threads, OpenKey(t)
  PROVE  TypeInv'
<1>1. TypeOK'
  <2>1. Key(t).values \in Seq(Values)
    BY KeyTyped DEF OpenKey, RegKeys
  <2>2. Len(Key(t).values) \in Nat
    BY <2>1, LenProperties
  <2>3. bound' \in [Threads -> Nat] /\ inner' \in [Threads -> Nat]
    BY <2>2 DEF TypeInv, TypeOK, OpenKey
  <2> QED BY <2>3 DEF TypeInv, TypeOK, OpenKey, Points, DectTypeOK
<1>2. Created'
  BY DEF TypeInv, TypeOK, Created, OpenKey, Threads
<1>3. Loops'
  <2> SUFFICES ASSUME NEW u \in Threads PROVE LoopsOf(u)'
    BY DEF Loops
  <2>1. CASE u = t
    BY <2>1 DEF TypeInv, TypeOK, Loops, LoopsOf, Searching, Started, OpenKey,
       Blocks,
                BlockFiles
  <2>2. CASE u # t
    BY <2>2 DEF TypeInv, TypeOK, Loops, LoopsOf, OpenKey, Blocks, BlockFiles
  <2> QED BY <2>1, <2>2
<1> QED BY <1>1, <1>2, <1>3 DEF TypeInv

\* KeysOver keeps the invariant.
LEMMA TypeKeysOver ==
  ASSUME TypeInv, NEW t \in Threads, KeysOver(t)
  PROVE  TypeInv'
<1>1. TypeOK'
  BY DEF TypeInv, TypeOK, KeysOver, Points, DectTypeOK
<1>2. Created'
  BY DEF TypeInv, TypeOK, Created, KeysOver, Threads
<1>3. Loops'
  <2> SUFFICES ASSUME NEW u \in Threads PROVE LoopsOf(u)'
    BY DEF Loops
  <2>1. CASE u = t
    BY <2>1 DEF TypeInv, TypeOK, Loops, LoopsOf, Searching, Started, KeysOver,
       Blocks, BlockFiles
  <2>2. CASE u # t
    BY <2>2 DEF TypeInv, TypeOK, Loops, LoopsOf, KeysOver, Blocks, BlockFiles
  <2> QED BY <2>1, <2>2
<1> QED BY <1>1, <1>2, <1>3 DEF TypeInv

\* QueryPresent keeps the invariant.
LEMMA TypeQueryPresent ==
  ASSUME TypeInv, NEW t \in Threads, QueryPresent(t)
  PROVE  TypeInv'
<1>1. TypeOK'
  <2>1. increments' = increments + 1 /\ increments \in Nat
    BY DEF TypeInv, TypeOK, QueryPresent, Increment
  <2>2. inner' \in [Threads -> Nat]
    BY BumpNat DEF TypeInv, TypeOK, QueryPresent
  <2>3. someExist' \in [Threads -> BOOLEAN]
    BY DEF TypeInv, TypeOK, QueryPresent, SomeExists
  <2>4. UNCHANGED <<guiVars, syncVars, cwd, dataVars, posted, pc, th, outer,
                    bound, found, locth, dectVars>>
    BY DEF QueryPresent
  <2>5. increments' \in Nat
    BY <2>1
  <2>6. DectTypeOK'
    BY <2>4 DEF TypeInv, TypeOK, DectTypeOK
  <2> QED BY <2>2, <2>3, <2>4, <2>5, <2>6 DEF TypeInv, TypeOK
<1>2. Created'
  BY DEF TypeInv, TypeOK, Created, QueryPresent, Threads
<1>3. Loops'
  <2> SUFFICES ASSUME NEW u \in Threads PROVE LoopsOf(u)'
    BY DEF Loops
  <2>1. CASE u = t
    BY <2>1 DEF TypeInv, TypeOK, Loops, LoopsOf, Searching, Started,
       QueryPresent, Blocks,
                BlockFiles
  <2>2. CASE u # t
    BY <2>2 DEF TypeInv, TypeOK, Loops, LoopsOf, QueryPresent, Blocks,
       BlockFiles
  <2> QED BY <2>1, <2>2
<1> QED BY <1>1, <1>2, <1>3 DEF TypeInv

\* QueryAbsent keeps the invariant.
LEMMA TypeQueryAbsent ==
  ASSUME TypeInv, NEW t \in Threads, QueryAbsent(t)
  PROVE  TypeInv'
<1>1. pc[t] = "query" /\ outer[t] < Len(regVector)
  BY DEF TypeInv, Loops, LoopsOf, QueryAbsent
<1>2. regVector' \in Seq(RegKeys) /\ Len(regVector') = Len(regVector)
  <2> DEFINE s == RemoveAt(Key(t).values, inner[t] + 1)
  <2>1. Key(t).values \in Seq(Values)
    BY <1>1, KeyTyped DEF RegKeys
  <2>2. inner[t] + 1 \in 1..Len(Key(t).values)
    <3>1. inner[t] \in Nat /\ inner[t] < Len(Key(t).values)
      BY DEF TypeInv, TypeOK, QueryAbsent
    <3> QED BY <2>1, <3>1, LenProperties
  <2>3. s \in Seq(Values)
    BY <2>1, <2>2, RemoveAtTyped
  <2>4. regVector' = [regVector EXCEPT ![outer[t] + 1].values = s]
    BY DEF QueryAbsent, Key
  <2> HIDE DEF s
  <2> QED BY <1>1, <2>3, <2>4, EraseTyped
<1>3. inner' \in [Threads -> Nat] /\ increments' \in Nat
  <2>1. increments' = increments + 1 /\ increments \in Nat
    BY DEF TypeInv, TypeOK, QueryAbsent, Increment
  <2>2. inner' \in [Threads -> Nat]
    BY BumpNat DEF TypeInv, TypeOK, QueryAbsent
  <2> QED BY <2>1, <2>2
<1>4. TypeOK'
  BY <1>2, <1>3 DEF TypeInv, TypeOK, QueryAbsent, DectTypeOK
<1>5. Created'
  BY DEF TypeInv, TypeOK, Created, QueryAbsent, Threads
<1>6. Loops'
  <2> SUFFICES ASSUME NEW u \in Threads PROVE LoopsOf(u)'
    BY DEF Loops
  <2>1. /\ pc' = pc /\ th' = th /\ outer' = outer /\ bound' = bound
        /\ files' = files /\ found' = found
    BY DEF QueryAbsent
  <2>2. LoopsOf(u)
    BY DEF TypeInv, Loops
  <2>3. CASE u = t
    BY <1>1, <1>2, <2>1, <2>2, <2>3 DEF LoopsOf, Searching, Started
  <2>4. CASE u # t
    <3>1. inner'[u] = inner[u]
      BY <2>4 DEF TypeInv, TypeOK, QueryAbsent
    <3> QED BY <1>2, <2>1, <2>2, <3>1 DEF LoopsOf, BlockFiles, Blocks
  <2> QED BY <2>3, <2>4
<1> QED BY <1>4, <1>5, <1>6 DEF TypeInv

\* QueryBeyond keeps the invariant.
LEMMA TypeQueryBeyond ==
  ASSUME TypeInv, NEW t \in Threads, QueryBeyond(t)
  PROVE  TypeInv'
<1>1. pc[t] = "query" /\ outer[t] < Len(regVector)
  BY DEF TypeInv, Loops, LoopsOf, QueryBeyond
<1>2. regVector' \in Seq(RegKeys) /\ Len(regVector') = Len(regVector)
  <2> DEFINE s == SubSeq(Key(t).values, 1, Len(Key(t).values) - 1)
  <2>1. Key(t).values \in Seq(Values)
    BY <1>1, KeyTyped DEF RegKeys
  <2>2. s \in Seq(Values)
    BY <2>1
  <2>3. \/ regVector' = regVector
        \/ regVector' = [regVector EXCEPT ![outer[t] + 1].values = s]
    BY DEF QueryBeyond, Key
  <2> HIDE DEF s
  <2>4. CASE regVector' = regVector
    BY <2>4 DEF TypeInv, TypeOK
  <2>5. CASE regVector' = [regVector EXCEPT ![outer[t] + 1].values = s]
    BY <1>1, <2>2, <2>5, EraseTyped
  <2> QED BY <2>3, <2>4, <2>5
<1>3. inner' \in [Threads -> Nat] /\ increments' \in Nat
  <2>1. increments' = increments + 1 /\ increments \in Nat
    BY DEF TypeInv, TypeOK, QueryBeyond, Increment
  <2>2. inner' \in [Threads -> Nat]
    BY BumpNat DEF TypeInv, TypeOK, QueryBeyond
  <2> QED BY <2>1, <2>2
<1>4. someExist' \in [Threads -> BOOLEAN]
  BY DEF TypeInv, TypeOK, QueryBeyond, SomeExists
<1>5. TypeOK'
  BY <1>2, <1>3, <1>4 DEF TypeInv, TypeOK, QueryBeyond, DectTypeOK
<1>6. Created'
  BY DEF TypeInv, TypeOK, Created, QueryBeyond, Threads
<1>7. Loops'
  <2> SUFFICES ASSUME NEW u \in Threads PROVE LoopsOf(u)'
    BY DEF Loops
  <2>1. /\ pc' = pc /\ th' = th /\ outer' = outer /\ bound' = bound
        /\ files' = files /\ found' = found
    BY DEF QueryBeyond
  <2>2. LoopsOf(u)
    BY DEF TypeInv, Loops
  <2>3. CASE u = t
    BY <1>1, <1>2, <2>1, <2>2, <2>3 DEF LoopsOf, Searching, Started
  <2>4. CASE u # t
    <3>1. inner'[u] = inner[u]
      BY <2>4 DEF TypeInv, TypeOK, QueryBeyond
    <3> QED BY <1>2, <2>1, <2>2, <3>1 DEF LoopsOf, BlockFiles, Blocks
  <2> QED BY <2>3, <2>4
<1> QED BY <1>5, <1>6, <1>7 DEF TypeInv

\* ValuesOver keeps the invariant.
LEMMA TypeValuesOver ==
  ASSUME TypeInv, NEW t \in Threads, ValuesOver(t)
  PROVE  TypeInv'
<1>1. TypeOK'
  BY DEF TypeInv, TypeOK, ValuesOver, Points, DectTypeOK
<1>2. Created'
  BY DEF TypeInv, TypeOK, Created, ValuesOver, Threads
<1>3. Loops'
  <2> SUFFICES ASSUME NEW u \in Threads PROVE LoopsOf(u)'
    BY DEF Loops
  <2>1. CASE u = t
    BY <2>1 DEF TypeInv, TypeOK, Loops, LoopsOf, Searching, Started,
       ValuesOver, Blocks, BlockFiles
  <2>2. CASE u # t
    BY <2>2 DEF TypeInv, TypeOK, Loops, LoopsOf, ValuesOver, Blocks, BlockFiles
  <2> QED BY <2>1, <2>2
<1> QED BY <1>1, <1>2, <1>3 DEF TypeInv

\* AddReg keeps the invariant.
LEMMA TypeAddReg ==
  ASSUME TypeInv, NEW t \in Threads, AddReg(t)
  PROVE  TypeInv'
<1>1. TypeOK'
  <2>1. Key(t) \in RegKeys
    BY KeyTyped DEF TypeInv, Loops, LoopsOf, AddReg
  <2>2. regS' \in Seq(RegKeys)
    <3>1. regS \in Seq(RegKeys)
      BY DEF TypeInv, TypeOK, DectTypeOK
    <3>2. regS' = Append(regS, Key(t)) \/ regS' = regS
      BY DEF AddReg, addReg
    <3> QED BY <2>1, <3>1, <3>2, AppendProperties
  <2>3. outer' \in [Threads -> Nat]
    BY BumpNat DEF TypeInv, TypeOK, AddReg
  <2> QED BY <2>2, <2>3 DEF TypeInv, TypeOK, AddReg, Points, DectTypeOK
<1>2. Created'
  BY DEF TypeInv, TypeOK, Created, AddReg, Threads
<1>3. Loops'
  <2> SUFFICES ASSUME NEW u \in Threads PROVE LoopsOf(u)'
    BY DEF Loops
  <2>1. CASE u = t
    BY <2>1 DEF TypeInv, TypeOK, Loops, LoopsOf, Searching, Started, AddReg,
       Blocks,
                BlockFiles
  <2>2. CASE u # t
    BY <2>2 DEF TypeInv, TypeOK, Loops, LoopsOf, AddReg, Blocks, BlockFiles
  <2> QED BY <2>1, <2>2
<1> QED BY <1>1, <1>2, <1>3 DEF TypeInv

-------------------------------------------------------------------------------
(* run(), the counted end. *)

\* CountWait keeps the invariant.
LEMMA TypeCountWait ==
  ASSUME TypeInv, NEW t \in Threads, CountWait(t)
  PROVE  TypeInv'
<1>1. TypeOK'
  BY DEF TypeInv, TypeOK, CountWait, Points, DectTypeOK
<1>2. Created'
  BY DEF TypeInv, TypeOK, Created, CountWait, Threads
<1>3. Loops'
  <2> SUFFICES ASSUME NEW u \in Threads PROVE LoopsOf(u)'
    BY DEF Loops
  <2>1. CASE u = t
    BY <2>1 DEF TypeInv, TypeOK, Loops, LoopsOf, Searching, Started,
       CountWait, Blocks, BlockFiles
  <2>2. CASE u # t
    BY <2>2 DEF TypeInv, TypeOK, Loops, LoopsOf, CountWait, Blocks, BlockFiles
  <2> QED BY <2>1, <2>2
<1> QED BY <1>1, <1>2, <1>3 DEF TypeInv

\* CountBump keeps the invariant.
LEMMA TypeCountBump ==
  ASSUME TypeInv, NEW t \in Threads, CountBump(t)
  PROVE  TypeInv'
<1>1. TypeOK'
  <2>1. threadDone' \in Nat
    BY DEF TypeInv, TypeOK, CountBump
  <2> QED
    BY <2>1 DEF TypeInv, TypeOK, CountBump, Points, DectTypeOK
<1>2. Created'
  BY DEF TypeInv, TypeOK, Created, CountBump, Threads
<1>3. Loops'
  <2> SUFFICES ASSUME NEW u \in Threads PROVE LoopsOf(u)'
    BY DEF Loops
  <2>1. CASE u = t
    BY <2>1 DEF TypeInv, TypeOK, Loops, LoopsOf, Searching, Started,
       CountBump, Blocks, BlockFiles
  <2>2. CASE u # t
    BY <2>2 DEF TypeInv, TypeOK, Loops, LoopsOf, CountBump, Blocks, BlockFiles
  <2> QED BY <2>1, <2>2
<1> QED BY <1>1, <1>2, <1>3 DEF TypeInv

\* CountTake keeps the invariant.
LEMMA TypeCountTake ==
  ASSUME TypeInv, NEW t \in Threads, CountTake(t)
  PROVE  TypeInv'
<1>1. TypeOK'
  BY DEF TypeInv, TypeOK, CountTake, Points, DectTypeOK
<1>2. Created'
  BY DEF TypeInv, TypeOK, Created, CountTake, Threads
<1>3. Loops'
  <2> SUFFICES ASSUME NEW u \in Threads PROVE LoopsOf(u)'
    BY DEF Loops
  <2>1. CASE u = t
    BY <2>1 DEF TypeInv, TypeOK, Loops, LoopsOf, Searching, Started,
       CountTake, Blocks, BlockFiles
  <2>2. CASE u # t
    BY <2>2 DEF TypeInv, TypeOK, Loops, LoopsOf, CountTake, Blocks, BlockFiles
  <2> QED BY <2>1, <2>2
<1> QED BY <1>1, <1>2, <1>3 DEF TypeInv

\* Report keeps the invariant.
LEMMA TypeReport ==
  ASSUME TypeInv, NEW t \in Threads, Report(t)
  PROVE  TypeInv'
<1>1. TypeOK'
  <2>1. [msg |-> "DONE", val |-> 0] \in Messages
    BY DEF Messages
  <2>2. CASE Post("DONE", 0)
    <3>1. posted' \in Seq(Messages)
      BY <2>1, <2>2, PostTyped
    <3> QED BY <3>1 DEF TypeInv, TypeOK, Report, Points, DectTypeOK
  <2>3. CASE UNCHANGED posted
    BY <2>3 DEF TypeInv, TypeOK, Report, Points, DectTypeOK
  <2> QED BY <2>2, <2>3 DEF Report
<1>2. Created'
  BY DEF TypeInv, TypeOK, Created, Report, Threads
<1>3. Loops'
  <2> SUFFICES ASSUME NEW u \in Threads PROVE LoopsOf(u)'
    BY DEF Loops
  <2>1. CASE u = t
    BY <2>1 DEF TypeInv, TypeOK, Loops, LoopsOf, Searching, Started, Report,
       Blocks,
                BlockFiles
  <2>2. CASE u # t
    BY <2>2 DEF TypeInv, TypeOK, Loops, LoopsOf, Report, Blocks, BlockFiles
  <2> QED BY <2>1, <2>2
<1> QED BY <1>1, <1>2, <1>3 DEF TypeInv

-------------------------------------------------------------------------------
\* The invariant holds in the initial states.
LEMMA TypeInit == Init => TypeInv
<1> SUFFICES ASSUME Init PROVE TypeInv
  OBVIOUS
<1>1. pc \in [Threads -> Points]
  BY DEF Init, Points
<1>2. StartDir \in Dirs /\ MaxChecks \in Nat /\ MaxCancels \in Nat
  BY EngineAssumption
<1>3. TypeOK
  <2>1. /\ Filepaths = <<>> /\ names = <<>> /\ regS = <<>> /\ path_iter = 0
    BY DEF Init, DectInit
  <2>2. DectTypeOK
    BY <2>1 DEF DectTypeOK
  <2>3. th \in [Threads -> Nat] /\ locth \in [Threads -> Nat]
    BY DEF Init
  <2>4. outer \in [Threads -> Nat] /\ inner \in [Threads -> Nat]
        /\ bound \in [Threads -> Nat]
    BY DEF Init
  <2>5. /\ found \in [Threads -> Paths \cup {NoPath}]
        /\ someExist \in [Threads -> BOOLEAN]
    BY DEF Init
  <2>6. /\ files \in Seq(Files) /\ regVector \in Seq(RegKeys)
        /\ posted \in Seq(Messages)
    BY DEF Init
  <2>7. /\ checks \in 0..MaxChecks /\ cancels \in 0..MaxCancels
        /\ nThreads \in 0..3 * MaxChecks
    BY <1>2 DEF Init
  <2>8. cwd \in Dirs
    BY <1>2 DEF Init
  <2>9. /\ gpc \in {"idle", "wait", "store", "reset"} /\ gleft \in 0..2
        /\ gload \in Nat /\ threadIndex \in Nat /\ threadDone \in Nat
        /\ increments \in Nat
    BY DEF Init
  <2>10. hEvent \in BOOLEAN /\ hDataReady \in BOOLEAN
    BY DEF Init
  <2>11. /\ hMdect \in Threads \cup {NoThread}
         /\ hTDone \in Threads \cup {NoThread}
         /\ cs \in Threads \cup {NoThread}
    BY DEF Init
  <2> QED
    BY <1>1, <2>2, <2>3, <2>4, <2>5, <2>6, <2>7, <2>8, <2>9,
       <2>10, <2>11 DEF TypeOK
<1>4. Created
  BY DEF Init, Created, Threads
<1>5. Loops
  <2> SUFFICES ASSUME NEW t \in Threads PROVE LoopsOf(t)
    BY DEF Loops
  <2>1. pc[t] = "off" /\ outer[t] = 0 /\ bound[t] = 0 /\ files = <<>>
    BY DEF Init
  <2> QED BY <2>1 DEF LoopsOf, Searching, Started
<1> QED BY <1>3, <1>4, <1>5 DEF TypeInv

\* Every step of a thread keeps the invariant.
LEMMA TypeRun ==
  ASSUME TypeInv, NEW t \in Threads, run(t)
  PROVE  TypeInv'
<1>1. CASE RunAny(t)
  BY <1>1, TypeReadIndex, TypeSignal, TypeResetIndex, TypeEnterCs, TypeLeaveCs
     DEF RunAny
<1>2. CASE RunFill(t)
  BY <1>2, TypeFillFiles, TypeFillRegs, TypePostInit, TypeSetReady DEF RunFill
<1>3. CASE RunSearch(t)
  BY <1>3, TypeAwait, TypeResignal, TypeSkipDrive, TypeChangeDir,
     TypeSearchOver, TypeFindHit, TypeFindValid, TypeFindMiss, TypeBlockOver,
     TypeFullPath DEF RunSearch
<1>4. CASE RunDetect(t)
  BY <1>4, TypeLockDects, TypeEnterHwnd, TypeAddFile, TypeAddFilePush,
     TypeAddFileNotify, TypeAddFileAdvance, TypeAddName, TypeUnlockDects
     DEF RunDetect
<1>5. CASE RunRegistry(t)
  BY <1>5, TypeOpenKey, TypeKeysOver, TypeQueryPresent, TypeQueryAbsent,
     TypeQueryBeyond, TypeValuesOver, TypeAddReg DEF RunRegistry
<1>6. CASE RunCount(t)
  BY <1>6, TypeCountWait, TypeCountBump, TypeCountTake, TypeReport DEF RunCount
<1> QED BY <1>1, <1>2, <1>3, <1>4, <1>5, <1>6 DEF run

\* Every step of the program keeps the invariant.
LEMMA TypeNext ==
  ASSUME TypeInv, [Next]_vars
  PROVE  TypeInv'
<1>1. CASE Check
  BY <1>1, TypeCheck
<1>2. CASE _switch
  BY <1>2, TypeSwitchWait, TypeSwitchStore, TypeSwitchReset DEF _switch
<1>3. CASE Cancel
  BY <1>3, TypeCancel
<1>4. ASSUME NEW t \in Threads, run(t) PROVE TypeInv'
  BY <1>4, TypeRun
<1>5. CASE UNCHANGED vars
  <2>1. TypeOK'
    BY <1>5 DEF TypeInv, TypeOK, DectTypeOK
  <2>2. Created'
    BY <1>5 DEF TypeInv, Created
  <2>3. Loops'
    BY <1>5 DEF TypeInv, Loops, LoopsOf, Blocks, BlockFiles
  <2> QED BY <2>1, <2>2, <2>3 DEF TypeInv
<1> QED BY <1>1, <1>2, <1>3, <1>4, <1>5 DEF Next

\* The strengthened invariant, for the proofs that build on it.  By Loops no
\* thread of run() reads a folder, a file or a key outside the lists it indexes.
THEOREM TypeInvariant == Spec => []TypeInv
<1>1. TypeInv /\ [Next]_vars => TypeInv'
  BY TypeNext
<1> QED BY <1>1, TypeInit, PTL DEF Spec

\* TypeOK holds of every check, for any number of folders, drives, definitions
\* and keys.
THEOREM TypeCorrect == Spec => []TypeOK
<1>1. TypeInv => TypeOK
  BY DEF TypeInv
<1> QED BY <1>1, TypeInvariant, PTL
============================================================================
