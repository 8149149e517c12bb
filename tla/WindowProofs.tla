---------------------------- MODULE WindowProofs ----------------------------
(***************************************************************************)
(* The window and the engine together, for every value of the constants:   *)
(* what the handlers read of the list and of the queue is there, and is    *)
(* what the threads meant.  A step of Window is a step of Engine or leaves *)
(* the engine alone, so that what is proved of the engine holds here.      *)
(***************************************************************************)
EXTENDS Window, EngineLog

USE DEF guiVars, indexVars, eventVars, lockVars, syncVars, dataVars, msgVars,
        loopVars, valueVars, dectVars, vars, Goto, Step, Acquire, WaitDects,
        mhThread, barVars, winVars, windowVars, Queue

-----------------------------------------------------------------------------
(* The engine inside the window.                                             *)

\* The window of this module never cancels.
EngineInv ==
  /\ TypeInv /\ LockDiscipline /\ ListInv /\ NumberInv /\ CountInv /\ SealInv
  /\ cancels = 0

\* What the engine has put out is only added to, and a message is not posted in
\* the same step as a WM_INCREMENT_WD.
Grown ==
  /\ increments' \in Nat /\ increments' >= increments
  /\ Len(posted') \in {Len(posted), Len(posted) + 1}
  /\ \A i \in 1..Len(posted) : posted'[i] = posted[i]
  /\ Len(posted') > Len(posted) => increments' = increments
  /\ Len(Filepaths') \in Nat /\ Len(Filepaths') >= Len(Filepaths)
  /\ \A i \in 1..Len(Filepaths) : Filepaths'[i] = Filepaths[i]
  /\ path_iter' >= path_iter

\* The lists as they were.
LEMMA GrownSame ==
  ASSUME TypeInv, UNCHANGED <<posted, Filepaths, path_iter>>,
         increments' \in {increments, increments + 1}
  PROVE  Grown
<1>1. increments \in Nat
  BY DEF TypeInv, TypeOK
<1>2. path_iter \in Nat /\ Len(posted) \in Nat /\ Len(Filepaths) \in Nat
  BY ListTyped
<1> QED BY <1>1, <1>2, SMTT(30) DEF Grown

\* A number more.
LEMMA GrownAdvance ==
  ASSUME TypeInv, UNCHANGED <<posted, increments, Filepaths>>,
         path_iter' >= path_iter
  PROVE  Grown
<1>1. increments \in Nat
  BY DEF TypeInv, TypeOK
<1>2. Len(posted) \in Nat /\ Len(Filepaths) \in Nat
  BY ListTyped
<1> QED BY <1>1, <1>2, SMTT(30) DEF Grown

\* One message more.
LEMMA GrownPost ==
  ASSUME TypeInv, UNCHANGED <<increments, Filepaths>>, path_iter' >= path_iter,
         NEW m, NEW v, [msg |-> m, val |-> v] \in Messages, Post(m, v)
  PROVE  Grown
<1>1. increments \in Nat
  BY DEF TypeInv, TypeOK
<1> QED BY <1>1, ListTyped, Appended DEF Grown

\* Every step of a thread only adds.
LEMMA GrownRun ==
  ASSUME TypeInv, NEW t \in Threads, run(t)
  PROVE  Grown
<1> USE GrownSame DEF Increment
<1>1. CASE RunAny(t)
  BY <1>1 DEF RunAny, ReadIndex, Signal, ResetIndex, EnterCs, LeaveCs
<1>2. CASE RunFill(t)
  <2>1. CASE PostInit(t)
    <3>1. [msg |-> "INIT_READY", val |-> TotalWork(t)] \in Messages
      BY TotalWorkTyped DEF Messages
    <3> QED BY <2>1, <3>1, GrownPost, ListTyped DEF PostInit
  <2> QED BY <1>2, <2>1 DEF RunFill, FillFiles, FillRegs, SetReady
<1>3. CASE RunSearch(t)
  BY <1>3 DEF RunSearch, Await, Resignal, SkipDrive, ChangeDir, SearchOver,
     FindHit, FindValid, FindMiss, BlockOver, FullPath
<1>4. CASE RunDetect(t)
  <2>1. CASE AddFilePush(t)
    <3>1. pc[t] = "push" /\ found[t] \in Paths
      BY <2>1 DEF AddFilePush, TypeInv, Loops, LoopsOf, Searching
    <3>2. increments \in Nat
      BY DEF TypeInv, TypeOK
    <3> QED BY <2>1, <3>1, <3>2, ListTyped, AppendProperties
            DEF AddFilePush, PushFile, Grown
  <2>2. CASE AddFileNotify(t)
    <3>1. [msg |-> "DETECTION", val |-> path_iter] \in Messages
      BY ListTyped DEF Messages
    <3> QED BY <2>2, <3>1, GrownPost, ListTyped DEF AddFileNotify
  <2>3. CASE AddFileAdvance(t)
    <3>1. UNCHANGED <<posted, increments, Filepaths>>
      BY <2>3 DEF AddFileAdvance
    <3>2. path_iter' >= path_iter
      BY <2>3, ListTyped DEF AddFileAdvance
    <3> QED BY <3>1, <3>2, GrownAdvance
  <2> QED BY <1>4, <2>1, <2>2, <2>3 DEF RunDetect, LockDects, AddFile, AddName,
             UnlockDects, EnterHwnd
<1>5. CASE RunRegistry(t)
  BY <1>5 DEF RunRegistry, OpenKey, KeysOver, QueryPresent, QueryAbsent,
     QueryBeyond, ValuesOver, AddReg
<1>6. CASE RunCount(t)
  <2>1. CASE Report(t) /\ AllDone(t)
    <3>1. [msg |-> "DONE", val |-> 0] \in Messages
      BY DEF Messages
    <3> QED BY <2>1, <3>1, GrownPost, ListTyped DEF Report
  <2> QED BY <1>6, <2>1 DEF RunCount, CountWait, CountBump, CountTake, Report
<1> QED BY <1>1, <1>2, <1>3, <1>4, <1>5, <1>6 DEF run

\* A step of Window is a step of Engine, other than a Cancel.
LEMMA EngineMoves ==
  ASSUME TypeInv, [WindowNext]_windowVars
  PROVE  [Next]_vars /\ cancels' = cancels /\ Grown
<1>1. CASE UNCHANGED windowVars
  BY <1>1, GrownSame
<1>2. CASE Handle
  <2>1. UNCHANGED vars
    BY <1>2 DEF Handle, EngineInitReady, IncrementWd, DetectionAt,
       DetectionCopy, EngineDone
  <2> QED BY <2>1, GrownSame
<1>3. CASE CheckCommand \/ Running(_switch)
  <2>1. Check \/ _switch
    BY <1>3 DEF CheckCommand, Running
  <2>2. UNCHANGED <<posted, increments, Filepaths, path_iter, cancels>>
    BY <2>1 DEF Check, _switch, SwitchWait, SwitchStore, SwitchReset
  <2> QED BY <2>1, <2>2, GrownSame DEF Next
<1>4. ASSUME NEW t \in Threads, Running(run(t))
      PROVE  [Next]_vars /\ cancels' = cancels /\ Grown
  <2>1. run(t)
    BY <1>4 DEF Running
  <2>2. cancels' = cancels
    BY <2>1 DEF run, RunAny, ReadIndex, Signal, ResetIndex, EnterCs, LeaveCs,
       RunFill, FillFiles, FillRegs, PostInit, SetReady,
       RunSearch, Await, Resignal, SkipDrive, ChangeDir, SearchOver, FindHit,
       FindValid, FindMiss, BlockOver, FullPath,
       RunDetect, LockDects, AddFile, AddFilePush, AddFileNotify, AddName,
       UnlockDects, EnterHwnd, AddFileAdvance,
       RunRegistry, OpenKey, KeysOver, QueryPresent, QueryAbsent, QueryBeyond,
       ValuesOver, AddReg,
       RunCount, CountWait, CountBump, CountTake, Report
  <2> QED BY <2>1, <2>2, GrownRun DEF Next
<1> QED BY <1>1, <1>2, <1>3, <1>4 DEF WindowNext

\* What is proved of the engine holds in the window.
LEMMA EngineInvNext ==
  ASSUME EngineInv, [WindowNext]_windowVars
  PROVE  EngineInv'
<1>1. [Next]_vars /\ cancels' = cancels
  BY EngineMoves DEF EngineInv
<1> QED BY <1>1, TypeNext, LockNext, ListNext, NumberNext, CountNext, SealNext
        DEF EngineInv

\* The window starts with the engine in its initial state.
LEMMA EngineInvInit == WindowInit => EngineInv
  BY TypeInit, LockInit, ListInit, NumberInit, CountInit, SealInit
     DEF WindowInit, EngineInv, Init

\* A step of Window changes the engine or the window, not both; in the first
\* case incAt follows the queue.
LEMMA WindowStep ==
  ASSUME TypeInv, [WindowNext]_windowVars
  PROVE  \/ /\ UNCHANGED winVars
            /\ \/ Len(posted') = Len(posted) /\ incAt' = incAt
               \/ /\ Len(posted') = Len(posted) + 1
                  /\ incAt' = Append(incAt, increments)
         \/ Handle /\ UNCHANGED <<vars, incAt>>
<1>1. /\ Len(posted') \in {Len(posted), Len(posted) + 1} /\ Len(posted) \in Nat
      /\ Len(posted') = Len(posted) => ~(Len(posted') > Len(posted))
      /\ Len(posted') = Len(posted) + 1 => Len(posted') > Len(posted)
  BY EngineMoves, ListTyped DEF Grown
<1>2. CASE WindowNext /\ ~Handle
  BY <1>1, <1>2 DEF WindowNext, CheckCommand, Running
<1>3. Handle => UNCHANGED <<vars, incAt>>
  BY DEF Handle, EngineInitReady, IncrementWd, DetectionAt, DetectionCopy,
     EngineDone
<1>4. CASE UNCHANGED windowVars
  BY <1>4
<1> QED BY <1>2, <1>3, <1>4

-----------------------------------------------------------------------------
(* Types.  A WM_DETECTION carries a number of the list as it is when the     *)
(* message is handled, since the list never gets shorter.                    *)

QueueInv ==
  /\ WindowTypeOK
  /\ \A i \in 1..Len(posted) : incAt[i] <= increments
  /\ wpc = "copy" => handled < Len(posted) /\ Detection(handled + 1)

\* The message handled next, and its value.
LEMMA NextMessage ==
  ASSUME EngineInv, QueueInv, handled < Len(posted)
  PROVE  /\ handled \in Nat /\ handled + 1 \in 1..Len(posted)
         /\ Value \in Nat
         /\ Detection(handled + 1) =>
              Value <= path_iter /\ Value < Len(Filepaths)
<1>1. handled \in Nat /\ handled + 1 \in 1..Len(posted)
  BY ListTyped DEF EngineInv, QueueInv, WindowTypeOK
<1>2. Value = posted[handled + 1].val /\ Value \in Nat
  BY <1>1, ListTyped DEF EngineInv, Value
<1>3. Detection(handled + 1) => Value <= path_iter
  BY <1>1, <1>2 DEF EngineInv, NumberInv, Numbered
<1>4. Detection(handled + 1) => Value < Len(Filepaths)
  BY <1>1, <1>2 DEF EngineInv, NumberInv, Behind
<1> QED BY <1>1, <1>2, <1>3, <1>4

\* The engine's steps.
LEMMA QueueRunning ==
  ASSUME EngineInv, QueueInv, Grown, UNCHANGED winVars,
         \/ Len(posted') = Len(posted) /\ incAt' = incAt
         \/ /\ Len(posted') = Len(posted) + 1
            /\ incAt' = Append(incAt, increments)
  PROVE  QueueInv'
<1> USE ListTyped DEF EngineInv
<1>1. /\ incAt \in Seq(Nat) /\ Len(incAt) = Len(posted)
      /\ increments \in Nat /\ increments' \in Nat /\ increments' >= increments
      /\ handled \in 0..Len(posted) /\ seenLen \in 0..Len(Filepaths)
      /\ incDone \in 0..increments
      /\ \A i \in 1..Len(posted) : incAt[i] \in Nat /\ incAt[i] <= increments
  BY ElementOfSeq DEF QueueInv, WindowTypeOK, Grown, TypeInv, TypeOK
<1>2. /\ incAt' \in Seq(Nat) /\ Len(incAt') = Len(posted')
      /\ \A i \in 1..Len(posted') : incAt'[i] <= increments'
  <2>1. CASE Len(posted') = Len(posted) /\ incAt' = incAt
    BY <1>1, <2>1
  <2>2. CASE Len(posted') = Len(posted) + 1 /\ incAt' = Append(incAt, increments)
    BY <1>1, <2>2, AppendProperties
  <2> QED BY <2>1, <2>2
<1>3. /\ handled' \in 0..Len(posted') /\ seenLen' \in 0..Len(Filepaths')
      /\ incDone' \in 0..increments'
  BY <1>1 DEF Grown
<1>4. wpc' = "copy" => handled' < Len(posted') /\ Detection(handled + 1)'
  <2> SUFFICES ASSUME wpc = "copy"
               PROVE  handled' < Len(posted') /\ Detection(handled + 1)'
    OBVIOUS
  <2>1. handled < Len(posted) /\ posted[handled + 1].msg = "DETECTION"
    BY DEF QueueInv, Detection
  <2>2. handled + 1 \in 1..Len(posted)
    BY <1>1, <2>1
  <2>3. posted'[handled + 1] = posted[handled + 1] /\ handled' < Len(posted')
    BY <1>1, <2>1, <2>2 DEF Grown
  <2> QED BY <2>1, <2>3 DEF Detection
<1> QED BY <1>2, <1>3, <1>4 DEF QueueInv, WindowTypeOK, Detection

\* The bar: every step ends inside the range.
LEMMA BarInside ==
  ASSUME EngineInv, QueueInv, EngineInitReady \/ IncrementWd \/ EngineDone
  PROVE  /\ divs' \in Nat /\ incr' \in Nat
         /\ range' \in Nat /\ step' \in Nat /\ pos' \in 0..range'
<1>1. /\ full \in Nat /\ full > 0 /\ divs \in Nat /\ incr \in Nat
      /\ range \in Nat /\ step \in Nat /\ pos \in Nat /\ pos <= range
  BY WindowAssumption DEF QueueInv, WindowTypeOK
<1>2. CASE EngineInitReady
  <2>1. Value \in Nat
    BY <1>2, NextMessage DEF EngineInitReady, Receives
  <2>2. Value > 0 => Value \div full \in Nat /\ full \div Value \in Nat
    BY <1>1, <2>1
  <2>3. range' \in Nat /\ divs' \in Nat /\ step' \in Nat /\ incr' \in Nat
    BY <1>1, <1>2, <2>1, <2>2 DEF EngineInitReady
  <2>4. pos' \in 0..range'
    BY <1>1, <1>2, <2>1, <2>3 DEF EngineInitReady, Clamped
  <2> QED BY <2>3, <2>4
<1>3. CASE IncrementWd
  <2>1. UNCHANGED <<divs, range, step>> /\ incr' \in Nat
    BY <1>1, <1>3 DEF IncrementWd
  <2>2. pos + step \in Nat
    BY <1>1
  <2>3. ASSUME NEW p \in Nat PROVE Stepped(p) \in 0..range
    BY <1>1 DEF Stepped
  <2>4. pos' = pos \/ pos' = Stepped(pos + step)
    BY <1>3 DEF IncrementWd
  <2> QED BY <1>1, <2>1, <2>2, <2>3, <2>4
<1>4. CASE EngineDone
  BY <1>1, <1>4 DEF EngineDone, Clamped
<1> QED BY <1>2, <1>3, <1>4

\* The copy of a path is one of the list's, or no path.
LEMMA CopyTyped ==
  ASSUME EngineInv, QueueInv, DetectionCopy
  PROVE  /\ shown' \in Seq(Paths \cup {NoPath})
         /\ Len(shown') = Len(shown) + 1 /\ Len(shown) \in Nat
         /\ \A k \in 1..Len(shown) : shown'[k] = shown[k]
         /\ Len(Filepaths) <= Reserve =>
              shown'[Len(shown) + 1] = Filepaths[Value + 1]
<1>1. Value \in Nat /\ Value < Len(Filepaths)
  BY NextMessage DEF DetectionCopy, QueueInv
<1>2. Filepaths[Value + 1] \in Paths
  <2>1. Value + 1 \in 1..Len(Filepaths)
    BY <1>1, ListTyped DEF EngineInv
  <2> QED BY <2>1, ListTyped, ElementOfSeq DEF EngineInv
<1>3. shown \in Seq(Paths \cup {NoPath}) /\ Len(shown) \in Nat
  BY LenProperties DEF QueueInv, WindowTypeOK
<1>4. PICK p \in {Filepaths[Value + 1]}
                 \cup IF MayHaveMoved(seenLen) THEN {NoPath} ELSE {} :
        shown' = Append(shown, p)
  BY DEF DetectionCopy
<1>5. p \in Paths \cup {NoPath}
  BY <1>2, <1>4
<1>6. Len(Filepaths) <= Reserve => p = Filepaths[Value + 1]
  <2>1. Len(Filepaths) <= Reserve => ~(Len(Filepaths) > Reserve)
    BY WindowAssumption, ListTyped DEF EngineInv
  <2> QED BY <1>4, <2>1 DEF MayHaveMoved
<1> QED BY <1>3, <1>4, <1>5, <1>6, AppendProperties

\* The handlers.
LEMMA QueueHandle ==
  ASSUME EngineInv, QueueInv, Handle, UNCHANGED <<vars, incAt>>
  PROVE  QueueInv'
<1> USE ListTyped DEF EngineInv
<1>1. /\ handled \in Nat /\ incDone \in Nat /\ increments \in Nat
      /\ Len(incAt) = Len(posted) /\ incDone <= increments
      /\ \A i \in 1..Len(posted) : incAt[i] \in Nat /\ incAt[i] <= increments
  <2>1. increments \in Nat /\ incAt \in Seq(Nat) /\ Len(incAt) = Len(posted)
        /\ handled \in 0..Len(posted) /\ incDone \in 0..increments
    BY DEF QueueInv, WindowTypeOK, TypeInv, TypeOK
  <2>2. \A i \in 1..Len(posted) : incAt[i] \in Nat /\ incAt[i] <= increments
    BY <2>1, ElementOfSeq DEF QueueInv
  <2> QED BY <2>1, <2>2
<1>2. CASE EngineInitReady \/ EngineDone
  <2>1. handled < Len(posted) /\ wpc = "idle"
    BY <1>2 DEF EngineInitReady, EngineDone, Receives, Waiting
  <2>2. handled' = handled + 1 /\ handled' \in 0..Len(posted)
    BY <1>1, <1>2, <2>1 DEF EngineInitReady, EngineDone
  <2>3. UNCHANGED <<full, incDone, wpc, seenLen, shown>>
        /\ repairEnabled' \in BOOLEAN /\ crashed' \in {"no", "at", "division"}
    BY <1>2 DEF EngineInitReady, EngineDone, QueueInv, WindowTypeOK
  <2> QED BY <1>2, <2>1, <2>2, <2>3, BarInside DEF QueueInv, WindowTypeOK
<1>3. CASE IncrementWd
  <2>1. incDone' = incDone + 1 /\ wpc = "idle"
        /\ UNCHANGED <<full, handled, wpc, seenLen, shown, repairEnabled, crashed>>
    BY <1>3 DEF IncrementWd, Waiting
  <2>2. incDone < increments
    <3>1. handled < Len(posted) => handled + 1 \in 1..Len(posted)
      BY <1>1
    <3> QED BY <1>1, <1>3, <3>1 DEF IncrementWd
  <2>3. incDone' \in 0..increments
    BY <1>1, <2>1, <2>2
  <2> QED BY <1>3, <2>1, <2>3, BarInside DEF QueueInv, WindowTypeOK
<1>4. CASE DetectionAt
  <2>1. handled < Len(posted) /\ Detection(handled + 1)
    BY <1>4 DEF DetectionAt, Receives, Detection
  <2>2. wpc' = "copy" /\ seenLen' = Len(Filepaths) /\ crashed' = crashed
    BY <1>4, <2>1, NextMessage DEF DetectionAt
  <2>3. UNCHANGED <<full, handled, incDone, shown, barVars, repairEnabled>>
    BY <1>4 DEF DetectionAt
  <2> QED BY <2>1, <2>2, <2>3 DEF QueueInv, WindowTypeOK, Detection
<1>5. CASE DetectionCopy
  <2>1. handled < Len(posted)
    BY <1>5 DEF DetectionCopy, QueueInv
  <2>2. handled' \in 0..Len(posted) /\ seenLen' = 0 /\ wpc' = "idle"
        /\ UNCHANGED <<full, incDone, barVars, repairEnabled, crashed>>
    BY <1>1, <1>5, <2>1 DEF DetectionCopy
  <2> QED BY <1>5, <2>2, CopyTyped DEF QueueInv, WindowTypeOK
<1> QED BY <1>2, <1>3, <1>4, <1>5 DEF Handle

\* Every step of Window.
LEMMA QueueNext ==
  ASSUME EngineInv, QueueInv, [WindowNext]_windowVars
  PROVE  QueueInv'
  BY EngineMoves, WindowStep, QueueRunning, QueueHandle DEF EngineInv

\* Nothing is in the queue at first.
LEMMA QueueInit == WindowInit => QueueInv
<1> SUFFICES ASSUME WindowInit PROVE QueueInv
  OBVIOUS
<1>1. full \in Nat /\ full > 0
  BY WindowAssumption DEF WindowInit
<1>2. /\ posted = <<>> /\ incAt = <<>> /\ Filepaths = <<>> /\ shown = <<>>
      /\ increments = 0 /\ handled = 0 /\ incDone = 0 /\ seenLen = 0
      /\ full \in Full /\ wpc = "idle" /\ divs = 0 /\ incr = 0
      /\ range = full /\ step = 10 /\ pos = 0
      /\ repairEnabled = FALSE /\ crashed = "no"
  BY DEF WindowInit, Init, DectInit
<1>3. WindowTypeOK
  <2>1. incAt \in Seq(Nat) /\ shown \in Seq(Paths \cup {NoPath})
    BY <1>2
  <2>2. /\ Len(incAt) = Len(posted) /\ handled \in 0..Len(posted)
        /\ incDone \in 0..increments /\ seenLen \in 0..Len(Filepaths)
    BY <1>2
  <2>3. divs \in Nat /\ incr \in Nat /\ range \in Nat /\ step \in Nat
        /\ pos \in 0..range
    BY <1>1, <1>2
  <2>4. full \in Full /\ wpc \in {"idle", "copy"} /\ repairEnabled \in BOOLEAN
        /\ crashed \in {"no", "at", "division"}
    BY <1>2
  <2> QED BY <2>1, <2>2, <2>3, <2>4 DEF WindowTypeOK
<1> QED BY <1>2, <1>3 DEF QueueInv

\* The engine's invariants and the queue's, in every state of the window.
THEOREM WindowInvariant == WindowSpec => [](EngineInv /\ QueueInv)
  BY EngineInvInit, EngineInvNext, QueueInit, QueueNext, PTL DEF WindowSpec

\* WindowTypeOK, for any definitions, drives, bar and number of checks: the bar
\* is always inside its range.
THEOREM WindowTyped == WindowSpec => []WindowTypeOK
<1>1. QueueInv => WindowTypeOK
  BY DEF QueueInv
<1> QED BY <1>1, WindowInvariant, PTL

\* NeverThrows, for any number of checks: the path a WM_DETECTION numbers is in
\* the list when the message is handled, since it is pushed before.
THEOREM AtNeverThrows == WindowSpec => []NeverThrows
<1>1. WindowInit => NeverThrows
  BY DEF WindowInit, NeverThrows
<1>2. EngineInv /\ QueueInv /\ NeverThrows /\ [WindowNext]_windowVars
        => NeverThrows'
  <2> SUFFICES ASSUME EngineInv, QueueInv, NeverThrows, Handle
               PROVE  NeverThrows'
    BY WindowStep DEF EngineInv, NeverThrows
  <2>1. CASE DetectionAt
    <3>1. handled < Len(posted) /\ Detection(handled + 1)
      BY <2>1 DEF DetectionAt, Receives, Detection
    <3> QED BY <2>1, <3>1, NextMessage DEF DetectionAt, NeverThrows
  <2>2. CASE EngineInitReady
    BY <2>2 DEF EngineInitReady, NeverThrows
  <2>3. CASE IncrementWd \/ DetectionCopy \/ EngineDone
    BY <2>3 DEF IncrementWd, DetectionCopy, EngineDone, NeverThrows
  <2> QED BY <2>1, <2>2, <2>3 DEF Handle
<1> QED BY <1>1, <1>2, WindowInvariant, PTL DEF WindowSpec

-----------------------------------------------------------------------------
(* The lines.  The detections handled are those below the number of lines,   *)
(* and so the next one is for the next line.                                 *)

ReportInv ==
  /\ Len(shown) <= Len(Filepaths)
  /\ \A n \in 0..Len(shown) - 1 :
       \E i \in 1..Len(posted) : Detection(i) /\ posted[i].val = n
  /\ \A i \in 1..Len(posted) : Detection(i) =>
       (i <= handled <=> posted[i].val < Len(shown))
  /\ Len(Filepaths) <= Reserve =>
       \A k \in 1..Len(shown) : shown[k] = Filepaths[k]

\* The numbers used below.
LEMMA ReportTyped ==
  ASSUME EngineInv, QueueInv
  PROVE  /\ shown \in Seq(Paths \cup {NoPath}) /\ Len(shown) \in Nat
         /\ handled \in Nat /\ handled <= Len(posted) /\ path_iter \in Nat
         /\ Len(posted) \in Nat /\ Len(Filepaths) \in Nat
         /\ path_iter <= Len(Filepaths)
         /\ \A i \in 1..Len(posted) : posted[i].val \in Nat
<1>1. shown \in Seq(Paths \cup {NoPath}) /\ handled \in 0..Len(posted)
  BY DEF QueueInv, WindowTypeOK
<1>2. path_iter <= Len(Filepaths)
  BY DEF EngineInv, NumberInv, Behind
<1> QED BY <1>1, <1>2, ListTyped, LenProperties DEF EngineInv

\* The engine's steps: a new detection has a number no line has.
LEMMA ReportRunning ==
  ASSUME EngineInv, QueueInv, ReportInv, EngineInv', Grown, UNCHANGED winVars
  PROVE  ReportInv'
<1> USE ReportTyped
<1>1. /\ Len(posted') \in {Len(posted), Len(posted) + 1}
      /\ \A i \in 1..Len(posted) : posted'[i] = posted[i]
      /\ Len(Filepaths') >= Len(Filepaths) /\ Len(Filepaths') \in Nat
      /\ \A i \in 1..Len(Filepaths) : Filepaths'[i] = Filepaths[i]
      /\ shown' = shown /\ handled' = handled
      /\ posted' \in Seq(Messages)
  BY DEF Grown, EngineInv, TypeInv, TypeOK, DectTypeOK
<1>2. /\ Len(shown') <= Len(Filepaths')
      /\ \A n \in 0..Len(shown') - 1 :
           \E i \in 1..Len(posted') :
             posted'[i].msg = "DETECTION" /\ posted'[i].val = n
  <2>1. Len(shown) <= Len(Filepaths)
    BY DEF ReportInv
  <2>2. ASSUME NEW n \in 0..Len(shown) - 1
        PROVE  \E i \in 1..Len(posted') :
                 posted'[i].msg = "DETECTION" /\ posted'[i].val = n
    <3>1. PICK i \in 1..Len(posted) :
            posted[i].msg = "DETECTION" /\ posted[i].val = n
      BY DEF ReportInv, Detection
    <3> QED BY <1>1, <3>1
  <2> QED BY <1>1, <2>1, <2>2
<1>3. ASSUME NEW i \in 1..Len(posted'), posted'[i].msg = "DETECTION"
      PROVE  i <= handled' <=> posted'[i].val < Len(shown')
  <2>1. CASE i \in 1..Len(posted)
    <3>1. posted[i].msg = "DETECTION" /\ posted'[i] = posted[i]
      BY <1>1, <1>3, <2>1
    <3> QED BY <1>1, <2>1, <3>1 DEF ReportInv, Detection
  <2>2. CASE i = Len(posted) + 1
    <3>1. ~(i <= handled')
      BY <1>1, <2>2
    <3>2. ASSUME posted'[i].val < Len(shown) PROVE FALSE
      <4>1. posted'[i].val \in Nat
        <5>1. posted'[i] \in Messages
          BY <1>1, ElementOfSeq
        <5> QED BY <5>1 DEF Messages
      <4>2. posted'[i].val \in 0..Len(shown) - 1
        BY <3>2, <4>1
      <4>3. PICK j \in 1..Len(posted) :
              posted[j].msg = "DETECTION" /\ posted[j].val = posted'[i].val
        BY <4>2 DEF ReportInv, Detection
      <4>4. /\ j \in 1..Len(posted') /\ j < i /\ posted'[j].msg = "DETECTION"
            /\ posted'[j].val = posted'[i].val
        BY <1>1, <2>2, <4>3
      <4>5. posted'[j].val # posted'[i].val
        BY <1>3, <4>4 DEF EngineInv, NumberInv, Numbered, Detection
      <4> QED BY <4>4, <4>5
    <3> QED BY <1>1, <3>1, <3>2
  <2> QED BY <1>1, <2>1, <2>2
<1>4. ASSUME Len(Filepaths') <= Reserve, NEW k \in 1..Len(shown')
      PROVE  shown'[k] = Filepaths'[k]
  <2>1. Len(Filepaths) <= Reserve /\ k \in 1..Len(Filepaths)
    BY <1>1, <1>4, WindowAssumption DEF ReportInv
  <2> QED BY <1>1, <2>1 DEF ReportInv
<1> QED BY <1>2, <1>3, <1>4 DEF ReportInv, Detection

\* The message being copied has the number of the next line: a smaller number
\* has been handled, and a larger one has a message before it.
LEMMA NextLine ==
  ASSUME EngineInv, QueueInv, ReportInv, DetectionCopy
  PROVE  Value = Len(shown) /\ handled < Len(posted) /\ Detection(handled + 1)
<1> USE ReportTyped
<1>1. handled < Len(posted) /\ Detection(handled + 1)
  BY DEF DetectionCopy, QueueInv
<1>2. /\ handled + 1 \in 1..Len(posted) /\ Value = posted[handled + 1].val
      /\ Value \in Nat /\ Value <= path_iter
  BY <1>1, NextMessage DEF Value
<1>3. ~(Value < Len(shown))
  BY <1>1, <1>2 DEF ReportInv
<1>4. ASSUME Len(shown) < Value PROVE FALSE
  <2>1. Len(shown) \in 0..path_iter - 1
    BY <1>2, <1>4
  <2>2. PICK i \in 1..Len(posted) :
          Detection(i) /\ posted[i].val = Len(shown)
    BY <2>1 DEF EngineInv, NumberInv, Numbered
  <2>3. ~(i <= handled)
    BY <2>2 DEF ReportInv
  <2>4. i = handled + 1 \/ handled + 1 < i
    BY <2>3
  <2>5. CASE i = handled + 1
    BY <1>2, <1>4, <2>2, <2>5
  <2>6. CASE handled + 1 < i
    BY <1>1, <1>2, <1>4, <2>2, <2>6 DEF EngineInv, NumberInv, Numbered
  <2> QED BY <2>4, <2>5, <2>6
<1> QED BY <1>1, <1>2, <1>3, <1>4

\* The handlers.
LEMMA ReportHandle ==
  ASSUME EngineInv, QueueInv, ReportInv, Handle, UNCHANGED <<vars, incAt>>
  PROVE  ReportInv'
<1> USE ReportTyped
<1>1. CASE DetectionCopy
  <2>1. /\ Value = Len(shown) /\ handled < Len(posted) /\ Detection(handled + 1)
        /\ handled' = handled + 1
        /\ handled + 1 \in 1..Len(posted) /\ Value = posted[handled + 1].val
        /\ Value < Len(Filepaths)
    BY <1>1, NextLine, NextMessage DEF DetectionCopy, Value
  <2>2. /\ Len(shown') = Len(shown) + 1
        /\ \A k \in 1..Len(shown) : shown'[k] = shown[k]
        /\ Len(Filepaths) <= Reserve =>
             shown'[Len(shown) + 1] = Filepaths[Value + 1]
    BY <1>1, CopyTyped
  <2>3. ASSUME NEW i \in 1..Len(posted), Detection(i)
        PROVE  i <= handled + 1 <=> posted[i].val < Len(shown) + 1
    <3>1. i <= handled <=> posted[i].val < Len(shown)
      BY <2>3 DEF ReportInv
    <3>2. CASE i <= handled + 1
      BY <2>1, <3>1, <3>2
    <3>3. CASE handled + 1 < i
      <4>1. /\ posted[handled + 1].val <= posted[i].val
            /\ posted[handled + 1].val # posted[i].val
        BY <2>1, <2>3, <3>3 DEF EngineInv, NumberInv, Numbered
      <4> QED BY <2>1, <3>3, <4>1
    <3> QED BY <3>2, <3>3
  <2>4. /\ UNCHANGED <<posted, Filepaths>> /\ Len(shown') <= Len(Filepaths')
        /\ \A n \in 0..Len(shown') - 1 :
             \E i \in 1..Len(posted) : Detection(i) /\ posted[i].val = n
    <3>1. UNCHANGED <<posted, Filepaths>>
      OBVIOUS
    <3>2. Len(shown) + 1 <= Len(Filepaths)
      BY <2>1
    <3>3. ASSUME NEW n \in 0..Len(shown') - 1
          PROVE  \E i \in 1..Len(posted) : Detection(i) /\ posted[i].val = n
      <4>1. CASE n \in 0..Len(shown) - 1
        BY <4>1 DEF ReportInv
      <4>2. CASE n = Len(shown)
        BY <2>1, <4>2
      <4> QED BY <2>2, <4>1, <4>2
    <3> QED BY <2>2, <3>1, <3>2, <3>3
  <2>5. ASSUME Len(Filepaths) <= Reserve, NEW k \in 1..Len(shown')
        PROVE  shown'[k] = Filepaths[k]
    <3>1. CASE k \in 1..Len(shown)
      BY <2>2, <2>5, <3>1 DEF ReportInv
    <3>2. CASE k = Len(shown) + 1
      BY <2>1, <2>2, <2>5, <3>2
    <3> QED BY <2>2, <3>1, <3>2
  <2> QED BY <2>1, <2>2, <2>3, <2>4, <2>5, ZenonT(30) DEF ReportInv, Detection
<1>2. CASE EngineInitReady \/ EngineDone
  <2>1. /\ handled < Len(posted) /\ ~Detection(handled + 1)
        /\ handled' = handled + 1 /\ shown' = shown
    BY <1>2 DEF EngineInitReady, EngineDone, Receives, Detection
  <2>2. \A i \in 1..Len(posted) :
          Detection(i) => (i <= handled + 1 <=> i <= handled)
    BY <2>1, SMTT(30)
  <2> QED BY <2>1, <2>2 DEF ReportInv, Detection
<1>3. CASE IncrementWd \/ DetectionAt
  BY <1>3 DEF IncrementWd, DetectionAt, ReportInv, Detection
<1> QED BY <1>1, <1>2, <1>3 DEF Handle

\* Every step of Window.
LEMMA ReportNext ==
  ASSUME EngineInv, QueueInv, ReportInv, [WindowNext]_windowVars
  PROVE  ReportInv'
<1>1. EngineInv' /\ Grown
  BY EngineInvNext, EngineMoves DEF EngineInv
<1> QED BY <1>1, WindowStep, ReportRunning, ReportHandle DEF EngineInv

\* There are no lines at first.
LEMMA ReportInit == WindowInit => ReportInv
  BY DEF WindowInit, Init, DectInit, ReportInv

\* ReportsList, for any number of checks: as long as the storage of the list does
\* not move, the lines are the list's paths in the list's order.
THEOREM LinesAreTheList == WindowSpec => []ReportsList
<1>1. EngineInv /\ QueueInv /\ ReportInv => ReportsList
  <2> SUFFICES ASSUME EngineInv, QueueInv, ReportInv, Len(Filepaths) <= Reserve
               PROVE  shown = SubSeq(Filepaths, 1, Len(shown))
    BY DEF ReportsList
  <2>1. /\ Filepaths \in Seq(Paths \cup {NoPath})
        /\ Len(shown) <= Len(Filepaths)
    <3>1. Filepaths \in Seq(Paths)
      BY ListTyped DEF EngineInv
    <3> QED BY <3>1, ReportTyped DEF ReportInv
  <2> DEFINE s == SubSeq(Filepaths, 1, Len(shown))
  <2>2. /\ s \in Seq(Paths \cup {NoPath}) /\ Len(s) = Len(shown)
        /\ \A k \in 1..Len(shown) : s[k] = Filepaths[k]
    BY <2>1, ReportTyped
  <2>3. \A k \in 1..Len(shown) : shown[k] = s[k]
    BY <2>2 DEF ReportInv
  <2> HIDE DEF s
  <2>4. shown = s
    BY <2>2, <2>3, ReportTyped, SeqEqual
  <2> QED BY <2>4 DEF s
<1>2. EngineInv /\ QueueInv /\ ReportInv /\ [WindowNext]_windowVars => ReportInv'
  BY ReportNext
<1> QED BY <1>1, <1>2, ReportInit, WindowInvariant, PTL DEF WindowSpec

-----------------------------------------------------------------------------
(* The end.  As long as one check is asked for, nothing comes after          *)
(* WM_ENGINE_DONE: all three threads have ended when it is posted.           *)

EndInv ==
  checks <= 1 =>
    /\ \A i \in 1..Len(posted) :
         posted[i].msg = "DONE" => i = Len(posted) /\ incAt[i] = increments
    /\ repairEnabled =>
         /\ Sent("DONE") /\ handled = Len(posted) /\ incDone = increments
         /\ pos = Clamped(full, range)

\* With the end announced, all three threads have ended ...
LEMMA AllEnded ==
  ASSUME EngineInv, checks <= 1, Sent("DONE")
  PROVE  \A t \in Threads : pc[t] \in Bumped \cup {"off"}
<1> USE CountTyped DEF EngineInv
<1>1. PICK t \in Threads : pc[t] = "done" /\ locth[t] >= 3
  BY DEF SealInv
<1>2. threadDone >= 3
  BY <1>1 DEF CountInv
<1> SUFFICES ASSUME NEW u \in Threads, pc[u] \notin Bumped \cup {"off"}
             PROVE  FALSE
  OBVIOUS
<1>3. threadDone <= 2
  BY Unfinished
<1> QED BY <1>2, <1>3

\* ... and put nothing out any more; the list is what the messages have numbered.
LEMMA NothingAfterEnd ==
  ASSUME EngineInv, checks <= 1, Sent("DONE"), [Next]_vars, cancels' = cancels
  PROVE  UNCHANGED <<msgVars, dectVars>> /\ path_iter = Len(Filepaths)
<1>1. \A t \in Threads : pc[t] \in Bumped \cup {"off"}
  BY AllEnded
<1>2. path_iter = Len(Filepaths)
  BY <1>1 DEF EngineInv, NumberInv, Behind, Bumped, Announcing
<1>3. ASSUME NEW t \in Threads, run(t)
      PROVE  UNCHANGED <<msgVars, dectVars>>
  <2>1. pc[t] \in {"take", "report"}
    BY <1>1, <1>3 DEF Bumped, run, RunAny, ReadIndex, Signal, ResetIndex,
       EnterCs, LeaveCs, RunFill, FillFiles, FillRegs, PostInit, SetReady,
       RunSearch, Await, Resignal, SkipDrive, ChangeDir, SearchOver, FindHit,
       FindValid, FindMiss, BlockOver, FullPath,
       RunDetect, LockDects, AddFile, AddFilePush, AddFileNotify, AddName,
       UnlockDects, EnterHwnd, AddFileAdvance,
       RunRegistry, OpenKey, KeysOver, QueryPresent, QueryAbsent, QueryBeyond,
       ValuesOver, AddReg,
       RunCount, CountWait, CountBump, CountTake, Report
  <2>2. RunCount(t)
    BY <1>3, <2>1 DEF run, RunAny, ReadIndex, Signal, ResetIndex, EnterCs,
       LeaveCs, RunFill, FillFiles, FillRegs, PostInit, SetReady,
       RunSearch, Await, Resignal, SkipDrive, ChangeDir, SearchOver, FindHit,
       FindValid, FindMiss, BlockOver, FullPath,
       RunDetect, LockDects, AddFile, AddFilePush, AddFileNotify, AddName,
       UnlockDects, EnterHwnd, AddFileAdvance,
       RunRegistry, OpenKey, KeysOver, QueryPresent, QueryAbsent, QueryBeyond,
       ValuesOver, AddReg
  <2>3. Report(t) => ~AllDone(t)
    BY SealReport DEF EngineInv
  <2> QED BY <2>1, <2>2, <2>3 DEF RunCount, CountWait, CountBump, CountTake,
             Report
<1>4. CASE Check \/ _switch
  <2>1. UNCHANGED <<posted, increments, Filepaths, names, regS, path_iter>>
    BY <1>4 DEF Check, _switch, SwitchWait, SwitchStore, SwitchReset
  <2> QED BY <1>2, <2>1
<1>5. CASE Cancel
  <2>1. cancels \in Nat /\ cancels' = cancels + 1
    BY <1>5, ListTyped DEF Cancel, EngineInv
  <2> QED BY <2>1
<1> QED BY <1>2, <1>3, <1>4, <1>5 DEF Next

\* A check once asked for stays so.
LEMMA ChecksGrow ==
  ASSUME TypeInv, [Next]_vars
  PROVE  checks' <= 1 => checks <= 1
<1>1. checks \in Nat
  BY CountTyped
<1>2. CASE Check
  BY <1>1, <1>2 DEF Check
<1>3. CASE _switch \/ Cancel
  BY <1>3 DEF _switch, SwitchWait, SwitchStore, SwitchReset, Cancel
<1>4. ASSUME NEW t \in Threads, run(t) PROVE checks' = checks
  BY <1>4 DEF run, RunAny, ReadIndex, Signal, ResetIndex, EnterCs, LeaveCs,
     RunFill, FillFiles, FillRegs, PostInit, SetReady,
     RunSearch, Await, Resignal, SkipDrive, ChangeDir, SearchOver, FindHit,
     FindValid, FindMiss, BlockOver, FullPath,
     RunDetect, LockDects, AddFile, AddFilePush, AddFileNotify, AddName,
     UnlockDects, EnterHwnd, AddFileAdvance,
     RunRegistry, OpenKey, KeysOver, QueryPresent, QueryAbsent, QueryBeyond,
     ValuesOver, AddReg,
     RunCount, CountWait, CountBump, CountTake, Report
<1> QED BY <1>2, <1>3, <1>4 DEF Next

\* The engine's steps.
LEMMA EndRunning ==
  ASSUME EngineInv, QueueInv, EndInv, [Next]_vars, cancels' = cancels, Grown,
         UNCHANGED winVars,
         \/ Len(posted') = Len(posted) /\ incAt' = incAt
         \/ /\ Len(posted') = Len(posted) + 1
            /\ incAt' = Append(incAt, increments)
  PROVE  EndInv'
<1>1. checks' <= 1 => checks <= 1
  BY ChecksGrow DEF EngineInv
<1> SUFFICES ASSUME checks <= 1 PROVE EndInv'
  BY <1>1 DEF EndInv
<1>2. CASE Sent("DONE")
  <2>1. UNCHANGED <<posted, increments>>
    BY <1>2, NothingAfterEnd
  <2>2. incAt' = incAt
    BY <2>1, ListTyped DEF EngineInv
  <2> QED BY <1>2, <2>1, <2>2 DEF EndInv, Sent, Clamped
<1>3. CASE ~Sent("DONE")
  <2>1. ~repairEnabled'
    BY <1>3 DEF EndInv
  <2>2. ASSUME NEW i \in 1..Len(posted'), posted'[i].msg = "DONE"
        PROVE  i = Len(posted') /\ incAt'[i] = increments'
    <3>1. i \notin 1..Len(posted)
      BY <1>3, <2>2 DEF Sent, Grown
    <3>2. i = Len(posted) + 1 /\ Len(posted') = Len(posted) + 1
          /\ Len(posted) \in Nat
      BY <3>1, ListTyped DEF Grown, EngineInv
    <3>3. increments' = increments /\ incAt' = Append(incAt, increments)
      BY <3>2 DEF Grown
    <3>4. incAt \in Seq(Nat) /\ Len(incAt) = Len(posted) /\ increments \in Nat
      BY DEF QueueInv, WindowTypeOK, EngineInv, TypeInv, TypeOK
    <3> QED BY <3>2, <3>3, <3>4, AppendProperties
  <2> QED BY <2>1, <2>2 DEF EndInv
<1> QED BY <1>2, <1>3

\* The handlers.
LEMMA EndHandle ==
  ASSUME EngineInv, QueueInv, EndInv, Handle, UNCHANGED <<vars, incAt>>
  PROVE  EndInv'
<1> SUFFICES ASSUME checks <= 1 PROVE EndInv'
  BY DEF EndInv
<1> USE ReportTyped
<1>1. UNCHANGED <<posted, increments, incAt, checks>>
      /\ Sent("DONE")' = Sent("DONE")
  BY DEF Sent
<1>2. repairEnabled => ~(handled < Len(posted)) /\ incDone = increments
  BY DEF EndInv
<1>3. ASSUME repairEnabled PROVE FALSE
  <2>1. incDone \in Nat /\ increments \in Nat
    BY DEF QueueInv, WindowTypeOK, EngineInv, TypeInv, TypeOK
  <2>2. CASE IncrementWd
    BY <1>2, <1>3, <2>1, <2>2 DEF IncrementWd
  <2>3. CASE DetectionCopy
    BY <1>2, <1>3, <2>3 DEF DetectionCopy, QueueInv
  <2>4. CASE EngineInitReady \/ DetectionAt \/ EngineDone
    BY <1>2, <1>3, <2>4 DEF EngineInitReady, DetectionAt, EngineDone, Receives
  <2> QED BY <2>2, <2>3, <2>4 DEF Handle
<1>4. CASE EngineDone
  <2>1. /\ handled + 1 \in 1..Len(posted) /\ posted[handled + 1].msg = "DONE"
        /\ incDone = incAt[handled + 1]
        /\ handled' = handled + 1 /\ incDone' = incDone
        /\ pos' = Clamped(full, range) /\ full' = full /\ range' = range
    BY <1>4 DEF EngineDone, Receives
  <2>2. handled + 1 = Len(posted) /\ incDone = increments
    BY <2>1 DEF EndInv
  <2>3. Sent("DONE")
    BY <2>1 DEF Sent
  <2> QED BY <1>1, <2>1, <2>2, <2>3 DEF EndInv, Clamped
<1>5. CASE ~EngineDone
  <2>1. ~repairEnabled'
    BY <1>3, <1>5 DEF Handle, EngineInitReady, IncrementWd, DetectionAt,
       DetectionCopy
  <2> QED BY <1>1, <2>1 DEF EndInv
<1> QED BY <1>4, <1>5

\* Every step of Window.
LEMMA EndNext ==
  ASSUME EngineInv, QueueInv, EndInv, [WindowNext]_windowVars
  PROVE  EndInv'
  BY EngineMoves, WindowStep, EndRunning, EndHandle DEF EngineInv

\* Nothing has ended at first.
LEMMA EndInit == WindowInit => EndInv
  BY DEF WindowInit, Init, EndInv

\* DoneShowsAll, as long as the user asks for one check: what Repair is going to
\* delete has been shown when Repair is enabled, and later.
THEOREM AllShownWhenDone == WindowSpec /\ [](checks <= 1) => []DoneShowsAll
<1>1. EngineInv /\ QueueInv /\ ReportInv /\ EndInv /\ checks <= 1
        => DoneShowsAll
  <2> SUFFICES ASSUME EngineInv, QueueInv, ReportInv, EndInv, checks <= 1,
                      repairEnabled
               PROVE  Len(shown) = Len(Filepaths)
    BY DEF DoneShowsAll
  <2> USE ReportTyped
  <2>1. Sent("DONE") /\ handled = Len(posted)
    BY DEF EndInv
  <2>2. path_iter = Len(Filepaths)
    <3>1. \A t \in Threads : pc[t] \notin Announcing
      BY <2>1, AllEnded DEF Bumped, Announcing
    <3> QED BY <3>1 DEF EngineInv, NumberInv, Behind
  <2>3. ASSUME Len(shown) < path_iter PROVE FALSE
    <3>1. Len(shown) \in 0..path_iter - 1
      BY <2>3
    <3>2. PICK i \in 1..Len(posted) :
            Detection(i) /\ posted[i].val = Len(shown)
      BY <3>1 DEF EngineInv, NumberInv, Numbered
    <3> QED BY <2>1, <3>2 DEF ReportInv
  <2> QED BY <2>2, <2>3 DEF ReportInv
<1>2. /\ EngineInv /\ QueueInv /\ ReportInv /\ [WindowNext]_windowVars
           => ReportInv'
      /\ EngineInv /\ QueueInv /\ EndInv /\ [WindowNext]_windowVars => EndInv'
  BY ReportNext, EndNext
<1> QED BY <1>1, <1>2, ReportInit, EndInit, WindowInvariant, PTL DEF WindowSpec

\* BarStaysFull, as long as the user asks for one check: the end fills the bar,
\* and no WM_INCREMENT_WD moves it afterwards.
THEOREM FullAtTheEnd == WindowSpec /\ [](checks <= 1) => []BarStaysFull
<1>1. EndInv /\ checks <= 1 => BarStaysFull
  BY DEF EndInv, BarStaysFull
<1>2. EngineInv /\ QueueInv /\ EndInv /\ [WindowNext]_windowVars => EndInv'
  BY EndNext
<1> QED BY <1>1, <1>2, EndInit, WindowInvariant, PTL DEF WindowSpec

-----------------------------------------------------------------------------
(* The division.  The work announced is 0 only when there are no files: the  *)
(* count of thread 0 covers every definition when it comes to the message.   *)

NoFiles == \A i \in 1..Len(Defs) : Defs[i] = <<>>

WorkInv ==
  /\ \A t \in Threads :
       /\ pc[t] = "fill" =>
            \A i \in 1..outer[t] : Len(Defs[i]) <= bound[t]
       /\ pc[t] \in {"enter", "incs", "init"} /\ th[t] = 0 =>
            \A i \in 1..Len(Defs) : Len(Defs[i]) <= bound[t]
  /\ \A i \in 1..Len(posted) :
       posted[i].msg = "INIT_READY" /\ posted[i].val = 0 => NoFiles

\* A step that fills in nothing, announces nothing and gives nobody the role.
LEMMA WorkFrame ==
  ASSUME WorkInv, posted' = posted,
         \A u \in Threads :
           pc'[u] \in {"fill", "enter", "incs", "init"} =>
             /\ th'[u] = th[u] /\ outer'[u] = outer[u] /\ bound'[u] = bound[u]
             /\ \/ pc'[u] = pc[u]
                \/ pc[u] \in {"enter", "incs", "init"} /\ pc'[u] # "fill"
                \/ pc'[u] # "fill" /\ th[u] # 0
  PROVE  WorkInv'
  BY DEF WorkInv

\* Posting any message but this one.
LEMMA WorkPost ==
  ASSUME TypeInv, WorkInv, NEW m, NEW v, [msg |-> m, val |-> v] \in Messages,
         Post(m, v), m = "INIT_READY" /\ v = 0 => NoFiles,
         \A u \in Threads :
           pc'[u] \in {"fill", "enter", "incs", "init"} =>
             /\ th'[u] = th[u] /\ outer'[u] = outer[u] /\ bound'[u] = bound[u]
             /\ pc'[u] = pc[u]
  PROVE  WorkInv'
<1>1. /\ Len(posted') = Len(posted) + 1 /\ Len(posted) \in Nat
      /\ \A i \in 1..Len(posted) : posted'[i] = posted[i]
      /\ posted'[Len(posted) + 1].msg = m /\ posted'[Len(posted) + 1].val = v
  BY Appended, ListTyped
<1>2. \A i \in 1..Len(posted') : i \in 1..Len(posted) \/ i = Len(posted) + 1
  BY <1>1
<1>3. \A i \in 1..Len(posted') :
        posted'[i].msg = "INIT_READY" /\ posted'[i].val = 0 => NoFiles
  BY <1>1, <1>2 DEF WorkInv
<1> QED BY <1>3 DEF WorkInv

\* One factor of the work is the number of common folders.
LEMMA WorkZero ==
  ASSUME NEW k \in Nat, k > 0, NEW n \in Nat, NEW x \in Nat, k * n + x = 0
  PROVE  n = 0
<1> SUFFICES ASSUME n > 0 PROVE FALSE
  OBVIOUS
<1>1. k * n \in Nat /\ k * n > 0
  BY SMT
<1> QED BY <1>1

\* The message of thread 0.
LEMMA WorkAnnounced ==
  ASSUME Folders # <<>>, TypeInv, WorkInv, NEW t \in Threads, PostInit(t)
  PROVE  WorkInv'
<1>1. pc[t] = "init" /\ th[t] = 0 /\ pc' = [pc EXCEPT ![t] = "ready"]
      /\ Post("INIT_READY", TotalWork(t)) /\ UNCHANGED <<th, outer, bound>>
  BY DEF PostInit, TypeInv, Loops, LoopsOf
<1>2. [msg |-> "INIT_READY", val |-> TotalWork(t)] \in Messages
  BY TotalWorkTyped DEF Messages
<1>3. TotalWork(t) = 0 => NoFiles
  <2> SUFFICES ASSUME TotalWork(t) = 0 PROVE NoFiles
    OBVIOUS
  <2>1. bound[t] \in Nat /\ Len(Defs) \in Nat /\ nd \in Nat /\ Len(Folders) \in Nat
    BY ConstantsTyped DEF TypeInv, TypeOK
  <2>2. Len(Folders) > 0
    BY ConstantsTyped
  <2> DEFINE x == Len(Defs) * bound[t] * nd
  <2>3. x \in Nat
    BY <2>1
  <2>4. Len(Folders) * bound[t] + x = 0
    BY DEF TotalWork
  <2> HIDE DEF x
  <2>5. bound[t] = 0
    BY <2>1, <2>2, <2>3, <2>4, WorkZero
  <2>6. ASSUME NEW i \in 1..Len(Defs) PROVE Defs[i] = <<>>
    <3>1. Len(Defs[i]) <= 0
      BY <1>1, <2>5 DEF WorkInv
    <3>2. Defs[i] \in Seq(Files)
      BY ConstantsTyped, ElementOfSeq
    <3> QED BY <3>1, <3>2
  <2> QED BY <2>6 DEF NoFiles
<1>4. \A u \in Threads : pc'[u] # pc[u] => pc'[u] = "ready"
  BY <1>1, ListTyped
<1> QED BY <1>1, <1>2, <1>3, <1>4, WorkPost

\* The loop of fillFiles.
LEMMA WorkFilled ==
  ASSUME TypeInv, WorkInv, NEW t \in Threads, FillFiles(t) \/ FillRegs(t)
  PROVE  WorkInv'
<1>1. /\ bound \in [Threads -> Nat] /\ outer \in [Threads -> Nat]
      /\ pc \in [Threads -> Points]
      /\ Len(Defs) \in Nat
      /\ \A i \in 1..Len(Defs) : Len(Defs[i]) \in Nat
  BY ConstantsTyped, ElementOfSeq, LenProperties DEF TypeInv, TypeOK
<1>2. CASE FillFiles(t)
  <2>1. /\ pc[t] = "fill" /\ outer[t] < Len(Defs) /\ pc' = pc /\ th' = th
        /\ bound' = [bound EXCEPT ![t] = @ + Len(Defs[outer[t] + 1])]
        /\ outer' = [outer EXCEPT ![t] = @ + 1] /\ posted' = posted
    BY <1>2 DEF FillFiles
  <2>2. ASSUME NEW i \in 1..outer'[t] PROVE Len(Defs[i]) <= bound'[t]
    <3>1. bound'[t] = bound[t] + Len(Defs[outer[t] + 1]) /\ outer'[t] = outer[t] + 1
      BY <1>1, <2>1
    <3>2. Len(Defs[outer[t] + 1]) \in Nat
      BY <1>1, <2>1
    <3>3. CASE i \in 1..outer[t]
      <4>1. Len(Defs[i]) <= bound[t] /\ Len(Defs[i]) \in Nat
        BY <1>1, <2>1, <3>3 DEF WorkInv
      <4> QED BY <1>1, <3>1, <3>2, <4>1
    <3>4. CASE i = outer[t] + 1
      BY <1>1, <3>1, <3>2, <3>4
    <3> QED BY <1>1, <3>1, <3>3, <3>4
  <2>3. \A u \in Threads : u # t => bound'[u] = bound[u] /\ outer'[u] = outer[u]
    BY <1>1, <2>1
  <2> QED BY <2>1, <2>2, <2>3 DEF WorkInv
<1>3. CASE FillRegs(t)
  <2>1. /\ pc[t] = "fill" /\ outer[t] = Len(Defs) /\ th' = th /\ bound' = bound
        /\ pc' = [pc EXCEPT ![t] = "enter"] /\ posted' = posted
        /\ outer' = [outer EXCEPT ![t] = 0]
    BY <1>3 DEF FillRegs
  <2>2. \A i \in 1..Len(Defs) : Len(Defs[i]) <= bound[t]
    BY <2>1 DEF WorkInv
  <2>3. \A u \in Threads :
          u # t => pc'[u] = pc[u] /\ outer'[u] = outer[u]
    BY <1>1, <2>1
  <2>4. pc'[t] = "enter"
    BY <1>1, <2>1
  <2> QED BY <2>1, <2>2, <2>3, <2>4 DEF WorkInv
<1> QED BY <1>2, <1>3

\* Every step of a thread.
LEMMA WorkRun ==
  ASSUME Folders # <<>>, TypeInv, WorkInv, NEW t \in Threads, run(t)
  PROVE  WorkInv'
<1> USE ListTyped, WorkFrame
<1> /\ th \in [Threads -> Nat] /\ outer \in [Threads -> Nat]
    /\ bound \in [Threads -> Nat]
  BY DEF TypeInv, TypeOK
<1>1. CASE RunAny(t)
  <2>1. CASE Signal(t)
    <3>1. pc[t] = "signal" /\ UNCHANGED <<th, outer, bound, posted>>
          /\ pc' = [pc EXCEPT ![t] = CASE th[t] = 0      -> "fill"
                                       [] th[t] \in 1..2 -> "enter"
                                       [] OTHER          -> "reset"]
      BY <2>1 DEF Signal
    <3>2. outer[t] = 0
      BY <3>1 DEF TypeInv, Loops, LoopsOf, Started
    <3>3. \A u \in Threads : u # t => pc'[u] = pc[u]
      BY <3>1
    <3>4. pc'[t] \in {"fill", "enter", "reset"} /\ (pc'[t] = "enter" => th[t] # 0)
      BY <3>1
    <3> QED BY <3>1, <3>2, <3>3, <3>4 DEF WorkInv
  <2> QED BY <1>1, <2>1 DEF RunAny, ReadIndex, ResetIndex, EnterCs, LeaveCs
<1>2. CASE RunFill(t)
  BY <1>2, WorkAnnounced, WorkFilled DEF RunFill, SetReady
<1>3. CASE RunSearch(t)
  BY <1>3 DEF RunSearch, Await, Resignal, SkipDrive, ChangeDir, SearchOver,
     FindHit, FindValid, FindMiss, BlockOver, FullPath
<1>4. CASE RunDetect(t)
  <2>1. CASE AddFileNotify(t)
    <3>1. [msg |-> "DETECTION", val |-> path_iter] \in Messages
      BY ListTyped DEF Messages
    <3> QED BY <2>1, <3>1, WorkPost DEF AddFileNotify
  <2> QED BY <1>4, <2>1 DEF RunDetect, LockDects, AddFile, AddFilePush,
             AddName, UnlockDects, EnterHwnd, AddFileAdvance
<1>5. CASE RunRegistry(t)
  BY <1>5 DEF RunRegistry, OpenKey, KeysOver, QueryPresent, QueryAbsent,
     QueryBeyond, ValuesOver, AddReg
<1>6. CASE RunCount(t)
  <2>1. CASE Report(t) /\ AllDone(t)
    <3>1. [msg |-> "DONE", val |-> 0] \in Messages
      BY DEF Messages
    <3> QED BY <2>1, <3>1, WorkPost DEF Report
  <2> QED BY <1>6, <2>1 DEF RunCount, CountWait, CountBump, CountTake, Report
<1> QED BY <1>1, <1>2, <1>3, <1>4, <1>5, <1>6 DEF run

\* Every step of the program.
LEMMA WorkNext ==
  ASSUME Folders # <<>>, TypeInv, WorkInv, [Next]_vars
  PROVE  WorkInv'
<1> USE ListTyped
<1>1. CASE UNCHANGED vars
  BY <1>1, WorkFrame
<1>2. CASE Check \/ _switch
  <2>1. UNCHANGED <<posted, th, outer, bound>>
    BY <1>2 DEF Check, _switch, SwitchWait, SwitchStore, SwitchReset
  <2>2. \A u \in Threads : pc'[u] = pc[u] \/ pc'[u] = "new"
    BY <1>2, NewThread DEF _switch, SwitchWait, SwitchStore
  <2> QED BY <2>1, <2>2, WorkFrame
<1>3. CASE Cancel
  <2>1. [msg |-> "ABORTED", val |-> 0] \in Messages
    BY DEF Messages
  <2> QED BY <1>3, <2>1, WorkPost DEF Cancel
<1> QED BY <1>1, <1>2, <1>3, WorkRun DEF Next

\* Nothing is announced at first.
LEMMA WorkInit == Init => WorkInv
  BY DEF Init, WorkInv

\* DividesByWork, for any number of checks and with any common folder to search:
\* the work is not 0 when a definition names a file.
THEOREM DivisionNeedsNoFiles ==
  ASSUME Folders # <<>>
  PROVE  WindowSpec => []DividesByWork
<1>1. WindowInit => WorkInv /\ DividesByWork
  BY WorkInit DEF WindowInit, DividesByWork
<1>2. EngineInv /\ WorkInv /\ [WindowNext]_windowVars => WorkInv'
  BY EngineMoves, WorkNext DEF EngineInv
<1>3. EngineInv /\ QueueInv /\ WorkInv /\ DividesByWork
        /\ [WindowNext]_windowVars => DividesByWork'
  <2> SUFFICES ASSUME EngineInv, QueueInv, WorkInv, DividesByWork, Handle
               PROVE  DividesByWork'
    BY WindowStep DEF EngineInv, DividesByWork
  <2>1. CASE EngineInitReady
    <3>1. /\ handled < Len(posted) /\ posted[handled + 1].msg = "INIT_READY"
          /\ Value = posted[handled + 1].val
          /\ crashed' = "division" => Value = 0
      BY <2>1 DEF EngineInitReady, Receives, Waiting, Value
    <3>2. Value = 0 => NoFiles
      BY <3>1, NextMessage DEF WorkInv
    <3> QED BY <3>1, <3>2 DEF DividesByWork, NoFiles
  <2>2. CASE DetectionAt
    BY <2>2 DEF DetectionAt, DividesByWork
  <2>3. CASE IncrementWd \/ DetectionCopy \/ EngineDone
    BY <2>3 DEF IncrementWd, DetectionCopy, EngineDone, DividesByWork
  <2> QED BY <2>1, <2>2, <2>3 DEF Handle
<1> QED BY <1>1, <1>2, <1>3, WindowInvariant, PTL DEF WindowSpec
=============================================================================
