-------------------------------- MODULE Window --------------------------------
(***************************************************************************)
(* The window and the engine together.  The threads of a check post their  *)
(* messages to the window's thread, which handles them in the order they   *)
(* were posted whenever it is not inside IDM_CHECK: the bar, the list of   *)
(* detections, the command Repair.  WM_DETECTION reads the list `dects`    *)
(* without the mutex under which the threads append to it.                 *)
(*                                                                         *)
(* Engine counts the WM_INCREMENT_WD messages apart from the others; here  *)
(* incAt says how many of them were posted before each of the others.      *)
(***************************************************************************)
EXTENDS EngineProperties

CONSTANTS
  Full,     \* what WM_ENGINE_INIT_READY and WM_ENGINE_DONE call 100
  Reserve   \* MAX_NO_DEFNS, for how many paths the list has storage

ASSUME WindowAssumption == Full \in SUBSET (Nat \ {0}) /\ Reserve \in Nat \ {0}

VARIABLES
  full,               \* the member of Full in this behaviour
  incAt,              \* for each message, the WM_INCREMENT_WD before it
  handled, incDone,   \* messages handled, of both kinds
  wpc, seenLen,       \* the handler of WM_DETECTION
  shown,              \* the paths reported as "Found Malware:"
  divs, incr,         \* globals of main.cpp
  range, step, pos,   \* the progress bar
  repairEnabled,      \* the command Repair
  crashed             \* what has ended the program, if anything has

barVars == <<divs, incr, range, step, pos>>
winVars == <<full, handled, incDone, wpc, seenLen, shown, barVars,
             repairEnabled, crashed>>
windowVars == <<vars, incAt, winVars>>

\* The queue of the window's thread.  (IDM_CANCEL, which is not part of this
\* module, writes its text at once.)
Queue == posted

WindowTypeOK ==
  /\ full \in Full
  /\ incAt \in Seq(Nat) /\ Len(incAt) = Len(Queue)
  /\ handled \in 0..Len(Queue)
  /\ incDone \in 0..increments
  /\ wpc \in {"idle", "copy"}
  /\ seenLen \in 0..Len(Filepaths)
  /\ shown \in Seq(Paths \cup {NoPath})
  /\ divs \in Nat /\ incr \in Nat
  /\ range \in Nat /\ step \in Nat /\ pos \in 0..range
  /\ repairEnabled \in BOOLEAN
  /\ crashed \in {"no", "at", "division"}

\* A progress bar begins with the range 0..100 and steps of 10.
WindowInit ==
  /\ Init
  /\ full \in Full
  /\ incAt = <<>>
  /\ handled = 0 /\ incDone = 0
  /\ wpc = "idle" /\ seenLen = 0
  /\ shown = <<>>
  /\ divs = 0 /\ incr = 0
  /\ range = full /\ step = 10 /\ pos = 0
  /\ repairEnabled = FALSE
  /\ crashed = "no"

-------------------------------------------------------------------------------
(* The engine's steps, and the order of the queue. *)

Running(A) ==
  /\ crashed = "no"
  /\ A
  /\ incAt' = IF Len(Queue') > Len(Queue) THEN Append(incAt, increments)
              ELSE incAt
  /\ UNCHANGED winVars

\* The command is a message like the others.
CheckCommand == wpc = "idle" /\ Running(Check)

-------------------------------------------------------------------------------
(* The handlers. *)

\* The window's thread is at GetMessage.
Waiting == crashed = "no" /\ gpc = "idle" /\ wpc = "idle"

\* The next message is an m, with the value v.
Receives(m) ==
  /\ Waiting
  /\ handled < Len(Queue)
  /\ incDone = incAt[handled + 1]
  /\ Queue[handled + 1].msg = m

Value == Queue[handled + 1].val

\* PBM_STEPIT: a bar that passes its range starts over.  The slip goes on past
\* the end.
SteppedNot(p) == p
Stepped(p) == IF p <= range THEN p ELSE IF range = 0 THEN 0 ELSE p % range

\* PBM_SETPOS stops at the end of the range.
Clamped(p, r) == IF p <= r THEN p ELSE r

\* WM_ENGINE_INIT_READY: steps of one unit of the bar when there is more work
\* than the bar has units, else of as many units as one piece of work.
EngineInitReady ==
  /\ Receives("INIT_READY")
  /\ handled' = handled + 1
  /\ IF Value = 0
     THEN crashed' = "division" /\ UNCHANGED <<divs, range, step, pos>>
     ELSE /\ range' = IF Value > full THEN full ELSE Value
          /\ divs' = IF Value > full THEN Value \div full ELSE divs
          /\ step' = IF Value > full THEN 1 ELSE full \div Value
          /\ pos' = Clamped(pos, range')
          /\ UNCHANGED crashed
  /\ UNCHANGED <<vars, incAt, full, incDone, wpc, seenLen, shown, incr,
                 repairEnabled>>

\* WM_INCREMENT_WD: incr % divs is 0 when incr is, and then incr stays 0.
IncrementWd ==
  /\ Waiting
  /\ incDone < IF handled < Len(Queue) THEN incAt[handled + 1] ELSE increments
  /\ incDone' = incDone + 1
  /\ IF divs = 0 \/ incr % divs = 0
     THEN /\ pos' = Stepped(pos + step)
          /\ incr' = IF divs = 0 THEN incr ELSE 0
     ELSE /\ incr' = incr + 1
          /\ UNCHANGED pos
  /\ UNCHANGED <<vars, incAt, full, handled, wpc, seenLen, shown, divs, range,
                 step, repairEnabled, crashed>>

\* WM_DETECTION: at(i) compares with the size and yields a string of the storage
\* the list has now, ...
DetectionAt ==
  /\ Receives("DETECTION")
  /\ IF Value < Len(Filepaths)
     THEN wpc' = "copy" /\ seenLen' = Len(Filepaths) /\ UNCHANGED crashed
     ELSE crashed' = "at" /\ UNCHANGED <<wpc, seenLen>>
  /\ UNCHANGED <<vars, incAt, full, handled, incDone, shown, barVars,
                 repairEnabled>>

\* Since the list had n paths a push_back may have moved its storage: it may
\* once the list is longer than what the first addFile has reserved.  The slip
\* reserves nothing.
MayHaveMovedNot(n) == Len(Filepaths) > n
MayHaveMoved(n) == Len(Filepaths) > n /\ Len(Filepaths) > Reserve

\* ... which is then copied and shown.
DetectionCopy ==
  /\ crashed = "no"
  /\ wpc = "copy"
  /\ \E p \in {Filepaths[Value + 1]}
              \cup IF MayHaveMoved(seenLen) THEN {NoPath} ELSE {} :
       shown' = Append(shown, p)
  /\ wpc' = "idle"
  /\ seenLen' = 0
  /\ handled' = handled + 1
  /\ UNCHANGED <<vars, incAt, full, incDone, barVars, repairEnabled, crashed>>

\* WM_ENGINE_DONE.
EngineDone ==
  /\ Receives("DONE")
  /\ handled' = handled + 1
  /\ pos' = Clamped(full, range)
  /\ repairEnabled' = TRUE
  /\ UNCHANGED <<vars, incAt, full, incDone, wpc, seenLen, shown, divs, incr,
                 range, step, crashed>>

Handle ==
  \/ EngineInitReady \/ IncrementWd \/ DetectionAt \/ DetectionCopy
  \/ EngineDone

WindowNext ==
  \/ CheckCommand \/ Running(_switch)
  \/ \E t \in Threads : Running(run(t))
  \/ Handle

\* The operating system schedules every thread, the window's too.
WindowSpec ==
  /\ WindowInit /\ [][WindowNext]_windowVars
  /\ WF_windowVars(Running(_switch))
  /\ \A t \in Threads : WF_windowVars(Running(run(t)))
  /\ WF_windowVars(Handle)

-------------------------------------------------------------------------------
(* Properties. *)

\* at(i) never throws in the window's thread: when a WM_DETECTION is handled the
\* list has the path it numbers, although nothing but the order of the two steps
\* of addFile makes it so.
NeverThrows == crashed # "at"

\* Every "Found Malware:" names the path whose number the message carries, and
\* the lines are in the order of the list, although the list is read without a
\* lock: as long as it has not outgrown what the first addFile reserved.
ReportsList ==
  Len(Filepaths) <= Reserve => shown = SubSeq(Filepaths, 1, Len(shown))

\* When "Search Engine done:" is written and Repair enabled, everything Repair is
\* going to delete has been shown, and nothing comes after it.
DoneShowsAll ==
  repairEnabled => Len(shown) = Len(Filepaths)

\* The bar that is filled up at the end stays full, also when it was stepped past
\* its range: no WM_INCREMENT_WD comes after WM_ENGINE_DONE.
BarStaysFull == repairEnabled => pos = Clamped(full, range)

\* 100/lParam does not divide by zero when a definition names a file.
DividesByWork ==
  crashed = "division" => \A i \in 1..Len(Defs) : Defs[i] = <<>>

\* When thread 1 is the first to get hDataReady, Repair gets enabled in the end.
RepairOffered ==
  (\E t \in Threads : pc[t] = "resignal") ~> repairEnabled
================================================================================
