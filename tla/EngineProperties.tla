--------------------------- MODULE EngineProperties ---------------------------
(***************************************************************************)
(* What a check of cEngine has to guarantee, and what its comments say it  *)
(* guarantees.  The runs of MCEngine say which of them the code keeps.     *)
(***************************************************************************)
EXTENDS Engine

-------------------------------------------------------------------------------
(* Properties of the mutexes and of the list. *)

Adding ==
  {"addfile", "filecs", "push", "notify", "advance", "addname", "namecs",
   "unlock"}
Counting == {"bump", "take"}
InsideCs == {"incs", "filecs", "namecs"}

\* hMdect covers addFile and addName, hTDone the count of finished threads, and
\* cs the set-up and the reads of the window's handle inside hMdect: a thread is
\* in one of these sections exactly when it owns it, except for a critical
\* section whose owner was terminated inside.
LockDiscipline ==
  /\ \A t \in Threads : pc[t] \in Adding <=> hMdect = t
  /\ \A t \in Threads : pc[t] \in Counting <=> hTDone = t
  /\ \A t \in Threads : pc[t] \in InsideCs => cs = t
  /\ \A t \in Threads : cs = t => pc[t] \in InsideCs \cup {"killed"}

\* No path is in the list twice, nor after one it is a prefix of, although two
\* threads test FileExist and push_back at their own pace.
NoDuplicatePaths ==
  \A i, j \in 1..Len(Filepaths) :
    i < j => ~PathPrefix(Filepaths[j], Filepaths[i])

Detection(i) == posted[i].msg = "DETECTION"

\* The numbers the WM_DETECTION messages carry.
Numbers == {posted[i].val : i \in {j \in 1..Len(posted) : Detection(j)}}

\* The WM_DETECTION messages number the list 0, 1, 2, ... in this order and
\* without a gap, and none carries a number the list does not have yet.  As long
\* as no thread is terminated no number comes twice, and outside addFile every
\* path in the list has had its message.  A thread that is terminated between
\* PostMessage and path_iter++ leaves its number to the next path, one that is
\* terminated before PostMessage leaves its path without one.
DetectionsNumbered ==
  /\ \A i, j \in 1..Len(posted) :
       i < j /\ Detection(i) /\ Detection(j) =>
         /\ posted[i].val <= posted[j].val
         /\ cancels = 0 => posted[i].val # posted[j].val
  /\ 0..path_iter - 1 \subseteq Numbers
  /\ Numbers \subseteq (0..path_iter) \cap (0..Len(Filepaths) - 1)
  /\ cancels = 0 /\ hMdect = NoThread => Numbers = 0..Len(Filepaths) - 1

\* Some name at or before the index of the i-th path covers the path's file.
Named(i) ==
  \E j \in 1..Len(names) : j <= i /\ <<Filepaths[i][2], names[j]>> \in Prefix

\* The repair kills process i before it deletes file i.  When addName has run,
\* also in threads of two checks, every path has its name in time.
NamesBeforePaths ==
  cancels = 0 /\ hMdect = NoThread => \A i \in 1..Len(Filepaths) : Named(i)

\* The list a WM_ENGINE_DONE hands to the repair is final, the message is sent
\* once, and the list never loses or repeats a path: one check implements
\* DetectionLog.
Log == INSTANCE DetectionLog WITH
         Searchers <- 3, Found <- Paths,
         log <- Filepaths, keys <- regS, searching <- 3 - threadDone,
         sealed <- Sent("DONE")
LogRefined == Log!LogSpec

-------------------------------------------------------------------------------
(* Properties of the roles and of the hand-over of the data. *)

Dispatched(t) == pc[t] \notin {"off", "new", "killed"}

\* Three starts with two _switches between them give the three roles to three
\* threads, as long as no second check is asked for.
RolesDistinct ==
  checks <= 1 =>
    \A t, u \in Threads :
      Dispatched(t) /\ Dispatched(u) /\ t # u =>
        th[t] # th[u] /\ th[t] \in 0..2

\* The first message of the engine is WM_ENGINE_INIT_READY, whatever IDM_CANCEL
\* has written before.
InitFirst ==
  \E i \in 1..Len(posted) :
    /\ posted[i].msg = "INIT_READY"
    /\ \A j \in 1..i - 1 : posted[j].msg = "ABORTED"

\* No progress, detection, key or end before the WM_ENGINE_INIT_READY that gives
\* the progress bar its range: no thread searches before the data are filled in.
NothingBeforeInit ==
  \/ increments > 0 \/ Filepaths # <<>> \/ regS # <<>>
  \/ \E i \in 1..Len(posted) : posted[i].msg # "ABORTED"
  => InitFirst

\* The window's thread never waits in _switch for an event nobody will set: it
\* is set already, or the thread just started has yet to set it.  This holds
\* for every check, also one begun while an earlier one runs, whose last
\* SetEvent nobody waited for.
SwitchNotStuck ==
  gpc = "wait" => hEvent \/ \E t \in Threads : pc[t] \in {"new", "signal"}

-------------------------------------------------------------------------------
(* Properties of the result. *)

Listed(p) == \E i \in 1..Len(Filepaths) : Filepaths[i] = p

Recorded(k, v) ==
  \E i \in 1..Len(regS) :
    /\ regS[i].handle = k.handle /\ regS[i].keyPath = k.keyPath
    /\ \E j \in 1..Len(regS[i].values) : regS[i].values[j] = v

\* "The engine will search for all detections in all the default folders": when
\* the engine is done, a defined file in a common folder that can be entered
\* and has no table of legitimate names is in the list.
ScanComplete ==
  Sent("DONE") =>
    \A i \in 1..Len(Folders), n \in 1..Len(Defs) : \A k \in 1..Len(Defs[n]) :
      /\ Folders[i] \in Reachable
      /\ TRUE \notin isValid(i - 1)
      /\ <<Folders[i], Defs[n][k]>> \in Disk
      => Listed(<<Folders[i], Defs[n][k]>>)

\* Every path reported as "Found Malware:" and later deleted is a file that
\* FindFirstFile found.
ListedExists == \A i \in 1..Len(Filepaths) : Filepaths[i] \in Disk

\* The first n values of a key are in the registry.
Leading(k, n) == \A j \in 1..n : ValuePresent(k, k.values[j])

\* When the engine is done, every value of a key that opens has been recorded for
\* deletion if it is in the registry and no value before it is absent.  The loop
\* erases absent values from the list it runs over, passes over the one that
\* moves up and then reads past the end; none of it reaches these values, while
\* a present value after an absent one may be lost.
LeadingRecorded ==
  Sent("DONE") =>
    \A i \in 1..Len(RegDefs) : \A j \in 1..Len(RegDefs[i].values) :
      KeyOpens(RegDefs[i]) /\ Leading(RegDefs[i], j)
        => Recorded(RegDefs[i], RegDefs[i].values[j])

-------------------------------------------------------------------------------
(* Liveness. *)

\* A check that is not cancelled ends with WM_ENGINE_DONE.
CheckCompletes == checks > 0 ~> Sent("DONE")

\* Terminating thread 2 never keeps thread 0 from finishing the folders, unless
\* it was inside cs: no mutex stays locked.
FoldersSurviveCancel ==
  nThreads > 0 ~> \/ pc[1] = "done"
                  \/ cs # NoThread /\ pc[cs] = "killed"
================================================================================
