----------------------------- MODULE DetectionLog -----------------------------
(***************************************************************************)
(* What a check promises the rest of the program: a log of detections that *)
(* only grows, never holds a path twice, and is sealed by one announcement *)
(* made when all searchers have finished.  The repair, which walks the log *)
(* by index, relies on the seal.                                           *)
(***************************************************************************)
EXTENDS Naturals, Sequences

CONSTANTS
  Searchers,  \* how many searchers a check has
  Found       \* the paths that may be found

VARIABLES
  log,        \* the paths found
  keys,       \* the registry keys found
  searching,  \* how many searchers have not finished
  sealed      \* the end of the check has been announced

logVars == <<log, keys, searching, sealed>>

LogInit ==
  /\ log = <<>>
  /\ keys = <<>>
  /\ searching = Searchers
  /\ sealed = FALSE

DetectPath(p) ==
  /\ searching > 0
  /\ \A i \in 1..Len(log) : log[i] # p
  /\ log' = Append(log, p)
  /\ UNCHANGED <<keys, searching, sealed>>

\* Any key may be found.
DetectKey ==
  /\ searching > 0
  /\ Len(keys') = Len(keys) + 1
  /\ SubSeq(keys', 1, Len(keys)) = keys
  /\ UNCHANGED <<log, searching, sealed>>

FinishOne ==
  /\ searching > 0
  /\ searching' = searching - 1
  /\ UNCHANGED <<log, keys, sealed>>

Seal ==
  /\ searching = 0
  /\ ~sealed
  /\ sealed' = TRUE
  /\ UNCHANGED <<log, keys, searching>>

LogNext ==
  \/ \E p \in Found : DetectPath(p)
  \/ DetectKey
  \/ FinishOne
  \/ Seal

LogSpec == LogInit /\ [][LogNext]_logVars
================================================================================
