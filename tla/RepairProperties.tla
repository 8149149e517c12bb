---------------------------- MODULE RepairProperties ----------------------------
(***************************************************************************)
(* What a repair has to guarantee, and what its comments and messages say  *)
(* of it.  The runs of MCRepair say which of this the code keeps.          *)
(***************************************************************************)
EXTENDS Repair, FiniteSets

Sent(m) == \E i \in 1..Len(posted) : posted[i].msg = m

Failure(m) == m.msg \in {"FILE_DEL", "REGS_REMOVED"} /\ m.res # 0

Listed == {Filepaths[i] : i \in 1..Len(Filepaths)}

Entries(k) == {<<k.handle, k.keyPath, k.values[j]>> : j \in 1..Len(k.values)}

-------------------------------------------------------------------------------
(* Safety. *)

\* gHdect covers every reading of the list and workDone++, hThDone the count of
\* finished threads: a thread is in such a section exactly when it owns it.
LockDiscipline ==
  /\ \A t \in Threads : pc[t] \in {"next", "value"} <=> gHdect = t
  /\ \A t \in Threads : pc[t] \in {"bump", "take"} <=> hThDone = t

\* The i-th process is looked for with the i-th file, although the list of
\* names is shorter than the list of paths: when the file of a program has had
\* its DeleteFile, killProcess has been called for that program before.
KillTriedFirst ==
  \A k \in 1..Len(posted) :
    posted[k].msg = "FILE_DEL" /\ isExe(Filepaths[posted[k].val + 1][2]) =>
      \E l \in 1..k : /\ posted[l].msg = "PROC_KILLED"
                      /\ names[posted[l].val + 1] =
                           Filepaths[posted[k].val + 1][2]

\* WM_PAYLOAD_DONE comes once, after everything the repair does to the machine.
DoneIsLast ==
  \A k, l \in 1..Len(posted) :
    posted[k].msg = "PAYLOAD_DONE" /\ k < l => posted[l].msg = "SYSTEM"

\* "End process if its running / Delete the file": when the repair is done and
\* nothing has got in its way, no listed file is left but those the system
\* protects.
ListedGone ==
  Sent("PAYLOAD_DONE") /\ ~hindered =>
    \A p \in Listed \ Undeletable : p[2] \in Running \ Killable \/ p \notin disk

\* When the repair is done no value of a listed key that can be opened and written
\* is left, also behind keys that do not open or may only be read.
KeysGone ==
  Sent("PAYLOAD_DONE") =>
    \A i \in 1..Len(regS) : KeyOpens(regS[i]) /\ MayWrite(regS[i]) =>
      Entries(regS[i]) \cap registry = {}

\* "Repair Engine Encountered Some Errors!" is said when there was an error.
FailureReported ==
  \A k \in 1..Len(posted) :
    posted[k].msg = "PAYLOAD_DONE" /\ posted[k].res = 0 =>
      \A l \in 1..k : ~Failure(posted[l])

\* The window's thread never waits in _switch for an event nobody will set,
\* whatever restore point and repair the user has asked for before.
SwitchNotStuck ==
  rpc = "wait" => hthidEvent \/ \E t \in Threads : pc[t] \in {"new", "signal"}

-------------------------------------------------------------------------------
(* Liveness. *)

\* A repair that was started ends with WM_PAYLOAD_DONE, unless free() ends the
\* program.
RepairCompletes == rpc = "set" ~> Sent("PAYLOAD_DONE") \/ rpc = "crashed"

Ends == Cardinality({i \in 1..Len(posted) : posted[i].msg = "PAYLOAD_DONE"})

Quiet == \A t \in Threads : pc[t] \in {"off", "done"}

\* Every "Starting Repair Operation...", also one after a repair that has
\* finished, is followed by an end of its own.
EveryStartEnds ==
  \A n \in 1..MaxRepairs :
    (rpc = "set" /\ rleft = 2 /\ Quiet /\ Ends = n - 1) ~> Ends >= n
================================================================================
