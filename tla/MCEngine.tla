-------------------------------- MODULE MCEngine --------------------------------
(***************************************************************************)
(* Small machines for the runs of Engine.  Windows is in C:, "sys" and     *)
(* "tmp" are common folders on it, D: is a second fixed drive and E: a     *)
(* stick, A: a floppy.  sys has a table of legitimate names, tmp has none. *)
(***************************************************************************)
EXTENDS EngineProperties

CONSTANTS sys, tmp, A, C, D, E,        \* directories
          f, g, h,                     \* files; the string g begins h
          run1, run2, run3, v1, v2, v3 \* registry

AllDirs == {sys, tmp, A, C, D, E}
AllFiles == {f, g, h}
AllPaths == {run1, run2, run3}
AllValues == {v1, v2, v3}
MCPrefix == {<<n, n>> : n \in AllFiles} \cup {<<g, h>>}

\* Drives.
OneDrive == <<C>>
TwoDrives == <<C, D>>
MCLetter == (A :> 1) @@ (C :> 3) @@ (D :> 4) @@ (E :> 5)
MCDriveType ==
  (A :> "removable") @@ (C :> "fixed") @@ (D :> "fixed") @@ (E :> "removable")
MCMedia ==
  [n \in 0..26 |-> CASE n = 1 -> "floppy3" [] n \in 3..4 -> "fixed"
                     [] n = 5 -> "removable" [] OTHER -> "none"]
AllReachable == AllDirs
NotSys == AllDirs \ {sys}

\* Folders and their tables.
OneFolder == <<tmp>>
MCFolders == <<sys, tmp>>
MCTables == <<{f}>>

\* Definitions and what is on the disk.
OneDef == << <<f>> >>
PrefixDefs == << <<h>>, <<g>> >>
MCDisk == {<<sys, h>>, <<tmp, g>>, <<D, h>>, <<D, g>>}
FolderDisk == {<<sys, f>>, <<tmp, f>>, <<tmp, g>>, <<tmp, h>>}
DriveDisk == {<<tmp, f>>, <<D, f>>}

\* Registry keys of the definitions, and what is in the registry: of the values
\* of OneKey the first and the last, which the loop passes over.
Key1(p, s) == [handle |-> 2, keyPath |-> p, values |-> s]
NoKeys == <<>>
OneKey == <<Key1(run1, <<v2, v1, v3>>)>>
MCOpenKeys == {<<2, run1>>, <<2, run2>>}
MCKeyValues == {<<2, run1, v2>>, <<2, run1, v3>>, <<2, run2, v2>>}

\* Bound for two checks and a cancel: the second check is followed until its
\* threads have been started, and only where nothing was cancelled and at most
\* one thread of the first is still on its way.
OneLeftOver ==
  nThreads > 3 => /\ gpc # "idle"
                  /\ cancels = 0
                  /\ Cardinality({t \in 1..3 : pc[t] # "done"}) <= 1
================================================================================
