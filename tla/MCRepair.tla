-------------------------------- MODULE MCRepair --------------------------------
(***************************************************************************)
(* Small machines for the runs of Repair.  The check has left three paths  *)
(* of two files; both files are programs, and run.                         *)
(***************************************************************************)
EXTENDS RepairProperties, TLC

CONSTANTS sys, tmpdir, D,            \* directories
          f, g,                      \* files
          run1, run2, v1, v2         \* registry

AllDirs == {sys, tmpdir, D}
AllFiles == {f, g}
AllKeyPaths == {run1, run2}
AllValues == {v1, v2}
NoPrefix == {<<n, n>> : n \in AllFiles}

\* The list: f was found in two folders, so the names are fewer than the paths.
MCPaths == <<<<sys, f>>, <<tmpdir, f>>, <<D, g>>>>
MCNames == <<f, g>>
OnePath == <<<<sys, f>>>>
OneName == <<f>>
NoPaths == <<>>
NoNames == <<>>
MCDisk == {<<sys, f>>, <<tmpdir, f>>, <<D, g>>}

RegKey(h, p, s) == [handle |-> h, keyPath |-> p, values |-> s]

\* The second key may only be read: under HKEY_CURRENT_USER (1) it opens.
MCKeys == <<RegKey(2, run1, <<v1, v2>>), RegKey(1, run2, <<v1>>)>>
OneKey == <<RegKey(2, run1, <<v1, v2>>)>>
NoKeys == <<>>
MCOpenKeys == {<<2, run1>>, <<1, run2>>}
Key1Only == {<<2, run1>>}
MCRegistry == {<<2, run1, v1>>, <<2, run1, v2>>, <<1, run2, v1>>}

None == {}
GOnly == {g}
FOnly == {f}
TmpFile == {<<tmpdir, f>>}
AllOutcomes == 0..5
ErrorOrNot == {0, 5}   \* 0 to 4 are errors, which the window treats alike
Success == {5}
Smooth == {FALSE}
EitherWay == {TRUE, FALSE}
ErrorClear == {FALSE}
================================================================================
