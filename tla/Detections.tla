------------------------------ MODULE Detections ------------------------------
(***************************************************************************)
(* The detection list shared by the threads of the program (class dectObj, *)
(* global `dects`): the paths of the files found, the names of the files   *)
(* found and the registry keys found.  The list is passive: the threads of *)
(* cEngine append to it, the threads of payLoads and the window procedure  *)
(* read it by index.                                                       *)
(*                                                                         *)
(* A path is a pair <<directory, file name>>.  The strings themselves are  *)
(* left out; what the code can tell of two names is whether one is a       *)
(* prefix of the other, given by the constant Prefix.                      *)
(***************************************************************************)
EXTENDS Naturals, Sequences

CONSTANTS
  Dirs,      \* directories: the common folders and the roots of the drives
  Files,     \* file names
  Prefix,    \* the pairs <<f, g>> such that the string f is a prefix of g
  KeyPaths,  \* registry paths, without their root
  Values     \* names of registry values

ASSUME PrefixAssumption ==
  /\ Prefix \in SUBSET (Files \X Files)
  /\ \A f \in Files : <<f, f>> \in Prefix
  /\ \A f, g, h \in Files :
       <<f, g>> \in Prefix /\ <<g, h>> \in Prefix => <<f, h>> \in Prefix

Paths == Dirs \X Files

\* keyObj: the root's index, the path and the names of the values.
RegKeys == [handle : Nat, keyPath : KeyPaths, values : Seq(Values)]

VARIABLES
  Filepaths,  \* the paths found, in the order of discovery
  names,      \* the file names found
  regS,       \* the registry keys found
  path_iter   \* index the next WM_DETECTION carries

dectVars == <<Filepaths, names, regS, path_iter>>

DectTypeOK ==
  /\ Filepaths \in Seq(Paths)
  /\ names \in Seq(Files)
  /\ regS \in Seq(RegKeys)
  /\ path_iter \in Nat

DectInit ==
  /\ Filepaths = <<>>
  /\ names = <<>>
  /\ regS = <<>>
  /\ path_iter = 0

\* strncmp(p, q, strlen(p)) == 0: the whole of p begins q.  Two paths of
\* different directories are never prefixes of each other here.
PathPrefix(p, q) == p[1] = q[1] /\ <<p[2], q[2]>> \in Prefix

FileExist(p) == \E i \in 1..Len(Filepaths) : PathPrefix(p, Filepaths[i])

NameExist(f) == \E i \in 1..Len(names) : <<f, names[i]>> \in Prefix

\* The push_back of addFile; the message and path_iter++ come after it.
PushFile(p) == Filepaths' = Append(Filepaths, p)

addName(f) == names' = IF NameExist(f) THEN names ELSE Append(names, f)

addReg(k) == regS' = Append(regS, k)
================================================================================
