CONSTANTS
  sys = sys  tmpdir = tmpdir  D = D  f = f  g = g
  run1 = run1  run2 = run2  v1 = v1  v2 = v2
  Dirs <- AllDirs
  Files <- AllFiles
  Prefix <- NoPrefix
  KeyPaths <- AllKeyPaths
  Values <- AllValues
  FoundPaths <- MCPaths
  FoundNames <- MCNames
  FoundKeys <- MCKeys
  Exes <- AllFiles
  Running <- AllFiles
  Killable <- FOnly
  Disk <- MCDisk
  Undeletable <- TmpFile
  OpenKeys <- MCOpenKeys
  WritableKeys <- Key1Only
  KeyValues <- MCRegistry
  RestoreOutcomes <- ErrorOrNot
  ErrorInit <- EitherWay
  Hindered <- EitherWay
  MaxRepairs = 1

SPECIFICATION Spec
INVARIANT TypeOK
INVARIANT LockDiscipline
INVARIANT KillTriedFirst
INVARIANT DoneIsLast
INVARIANT ListedGone
INVARIANT KeysGone
PROPERTY RepairCompletes
\* The window rests when nobody uses it.
CHECK_DEADLOCK FALSE
