CONSTANTS
  sys = sys  tmpdir = tmpdir  D = D  f = f  g = g
  run1 = run1  run2 = run2  v1 = v1  v2 = v2
  Dirs <- AllDirs
  Files <- AllFiles
  Prefix <- NoPrefix
  KeyPaths <- AllKeyPaths
  Values <- AllValues
  FoundPaths <- NoPaths
  FoundNames <- NoNames
  FoundKeys <- NoKeys
  Exes <- AllFiles
  Running <- AllFiles
  Killable <- AllFiles
  Disk <- MCDisk
  Undeletable <- None
  OpenKeys <- MCOpenKeys
  WritableKeys <- Key1Only
  KeyValues <- MCRegistry
  RestoreOutcomes <- Success
  ErrorInit <- ErrorClear
  Hindered <- Smooth
  MaxRepairs = 2

SPECIFICATION Spec
PROPERTY EveryStartEnds
\* The window rests when nobody uses it.
CHECK_DEADLOCK FALSE
