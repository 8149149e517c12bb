CONSTANTS
  sys = sys  tmpdir = tmpdir  D = D  f = f  g = g
  run1 = run1  run2 = run2  v1 = v1  v2 = v2
  Dirs <- AllDirs
  Files <- AllFiles
  Prefix <- NoPrefix
  KeyPaths <- AllKeyPaths
  Values <- AllValues
  FoundPaths <- MCPaths
  FoundNames <- MCNames
  FoundKeys <- OneKey
  Exes <- AllFiles
  Running <- AllFiles
  Killable <- GOnly
  Disk <- MCDisk
  Undeletable <- None
  OpenKeys <- MCOpenKeys
  WritableKeys <- Key1Only
  KeyValues <- MCRegistry
  RestoreOutcomes <- AllOutcomes
  ErrorInit <- ErrorClear
  Hindered <- Smooth
  MaxRepairs = 1

SPECIFICATION Spec
INVARIANT FailureReported
\* The window rests when nobody uses it.
CHECK_DEADLOCK FALSE
