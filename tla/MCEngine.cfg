CONSTANTS
  sys = sys  tmp = tmp  A = A  C = C  D = D  E = E
  f = f  g = g  h = h
  run1 = run1  run2 = run2  run3 = run3  v1 = v1  v2 = v2  v3 = v3
  Dirs <- AllDirs
  Files <- AllFiles
  Prefix <- MCPrefix
  KeyPaths <- AllPaths
  Values <- AllValues
  Drives <- TwoDrives
  Root = C
  Letter <- MCLetter
  DriveType <- MCDriveType
  Media <- MCMedia
  Folders <- MCFolders
  Tables <- MCTables
  Defs <- PrefixDefs
  RegDefs <- OneKey
  Disk <- MCDisk
  Reachable <- AllReachable
  StartDir = C
  OpenKeys <- MCOpenKeys
  KeyValues <- MCKeyValues
  MaxChecks = 1
  MaxCancels = 0

SPECIFICATION Spec
INVARIANT TypeOK
INVARIANT LockDiscipline
INVARIANT NoDuplicatePaths
INVARIANT DetectionsNumbered
INVARIANT NamesBeforePaths
INVARIANT RolesDistinct
INVARIANT NothingBeforeInit
INVARIANT LeadingRecorded
PROPERTY LogRefined
\* The window rests when nobody uses it.
CHECK_DEADLOCK FALSE
