CONSTANTS
  sys = sys  tmp = tmp  A = A  C = C  D = D  E = E
  f = f  g = g  h = h
  run1 = run1  run2 = run2  run3 = run3  v1 = v1  v2 = v2  v3 = v3
  Dirs <- AllDirs
  Files <- AllFiles
  Prefix <- MCPrefix
  KeyPaths <- AllPaths
  Values <- AllValues
  Drives <- OneDrive
  Root = C
  Letter <- MCLetter
  DriveType <- MCDriveType
  Media <- MCMedia
  Folders <- OneFolder
  Tables <- MCTables
  Defs <- OneDef
  RegDefs <- NoKeys
  Disk <- DriveDisk
  Reachable <- AllReachable
  StartDir = C
  OpenKeys <- MCOpenKeys
  KeyValues <- MCKeyValues
  MaxChecks = 2
  MaxCancels = 1

SPECIFICATION Spec
INVARIANT SwitchNotStuck
PROPERTY FoldersSurviveCancel
CONSTRAINT OneLeftOver
\* The window rests when nobody uses it.
CHECK_DEADLOCK FALSE
