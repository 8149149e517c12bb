CONSTANTS
  a = a  b = b  n1 = n1  n2 = n2  c = c
  Lines <- MCLines
  Inputs <- MCInputs
  Parts <- MCParts
  KeyPaths <- MCPaths
  Junk <- MCJunk
  MaxPasses = 2

SPECIFICATION Spec
INVARIANT TypeOK
INVARIANT FirstValueKept
INVARIANT NothingInvented
INVARIANT NoneTwice
PROPERTY SecondPassIdle
\* The program rests when all definitions are read.
CHECK_DEADLOCK FALSE
