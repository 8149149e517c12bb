CONSTANTS
  Shapes <- MCShapes
  OtherCounts <- MCCounts
  SysReturns <- MCReturns
  MaxLoads = 2
  Small = 2

SPECIFICATION StartupSpec
INVARIANT StartupTypeOK
INVARIANT ParsedAsWritten
INVARIANT TablesAsWritten
INVARIANT OverrunWhenShort
INVARIANT NotMixed
INVARIANT ReadyMeansRead
PROPERTY CheckGetsEnabled
CONSTRAINT SecondReader
\* The program rests when all files are read.
CHECK_DEADLOCK FALSE
