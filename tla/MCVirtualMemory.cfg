SPECIFICATION Spec
CONSTANTS
  A = A
  B = B
  t1 = t1
  t2 = t2
  t3 = t3
  Spaces = {A, B}
  Threads = {t1, t2, t3}
  SpaceOf <- MCSpaceOf
  Forked = {t2}
  NONE = NONE
  ProgramPages <- MCProgramPages
  CodePages <- MCCodePages
  StackPages = 2
  NumPhysPages = 2
  LRUs = {0, 1}
  MaxWrites = 2
  MaxSwitches = 1
INVARIANTS FramesAccountedFor FrameAlwaysFound
PROPERTIES IsMemory KernelReturns
CHECK_DEADLOCK FALSE
