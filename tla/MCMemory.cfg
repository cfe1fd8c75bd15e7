SPECIFICATION Spec
CONSTANTS
  MemoryMap <- Regions
  FrameSize = 2
  HeapPages = 1
  UserProcs = {u1}
  ForkedProcs = {c}
  NoProc = NoProc
  Kernel = Kernel
  Pages = {0, 1, 2, 3, 4}
  GroupSize = 3
  Image <- TestApp
  PageSize = 2
  Stack <- UserStack
  MaxAreas = 3
  Ranges <- FreePages
  Values = {v}
  Zero = Zero
  Junk = Junk
  NoFrame = NoFrame
INVARIANTS TypeOK FramesOwnedOnce ImageIntact
PROPERTIES LegalAccessSurvives MemoryKept
CHECK_DEADLOCK FALSE
