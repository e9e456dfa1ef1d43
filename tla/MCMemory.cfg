SPECIFICATION AllSpec
CONSTANTS
  MemoryMap <- MCMemoryMap
  PAGE_SIZE = 2
  LowMemory = 2
  NoFrame = NoFrame
  NSlots = 2
  NBitmaps = 2
  NoFile = NoFile
  StateBit = 0
  StateWidth = 2
  Threads = {t1, t2}
  Files = {file}
  Processes = {proc}
  Rights <- MCRights
  GeneratedPages = 2
  NPages = 2
  MaxSize = 2
  TableFrames = 1
  GuardSize = 1
  HeaderSize = 4
  EntrySize = 2
  TailSize = 1
  HeapSizeMaximum = 32
  AllocationSizes = {1, 4, 7}
  Alignments = {2, 4}
CHECK_DEADLOCK FALSE
SYMMETRY MCSymmetry
INVARIANT FramesHaveOnePlace
INVARIANT MappedPagesAreCommitted
INVARIANT ReservationsAreFoundAndDisjoint
INVARIANT AllocationsAreDisjoint
PROPERTY FramesAreLostOnlyByRemappingOrTeardown

