SPECIFICATION Spec
CONSTANTS
  BS = 3  ND = 2  IPB = 4  LogBlocks = 0  InodeBlocks = 2  MaxBlocks = 15  MaxInodes = 7
  NINODE = 3  NFILE = 2  NOFILE = 2  NBuf = 10  RefMod = 5
  Procs = {1, 2}
  Trees <- MCTrees  PrefixOf <- MCPrefixes  Paths <- MCPaths
  Counts = {5}  MaxFails = 1
INVARIANTS TypeOK DescriptorsCounted DescriptorKeepsInode CacheCoherent EntriesAllocated NamesUnique ReadsBack
PROPERTY EntriesKept
CONSTRAINT BeforeWrap
CHECK_DEADLOCK FALSE
