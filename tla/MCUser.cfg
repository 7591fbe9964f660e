SPECIFICATION Spec
CONSTANTS
  NPROC = 6
  NOFILE = 6
  NFILE = 10
  PIPESIZE = 2
  WRITE = 2
  NFRAMES = 55
  PGSIZE = 2
  NPTENTRIES = 4
  KTABLES = 1
  KERNBASE = 40
  MORE = 4
  MAXARGS = 4
  N = 3
  BIG = 20
  PAGE = 2
  KERNEL = 40
  UNITS = 6
  TYPED = 5
  Disk <- MCDisk
  Sessions <- MCSessions
  Alphabet <- MCAlphabet
INVARIANTS
  TestsPass
  MemoryOwned
  NothingLeft
  ParsedAsMeant
PROPERTY
  EveryoneEnds
CHECK_DEADLOCK FALSE
