SPECIFICATION FairSpec
CONSTANTS Procs = {p1, p2}
          Nested = {p1}
          Blocks = {b1, b2, b3}
          MAXOPBLOCKS = 3
          OpBlocks = 2
          LOGSIZE = 6
          NLOG = 6
          MaxOps = 3
          MaxCrashes = 0
PROPERTY OpsStart
