SPECIFICATION FairSpec
CONSTANTS Procs = {p1, p2}
          NBUF = 3
          NBlocks = 4
          Values = {v0, v1}
          NoProc = NoProc
          Zero = v0
          Written = {2}
INVARIANTS CacheInv SleepersAreWoken
PROPERTIES ImplementsBlockStore DiskAnswers
