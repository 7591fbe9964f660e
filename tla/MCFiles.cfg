SPECIFICATION Spec
CONSTANTS Procs = {p1, p2}
          Pages = {k1}
          a = a
          b = b
          Bytes <- AorB
          PIPESIZE = 2
          Wrap = 4
          NFILE = 3
          NOFILE = 2
          First = p1
          MayBeKilled = {p2}
          Lengths = {1}
          Messages <- Writings
INVARIANTS PipesLive PipeSleepersWoken
PROPERTIES ImplementsStreams
CHECK_DEADLOCK FALSE
