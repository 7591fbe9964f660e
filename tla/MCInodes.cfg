SPECIFICATION Spec
CONSTANTS p1 = p1
          p2 = p2
          Procs = {p1, p2}
          Names = {"d", "x"}
          NINODES = 3
          NBLOCKS = 4
          NDIRECT = 1
          NINDIRECT = 1
          Calls <- SomeCalls
          Links <- SomeLinks
INVARIANTS CountsAgree BlocksOwned OnlyPutsDeadlock
CHECK_DEADLOCK FALSE
PROPERTIES ImplementsFileTree
