SPECIFICATION FairSpec
CONSTANT Passengers = {p1, p2, p3}
INVARIANTS LockInv OneDirection
PROPERTIES GateClosed ImplementsWalkway FirstLeftCrosses EveryoneCrosses
