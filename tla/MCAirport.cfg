SPECIFICATION AirportsSpec
CONSTANTS Passengers = {v1, p1, p2}
          Vips = {v1}
          Belts = {b1, b2}
          M = 2
          P = 2
INVARIANTS StationInv OwnPass MachineBooks
PROPERTY EveryoneBoards
