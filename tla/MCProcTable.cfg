SPECIFICATION Spec
CONSTANTS NPROC = 4
          Cpus = {c1, c2}
          NoCpu = NoCpu
          MaxPid = 4
          TicketChoices = {1}
          Victims = {0, 1, 2, 3, 4}
SYMMETRY Symmetry
INVARIANTS Family NoLostChild
