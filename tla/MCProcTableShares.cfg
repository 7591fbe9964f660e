SPECIFICATION Spec
CONSTANTS NPROC = 3
          Cpus = {c1}
          NoCpu = NoCpu
          MaxPid = 3
          TicketChoices = {1, 2}
          Victims = {2}
INVARIANT Shares
