SPECIFICATION Spec
CONSTANTS NProc = 2
          MaxPages = 3
          NFrames = 6
          MAX_PSYCH_PAGES = 2
          Written = {0}
INVARIANTS PlacesAgree PagesKept
CHECK_DEADLOCK FALSE
