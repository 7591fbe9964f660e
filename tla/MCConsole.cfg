SPECIFICATION Spec
CONSTANTS Procs = {p1, p2}
          x = x
          nl = nl
          eof = eof
          Chars <- Keys
          Newline = nl
          Eof = eof
          INPUT_BUF = 3
          Wrap = 6
          ROWS = 3
          COLS = 2
          Lengths = {1, 3}
INVARIANTS ConsoleInv
PROPERTIES ImplementsTerminal EofByItself
CHECK_DEADLOCK FALSE
