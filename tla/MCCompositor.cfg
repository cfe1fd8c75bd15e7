SPECIFICATION TFairSpec
CONSTANTS
  TERM_ROWS = 2
  TERM_COLS = 1
  Glyphs = {x}
  Blank = Blank
  Cursor = Cursor
  TermWindows = {t1}
INVARIANTS QueuedOnce NothingLeftAsleep WindowsShowGrid
PROPERTIES ChangesServed
