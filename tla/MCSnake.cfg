SPECIFICATION Spec
CONSTANTS
  GRID_COLS = 6
  GRID_ROWS = 2
  BASE_TICKS = 2
  MIN_TICKS = 1
  SPEED_STEP = 10
  Keys <- MCKeys
  MaxKeys = 2
INVARIANTS SnakeIntact PictureFollows
PROPERTIES NeverReverses
