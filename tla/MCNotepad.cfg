SPECIFICATION Spec
CONSTANTS
  Chars = {sp}
  Space = sp
  NL = NL
  Names = {"readme", "note"}
  Untitled = Untitled
  TarFiles <- Tar
  VISIBLE_ROWS = 1
  VISIBLE_COLS = 2
  MAX_UNDO = 3
  TabWidth = 2
  MaxRows = 2
  MaxCols = 2
  MaxKeys = 7
CHECK_DEADLOCK FALSE
INVARIANTS TypeOK CursorVisible UnmodifiedIsSaved
PROPERTIES HistoryLinear EditsUndoable
