SPECIFICATION Spec
CONSTANTS
  Windows = {menu, w1, w2, w3}
  Menus = {menu}
  MaxEvents = 3
  MaxLabels = 2
SYMMETRY AppSymmetry
INVARIANTS TypeOK ScreenFollowsWindows LabelsFollowWindows
