SPECIFICATION Spec
CONSTANTS
  Cells <- MCCells
  DrawnCell = 6144
  Glyphs = {16, 17}
  Colors = 2
INVARIANT
  EveryExitRestores
