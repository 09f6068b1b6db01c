CONSTANTS
  CPU = {c1}
  HDR = 2
  Bottom = 1
  Top = 13
  Sizes = {0, 3}
SPECIFICATION Spec
INVARIANT FreeNeighboursMerged
